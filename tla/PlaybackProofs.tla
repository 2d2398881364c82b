--------------------------- MODULE PlaybackProofs ---------------------------
(***************************************************************************)
(* Proofs about Playback: a source finishes at most once, and a loop sends *)
(* at most one late frame, for any calls, players and sources and any      *)
(* order of the application's operations.                                  *)
(***************************************************************************)
EXTENDS Playback, TLAPS

\* Playing and closing a source leave it a source.
LEMMA SourceUpdates ==
  ASSUME NEW r \in SourceType
  PROVE  /\ [r EXCEPT !.used = TRUE] \in SourceType
         /\ [r EXCEPT !.closed = TRUE] \in SourceType
BY DEF SourceType

\* The invariant is inductive.  Whoever takes a source out of its player takes
\* it for good (GoneForGood), because it was in one player only (OneHolder).
LEMMA InvariantStep == IInv /\ [Next]_vars => IInv'
<1> SUFFICES ASSUME IInv, [Next]_vars
             PROVE  IInv'
  OBVIOUS
<1> USE PlaybackAssumption
<1>t. /\ TypeOK /\ UnusedIsNowhere /\ OneHolder /\ GoneForGood
      /\ OneFinisher /\ FailedIsOver /\ LateOnce
  BY DEF IInv
<1>1. ASSUME NEW c \in Calls, NEW p \in Players \cup {None}, Subscribe(c, p)
      PROVE  IInv'
  <2>1. TypeOK'
    BY <1>t, <1>1 DEF TypeOK, SourceType, LoopStates, Sources, Subscribe
  <2>2. UnusedIsNowhere'
    BY <1>t, <1>1 DEF TypeOK, SourceType, UnusedIsNowhere, Released, Reads, Sources,
      Subscribe
  <2>3. OneHolder'
    BY <1>t, <1>1 DEF TypeOK, SourceType, UnusedIsNowhere, OneHolder, Released, Reads,
      Sources, Subscribe
  <2>4. GoneForGood'
    BY <1>t, <1>1 DEF TypeOK, SourceType, UnusedIsNowhere, OneHolder, GoneForGood,
      Released, Reads, Sources, Subscribe
  <2>5. OneFinisher'
    BY <1>t, <1>1 DEF TypeOK, SourceType, GoneForGood, OneFinisher, Released, Reads,
      Sources, Subscribe
  <2>6. FailedIsOver'
    BY <1>t, <1>1 DEF TypeOK, SourceType, UnusedIsNowhere, GoneForGood, FailedIsOver,
      Released, Reads, Sources, Subscribe
  <2>7. LateOnce'
    BY <1>t, <1>1 DEF TypeOK, SourceType, FailedIsOver, LateOnce, Plays, Released,
      Sources, Subscribe
  <2>8. QED
    BY <2>1, <2>2, <2>3, <2>4, <2>5, <2>6, <2>7 DEF IInv
<1>2. ASSUME NEW p \in Players, NEW s \in Sources, Play(p, s)
      PROVE  IInv'
  <2>1. TypeOK'
    <3>1. source' \in [Sources -> SourceType]
      BY <1>t, <1>2, SourceUpdates DEF TypeOK, Play
    <3>2. player' \in [Players -> [src : Sources \cup {None},
                                  state : {"idle", "playing", "paused"}]]
      BY <1>t, <1>2 DEF TypeOK, Play
    <3>3. QED
      BY <1>t, <1>2, <3>1, <3>2 DEF TypeOK, Play, Operate
  <2>2. UnusedIsNowhere'
    BY <1>t, <1>2 DEF TypeOK, SourceType, UnusedIsNowhere, Released, Reads, Sources,
      Play, Operate
  <2>3. OneHolder'
    BY <1>t, <1>2 DEF TypeOK, SourceType, UnusedIsNowhere, OneHolder, Released, Reads,
      Sources, Play, Operate
  <2>4. GoneForGood'
    BY <1>t, <1>2 DEF TypeOK, SourceType, UnusedIsNowhere, OneHolder, GoneForGood,
      Released, Reads, Sources, Play, Operate
  <2>5. OneFinisher'
    BY <1>t, <1>2 DEF TypeOK, SourceType, GoneForGood, OneFinisher, Released, Reads,
      Sources, Play, Operate
  <2>6. FailedIsOver'
    BY <1>t, <1>2 DEF TypeOK, SourceType, UnusedIsNowhere, GoneForGood, FailedIsOver,
      Released, Reads, Sources, Play, Operate
  <2>7. LateOnce'
    BY <1>t, <1>2 DEF TypeOK, SourceType, FailedIsOver, LateOnce, Plays, Released,
      Sources, Play, Operate
  <2>8. QED
    BY <2>1, <2>2, <2>3, <2>4, <2>5, <2>6, <2>7 DEF IInv
<1>3. ASSUME NEW p \in Players, Stop(p)
      PROVE  IInv'
  <2>1. TypeOK'
    BY <1>t, <1>3 DEF TypeOK, SourceType, LoopStates, Sources, Stop, Operate,
      NewPlayer
  <2>2. UnusedIsNowhere'
    BY <1>t, <1>3 DEF TypeOK, SourceType, UnusedIsNowhere, Released, Reads, Sources,
      Stop, Operate, NewPlayer
  <2>3. OneHolder'
    BY <1>t, <1>3 DEF TypeOK, SourceType, UnusedIsNowhere, OneHolder, Released, Reads,
      Sources, Stop, Operate, NewPlayer
  <2>4. GoneForGood'
    BY <1>t, <1>3 DEF TypeOK, SourceType, UnusedIsNowhere, OneHolder, GoneForGood,
      Released, Reads, Sources, Stop, Operate, NewPlayer
  <2>5. OneFinisher'
    BY <1>t, <1>3 DEF TypeOK, SourceType, GoneForGood, OneFinisher, Released, Reads,
      Sources, Stop, Operate, NewPlayer
  <2>6. FailedIsOver'
    BY <1>t, <1>3 DEF TypeOK, SourceType, UnusedIsNowhere, GoneForGood, FailedIsOver,
      Released, Reads, Sources, Stop, Operate, NewPlayer
  <2>7. LateOnce'
    BY <1>t, <1>3 DEF TypeOK, SourceType, FailedIsOver, LateOnce, Plays, Released,
      Sources, Stop, Operate, NewPlayer
  <2>8. QED
    BY <2>1, <2>2, <2>3, <2>4, <2>5, <2>6, <2>7 DEF IInv
<1>4. ASSUME NEW p \in Players, NEW from \in {"playing", "paused"},
             NEW to \in {"playing", "paused"}, Switch(p, from, to)
      PROVE  IInv'
  <2>1. TypeOK'
    BY <1>t, <1>4 DEF TypeOK, SourceType, LoopStates, Sources, Switch, Operate
  <2>2. UnusedIsNowhere'
    BY <1>t, <1>4 DEF TypeOK, SourceType, UnusedIsNowhere, Released, Reads, Sources,
      Switch, Operate
  <2>3. OneHolder'
    BY <1>t, <1>4 DEF TypeOK, SourceType, UnusedIsNowhere, OneHolder, Released, Reads,
      Sources, Switch, Operate
  <2>4. GoneForGood'
    BY <1>t, <1>4 DEF TypeOK, SourceType, UnusedIsNowhere, OneHolder, GoneForGood,
      Released, Reads, Sources, Switch, Operate
  <2>5. OneFinisher'
    BY <1>t, <1>4 DEF TypeOK, SourceType, GoneForGood, OneFinisher, Released, Reads,
      Sources, Switch, Operate
  <2>6. FailedIsOver'
    BY <1>t, <1>4 DEF TypeOK, SourceType, UnusedIsNowhere, GoneForGood, FailedIsOver,
      Released, Reads, Sources, Switch, Operate
  <2>7. LateOnce'
    BY <1>t, <1>4 DEF TypeOK, SourceType, FailedIsOver, LateOnce, Plays, Released,
      Sources, Switch, Operate
  <2>8. QED
    BY <2>1, <2>2, <2>3, <2>4, <2>5, <2>6, <2>7 DEF IInv
<1>5. ASSUME CloseOld
      PROVE  IInv'
  <2>1. TypeOK'
    <3>1. source' \in [Sources -> SourceType]
      BY <1>t, <1>5, SourceUpdates DEF TypeOK, CloseOld
    <3>2. QED
      BY <1>t, <1>5, <3>1 DEF TypeOK, CloseOld
  <2>2. UnusedIsNowhere'
    BY <1>t, <1>5 DEF TypeOK, SourceType, UnusedIsNowhere, Released, Reads, Sources,
      CloseOld
  <2>3. OneHolder'
    BY <1>t, <1>5 DEF TypeOK, SourceType, UnusedIsNowhere, OneHolder, Released, Reads,
      Sources, CloseOld
  <2>4. GoneForGood'
    BY <1>t, <1>5 DEF TypeOK, SourceType, UnusedIsNowhere, OneHolder, GoneForGood,
      Released, Reads, Sources, CloseOld
  <2>5. OneFinisher'
    BY <1>t, <1>5 DEF TypeOK, SourceType, GoneForGood, OneFinisher, Released, Reads,
      Sources, CloseOld
  <2>6. FailedIsOver'
    BY <1>t, <1>5 DEF TypeOK, SourceType, UnusedIsNowhere, GoneForGood, FailedIsOver,
      Released, Reads, Sources, CloseOld
  <2>7. LateOnce'
    BY <1>t, <1>5 DEF TypeOK, SourceType, FailedIsOver, LateOnce, Plays, Released,
      Sources, CloseOld
  <2>8. QED
    BY <2>1, <2>2, <2>3, <2>4, <2>5, <2>6, <2>7 DEF IInv
<1>6. ASSUME NEW c \in Calls, SendSilence(c)
      PROVE  IInv'
  <2>1. TypeOK'
    BY <1>t, <1>6 DEF TypeOK, SourceType, LoopStates, Sources, SendSilence, At
  <2>2. UnusedIsNowhere'
    BY <1>t, <1>6 DEF TypeOK, SourceType, UnusedIsNowhere, Released, Reads, Sources,
      SendSilence, At
  <2>3. OneHolder'
    BY <1>t, <1>6 DEF TypeOK, SourceType, UnusedIsNowhere, OneHolder, Released, Reads,
      Sources, SendSilence, At
  <2>4. GoneForGood'
    BY <1>t, <1>6 DEF TypeOK, SourceType, UnusedIsNowhere, OneHolder, GoneForGood,
      Released, Reads, Sources, SendSilence, At
  <2>5. OneFinisher'
    BY <1>t, <1>6 DEF TypeOK, SourceType, GoneForGood, OneFinisher, Released, Reads,
      Sources, SendSilence, At
  <2>6. FailedIsOver'
    BY <1>t, <1>6 DEF TypeOK, SourceType, UnusedIsNowhere, GoneForGood, FailedIsOver,
      Released, Reads, Sources, SendSilence, At
  <2>7. LateOnce'
    BY <1>t, <1>6 DEF TypeOK, SourceType, FailedIsOver, LateOnce, Plays, Released,
      Sources, SendSilence, At
  <2>8. QED
    BY <2>1, <2>2, <2>3, <2>4, <2>5, <2>6, <2>7 DEF IInv
<1>7. ASSUME NEW c \in Calls, PickSource(c)
      PROVE  IInv'
  <2>1. TypeOK'
    BY <1>t, <1>7 DEF TypeOK, SourceType, LoopStates, Sources, PickSource, Playing
  <2>2. UnusedIsNowhere'
    BY <1>t, <1>7 DEF TypeOK, SourceType, UnusedIsNowhere, Released, Reads, Sources,
      PickSource, Playing
  <2>3. OneHolder'
    BY <1>t, <1>7 DEF TypeOK, SourceType, UnusedIsNowhere, OneHolder, Released, Reads,
      Sources, PickSource, Playing
  <2>4. GoneForGood'
    BY <1>t, <1>7 DEF TypeOK, SourceType, UnusedIsNowhere, OneHolder, GoneForGood,
      Released, Reads, Sources, PickSource, Playing
  <2>5. OneFinisher'
    BY <1>t, <1>7 DEF TypeOK, SourceType, GoneForGood, OneFinisher, Released, Reads,
      Sources, PickSource, Playing
  <2>6. FailedIsOver'
    BY <1>t, <1>7 DEF TypeOK, SourceType, UnusedIsNowhere, GoneForGood, FailedIsOver,
      Released, Reads, Sources, PickSource, Playing
  <2>7. LateOnce'
    BY <1>t, <1>7 DEF TypeOK, SourceType, FailedIsOver, LateOnce, Plays, Released,
      Sources, PickSource, Playing
  <2>8. QED
    BY <2>1, <2>2, <2>3, <2>4, <2>5, <2>6, <2>7 DEF IInv
<1>8. ASSUME NEW c \in Calls, GetFrame(c)
      PROVE  IInv'
  <2>1. TypeOK'
    BY <1>t, <1>8 DEF TypeOK, SourceType, LoopStates, Sources, GetFrame, At
  <2>2. UnusedIsNowhere'
    BY <1>t, <1>8 DEF TypeOK, SourceType, UnusedIsNowhere, Released, Reads, Sources,
      GetFrame, At
  <2>3. OneHolder'
    BY <1>t, <1>8 DEF TypeOK, SourceType, UnusedIsNowhere, OneHolder, Released, Reads,
      Sources, GetFrame, At
  <2>4. GoneForGood'
    BY <1>t, <1>8 DEF TypeOK, SourceType, UnusedIsNowhere, OneHolder, GoneForGood,
      Released, Reads, Sources, GetFrame, At
  <2>5. OneFinisher'
    BY <1>t, <1>8 DEF TypeOK, SourceType, GoneForGood, OneFinisher, Released, Reads,
      Sources, GetFrame, At
  <2>6. FailedIsOver'
    BY <1>t, <1>8 DEF TypeOK, SourceType, UnusedIsNowhere, GoneForGood, FailedIsOver,
      Released, Reads, Sources, GetFrame, At
  <2>7. LateOnce'
    BY <1>t, <1>8 DEF TypeOK, SourceType, FailedIsOver, LateOnce, Plays, Released,
      Sources, GetFrame, At
  <2>8. QED
    BY <2>1, <2>2, <2>3, <2>4, <2>5, <2>6, <2>7 DEF IInv
<1>9. ASSUME NEW c \in Calls, GetError(c)
      PROVE  IInv'
  <2>1. TypeOK'
    BY <1>t, <1>9 DEF TypeOK, SourceType, LoopStates, Sources, GetError, At
  <2>2. UnusedIsNowhere'
    BY <1>t, <1>9 DEF TypeOK, SourceType, UnusedIsNowhere, Released, Reads, Sources,
      GetError, At
  <2>3. OneHolder'
    BY <1>t, <1>9 DEF TypeOK, SourceType, UnusedIsNowhere, OneHolder, Released, Reads,
      Sources, GetError, At
  <2>4. GoneForGood'
    BY <1>t, <1>9 DEF TypeOK, SourceType, UnusedIsNowhere, OneHolder, GoneForGood,
      Released, Reads, Sources, GetError, At
  <2>5. OneFinisher'
    BY <1>t, <1>9 DEF TypeOK, SourceType, GoneForGood, OneFinisher, Released, Reads,
      Sources, GetError, At
  <2>6. FailedIsOver'
    BY <1>t, <1>9 DEF TypeOK, SourceType, UnusedIsNowhere, GoneForGood, FailedIsOver,
      Released, Reads, Sources, GetError, At
  <2>7. LateOnce'
    BY <1>t, <1>9 DEF TypeOK, SourceType, FailedIsOver, LateOnce, Plays, Released,
      Sources, GetError, At
  <2>8. QED
    BY <2>1, <2>2, <2>3, <2>4, <2>5, <2>6, <2>7 DEF IInv
<1>10. ASSUME NEW c \in Calls, GoIdle(c)
      PROVE  IInv'
  <2>1. /\ loop[c].at = "failed"
        /\ loop[c].player \in Players /\ loop[c].src \in Sources
        /\ UNCHANGED <<source, attached, app, ops, finished, after>>
    BY <1>t, <1>10 DEF TypeOK, GoIdle
  <2>2. CASE player[loop[c].player].src = loop[c].src
    <3>0. /\ player' = [player EXCEPT ![loop[c].player] = NewPlayer]
          /\ loop' = [loop EXCEPT ![c].at = "finishing"]
      BY <1>10, <2>2 DEF GoIdle, StillActive, At
    <3>1. TypeOK'
      BY <1>t, <2>1, <2>2, <3>0 DEF TypeOK, LoopStates, Sources, NewPlayer
    <3>2. UnusedIsNowhere'
      BY <1>t, <2>1, <2>2, <3>0 DEF TypeOK, UnusedIsNowhere, Released,
        Reads, Sources, NewPlayer
    <3>3. OneHolder'
      BY <1>t, <2>1, <2>2, <3>0 DEF TypeOK, UnusedIsNowhere, OneHolder,
        Released, Reads, Sources, NewPlayer
    <3>4. GoneForGood'
      BY <1>t, <2>1, <2>2, <3>0 DEF TypeOK, UnusedIsNowhere, OneHolder,
        GoneForGood, Released, Reads, Sources, NewPlayer
    <3>5. OneFinisher'
      <4>1. /\ finished[loop[c].src] = 0
            /\ \A d \in Calls : Reads(d, loop[c].src) => loop[d].at # "finishing"
        BY <1>t, <2>1, <2>2 DEF TypeOK, GoneForGood, Released
      <4>2. \A d \in Calls : /\ loop'[d].src = loop[d].src
                             /\ d # c => loop'[d].at = loop[d].at
        BY <1>t, <3>0 DEF TypeOK
      <4>3. QED
        BY <1>t, <2>1, <4>1, <4>2 DEF OneFinisher, Reads
    <3>6. FailedIsOver'
      BY <1>t, <2>1, <2>2, <3>0 DEF TypeOK, UnusedIsNowhere, GoneForGood,
        FailedIsOver, Released, Reads, Sources, NewPlayer
    <3>7. LateOnce'
      BY <1>t, <2>1, <2>2, <3>0 DEF TypeOK, FailedIsOver, LateOnce, Plays,
        Released, Sources, NewPlayer
    <3>8. QED
      BY <3>1, <3>2, <3>3, <3>4, <3>5, <3>6, <3>7 DEF IInv
  <2>3. CASE player[loop[c].player].src # loop[c].src
    <3>0. player' = player /\ loop' = [loop EXCEPT ![c].at = "closing"]
      BY <1>10, <2>3 DEF GoIdle, StillActive, At
    <3>1. TypeOK'
      BY <1>t, <2>1, <2>3, <3>0 DEF TypeOK, LoopStates, Sources
    <3>2. UnusedIsNowhere'
      BY <1>t, <2>1, <2>3, <3>0 DEF TypeOK, UnusedIsNowhere, Released,
        Reads, Sources
    <3>3. OneHolder'
      BY <1>t, <2>1, <2>3, <3>0 DEF TypeOK, UnusedIsNowhere, OneHolder,
        Released, Reads, Sources
    <3>4. GoneForGood'
      BY <1>t, <2>1, <2>3, <3>0 DEF TypeOK, UnusedIsNowhere, OneHolder,
        GoneForGood, Released, Reads, Sources
    <3>5. OneFinisher'
      BY <1>t, <2>1, <2>3, <3>0 DEF TypeOK, GoneForGood, OneFinisher,
        Released, Reads, Sources
    <3>6. FailedIsOver'
      BY <1>t, <2>1, <2>3, <3>0 DEF TypeOK, UnusedIsNowhere, GoneForGood,
        FailedIsOver, Released, Reads, Sources
    <3>7. LateOnce'
      BY <1>t, <2>1, <2>3, <3>0 DEF TypeOK, FailedIsOver, LateOnce, Plays,
        Released, Sources
    <3>8. QED
      BY <3>1, <3>2, <3>3, <3>4, <3>5, <3>6, <3>7 DEF IInv
  <2>4. QED
    BY <2>2, <2>3
<1>11. ASSUME NEW c \in Calls, CloseFailed(c)
      PROVE  IInv'
  <2>1. TypeOK'
    <3>1. loop[c].src \in Sources
      BY <1>t, <1>11 DEF TypeOK, CloseFailed
    <3>2. source' \in [Sources -> SourceType]
      BY <1>t, <1>11, <3>1, SourceUpdates DEF TypeOK, CloseFailed
    <3>3. finished' \in [Sources -> Nat]
      BY <1>t, <1>11, <3>1 DEF TypeOK, CloseFailed
    <3>4. loop' \in [Calls -> [at : LoopStates, player : Players \cup {None},
                              src : Sources \cup {None}]]
      BY <1>t, <1>11 DEF TypeOK, LoopStates, CloseFailed, At
    <3>5. QED
      BY <1>t, <1>11, <3>2, <3>3, <3>4 DEF TypeOK, CloseFailed, At
  <2>2. UnusedIsNowhere'
    BY <1>t, <1>11 DEF TypeOK, SourceType, UnusedIsNowhere, Released, Reads, Sources,
      CloseFailed, At
  <2>3. OneHolder'
    BY <1>t, <1>11 DEF TypeOK, SourceType, UnusedIsNowhere, OneHolder, Released,
      Reads, Sources, CloseFailed, At
  <2>4. GoneForGood'
    BY <1>t, <1>11 DEF TypeOK, SourceType, UnusedIsNowhere, OneHolder, GoneForGood,
      Released, Reads, Sources, CloseFailed, At
  <2>5. OneFinisher'
    BY <1>t, <1>11 DEF TypeOK, SourceType, GoneForGood, OneFinisher, Released, Reads,
      Sources, CloseFailed, At
  <2>6. FailedIsOver'
    BY <1>t, <1>11 DEF TypeOK, SourceType, UnusedIsNowhere, GoneForGood, FailedIsOver,
      Released, Reads, Sources, CloseFailed, At
  <2>7. LateOnce'
    BY <1>t, <1>11 DEF TypeOK, SourceType, FailedIsOver, LateOnce, Plays, Released,
      Sources, CloseFailed, At
  <2>8. QED
    BY <2>1, <2>2, <2>3, <2>4, <2>5, <2>6, <2>7 DEF IInv
<1>12. ASSUME NEW c \in Calls, NextTick(c)
      PROVE  IInv'
  <2>1. TypeOK'
    BY <1>t, <1>12 DEF TypeOK, SourceType, LoopStates, Sources, NextTick, AtTick
  <2>2. UnusedIsNowhere'
    BY <1>t, <1>12 DEF TypeOK, SourceType, UnusedIsNowhere, Released, Reads, Sources,
      NextTick, AtTick
  <2>3. OneHolder'
    BY <1>t, <1>12 DEF TypeOK, SourceType, UnusedIsNowhere, OneHolder, Released,
      Reads, Sources, NextTick, AtTick
  <2>4. GoneForGood'
    BY <1>t, <1>12 DEF TypeOK, SourceType, UnusedIsNowhere, OneHolder, GoneForGood,
      Released, Reads, Sources, NextTick, AtTick
  <2>5. OneFinisher'
    BY <1>t, <1>12 DEF TypeOK, SourceType, GoneForGood, OneFinisher, Released, Reads,
      Sources, NextTick, AtTick
  <2>6. FailedIsOver'
    BY <1>t, <1>12 DEF TypeOK, SourceType, UnusedIsNowhere, GoneForGood, FailedIsOver,
      Released, Reads, Sources, NextTick, AtTick
  <2>7. LateOnce'
    BY <1>t, <1>12 DEF TypeOK, SourceType, FailedIsOver, LateOnce, Plays, Released,
      Sources, NextTick, AtTick
  <2>8. QED
    BY <2>1, <2>2, <2>3, <2>4, <2>5, <2>6, <2>7 DEF IInv
<1>13. ASSUME NEW m \in Mics, Capture(m)
      PROVE  IInv'
  <2>1. TypeOK'
    BY <1>t, <1>13 DEF TypeOK, SourceType, LoopStates, Sources, Capture
  <2>2. UnusedIsNowhere'
    BY <1>t, <1>13 DEF TypeOK, SourceType, UnusedIsNowhere, Released, Reads, Sources,
      Capture
  <2>3. OneHolder'
    BY <1>t, <1>13 DEF TypeOK, SourceType, UnusedIsNowhere, OneHolder, Released,
      Reads, Sources, Capture
  <2>4. GoneForGood'
    BY <1>t, <1>13 DEF TypeOK, SourceType, UnusedIsNowhere, OneHolder, GoneForGood,
      Released, Reads, Sources, Capture
  <2>5. OneFinisher'
    BY <1>t, <1>13 DEF TypeOK, SourceType, GoneForGood, OneFinisher, Released, Reads,
      Sources, Capture
  <2>6. FailedIsOver'
    BY <1>t, <1>13 DEF TypeOK, SourceType, UnusedIsNowhere, GoneForGood, FailedIsOver,
      Released, Reads, Sources, Capture
  <2>7. LateOnce'
    BY <1>t, <1>13 DEF TypeOK, SourceType, FailedIsOver, LateOnce, Plays, Released,
      Sources, Capture
  <2>8. QED
    BY <2>1, <2>2, <2>3, <2>4, <2>5, <2>6, <2>7 DEF IInv
<1>14. ASSUME UNCHANGED vars
      PROVE  IInv'
  <2>1. TypeOK'
    BY <1>t, <1>14 DEF TypeOK, SourceType, LoopStates, Sources, vars
  <2>2. UnusedIsNowhere'
    BY <1>t, <1>14 DEF TypeOK, SourceType, UnusedIsNowhere, Released, Reads, Sources,
      vars
  <2>3. OneHolder'
    BY <1>t, <1>14 DEF TypeOK, SourceType, UnusedIsNowhere, OneHolder, Released,
      Reads, Sources, vars
  <2>4. GoneForGood'
    BY <1>t, <1>14 DEF TypeOK, SourceType, UnusedIsNowhere, OneHolder, GoneForGood,
      Released, Reads, Sources, vars
  <2>5. OneFinisher'
    BY <1>t, <1>14 DEF TypeOK, SourceType, GoneForGood, OneFinisher, Released, Reads,
      Sources, vars
  <2>6. FailedIsOver'
    BY <1>t, <1>14 DEF TypeOK, SourceType, UnusedIsNowhere, GoneForGood, FailedIsOver,
      Released, Reads, Sources, vars
  <2>7. LateOnce'
    BY <1>t, <1>14 DEF TypeOK, SourceType, FailedIsOver, LateOnce, Plays, Released,
      Sources, vars
  <2>8. QED
    BY <2>1, <2>2, <2>3, <2>4, <2>5, <2>6, <2>7 DEF IInv
<1>15. QED
  BY <1>1, <1>2, <1>3, <1>4, <1>5, <1>6, <1>7, <1>8, <1>9, <1>10, <1>11, <1>12, <1>13, <1>14
  DEF Next, Application, SendLoop, Pause, Resume

\* In every state the program reaches, for all values of the constants.
THEOREM PlaybackInvariant == Spec => []IInv
<1>1. ASSUME Init
      PROVE  IInv
  <2>1. TypeOK
    BY <1>1, PlaybackAssumption
    DEF Init, TypeOK, SourceType, LoopStates, NewPlayer, AtTick, Sources
  <2>2. UnusedIsNowhere /\ OneHolder /\ GoneForGood
    BY <1>1, PlaybackAssumption
    DEF Init, UnusedIsNowhere, OneHolder, GoneForGood, Released, Reads,
        NewPlayer, AtTick, Sources
  <2>3. OneFinisher /\ FailedIsOver /\ LateOnce
    BY <1>1 DEF Init, OneFinisher, FailedIsOver, LateOnce, AtTick
  <2>4. QED
    BY <2>1, <2>2, <2>3 DEF IInv
<1>2. QED
  BY <1>1, InvariantStep, PTL DEF Spec

\* Types of the state of players, sources and send loops.
THEOREM PlaybackTypes == Spec => []TypeOK
BY PlaybackInvariant, PTL DEF IInv

\* nextFrame: OnFinish fires at most once for a source, whichever loops read it
\* and whatever the application does to the player meanwhile.
THEOREM SourceFinishesOnce == Spec => []FinishedOnce
<1>1. IInv => FinishedOnce
  BY DEF IInv, TypeOK, GoneForGood, OneFinisher, Released, FinishedOnce
<1>2. QED
  BY <1>1, PlaybackInvariant, PTL

\* nextFrame: after Stop, Pause or Play a loop sends at most the frame it was
\* reading, also when other loops read the same source.
THEOREM OneLateFrame == Spec => []OneFrameAfterPause
<1>1. IInv => OneFrameAfterPause
  BY DEF IInv, LateOnce, OneFrameAfterPause
<1>2. QED
  BY <1>1, PlaybackInvariant, PTL
=============================================================================
