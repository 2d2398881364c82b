------------------------------ MODULE Playback ------------------------------
(***************************************************************************)
(* What the application plays into its calls: players with their sources   *)
(* (player.go, audio.go, source.go, audio/malgo), read by the send loop of *)
(* each call's media (engine_media.go).                                    *)
(*                                                                         *)
(* A player's lock is never held while a source is read or closed, or a    *)
(* callback runs: those are steps of their own.                            *)
(***************************************************************************)
EXTENDS Integers, FiniteSets

CONSTANTS
  Calls, Players, Files, Mics, None,
  FileFrames,           \* frames in a file
  MicQueue,             \* frames a microphone holds for its reader
  MaxOps                \* bound: operations of the application on players

ASSUME PlaybackAssumption ==
  /\ None \notin Calls \cup Players \cup Files \cup Mics
  /\ Files \cap Mics = {} /\ MicQueue > 0 /\ FileFrames \in Nat

Sources == Files \cup Mics

VARIABLES
  player,               \* the players
  source,               \* frames left in a file or waiting in a microphone
  attached,             \* Call.player
  loop,                 \* the send loop of each call
  app,                  \* the application's call of Play or Stop under way
  ops,                  \* operations made
  finished,             \* history: how often OnFinish fired for a source
  after                 \* history: frames a loop sent, since the last operation
                        \* of the application, of a source that was not playing

vars == <<player, source, attached, loop, app, ops, finished, after>>

NewPlayer == [src |-> None, state |-> "idle"]

AtTick == [at |-> "tick", player |-> None, src |-> None]

Init ==
  /\ player = [p \in Players |-> NewPlayer]
  /\ source = [s \in Sources |-> [left |-> IF s \in Files THEN FileFrames ELSE 0,
                                  used |-> FALSE, closed |-> FALSE]]
  /\ attached = [c \in Calls |-> None]
  /\ loop = [c \in Calls |-> AtTick]
  /\ app = None
  /\ ops = 0
  /\ finished = [s \in Sources |-> 0]
  /\ after = [c \in Calls |-> 0]

-----------------------------------------------------------------------------
(* The application's operations.                                           *)

Subscribe(c, p) ==
  /\ attached' = [attached EXCEPT ![c] = p]
  /\ UNCHANGED <<player, source, loop, app, ops, finished, after>>

\* Every operation on a player starts the count of frames that come after it.
Operate ==
  /\ ops < MaxOps /\ ops' = ops + 1
  /\ after' = [c \in Calls |-> 0]

\* Play takes the lock for the switch; the old source is closed after it.
Play(p, s) ==
  /\ app = None /\ ~source[s].used
  /\ Operate
  /\ player' = [player EXCEPT ![p] = [src |-> s, state |-> "playing"]]
  /\ source' = [source EXCEPT ![s].used = TRUE]
  /\ app' = player[p].src
  /\ UNCHANGED <<attached, loop, finished>>

Stop(p) ==
  /\ app = None
  /\ Operate
  /\ player' = [player EXCEPT ![p] = NewPlayer]
  /\ app' = player[p].src
  /\ UNCHANGED <<source, attached, loop, finished>>

CloseOld ==
  /\ app # None
  /\ source' = [source EXCEPT ![app].closed = TRUE]
  /\ app' = None
  /\ UNCHANGED <<player, attached, loop, ops, finished, after>>

Switch(p, from, to) ==
  /\ app = None
  /\ player[p].state = from
  /\ Operate
  /\ player' = [player EXCEPT ![p].state = to]
  /\ UNCHANGED <<source, attached, loop, app, finished>>

Pause(p) == Switch(p, "playing", "paused")

Resume(p) == Switch(p, "paused", "playing")

-----------------------------------------------------------------------------
(* The send loop: one frame per tick, silence when nextFrame returns nil.  *)

At(c, where) == loop' = [loop EXCEPT ![c].at = where]

\* Faulty variant: a paused player still gives its source away.
Playing_Paused(p) == player[p].src # None

Playing(p) == player[p].state = "playing" /\ player[p].src # None

\* No player, or nextFrame has nothing to read.
SendSilence(c) ==
  /\ loop[c].at = "tick"
  /\ attached[c] # None => ~Playing(attached[c])
  /\ At(c, "sent")
  /\ UNCHANGED <<player, source, attached, app, ops, finished, after>>

\* nextFrame takes the source along and gives up the lock.
PickSource(c) ==
  /\ loop[c].at = "tick"
  /\ attached[c] # None /\ Playing(attached[c])
  /\ loop' = [loop EXCEPT ![c] = [at |-> "reading", player |-> attached[c],
                                  src |-> player[attached[c]].src]]
  /\ UNCHANGED <<player, source, attached, app, ops, finished, after>>

Plays(p, s) == player[p] = [src |-> s, state |-> "playing"]

\* ReadFrame returns a frame.  A closed file may still have decoded samples.
GetFrame(c) ==
  LET s == loop[c].src IN
  /\ loop[c].at = "reading" /\ source[s].left > 0
  /\ source' = [source EXCEPT ![s].left = @ - 1]
  /\ after' = [after EXCEPT ![c] = IF Plays(loop[c].player, s) THEN @ ELSE @ + 1]
  /\ At(c, "sent")
  /\ UNCHANGED <<player, attached, app, ops, finished>>

\* ReadFrame fails: the file is at its end, or closed under the reader.  The
\* queue of a microphone is never closed, so its reader waits.
GetError(c) ==
  LET s == loop[c].src IN
  /\ loop[c].at = "reading" /\ s \in Files
  /\ source[s].left = 0 \/ source[s].closed
  /\ At(c, "failed")
  /\ UNCHANGED <<player, source, attached, app, ops, finished, after>>

\* Faulty variant: whatever plays now is taken for the source that failed.
StillActive_Always(p, s) == TRUE

\* The player may have been given another source meanwhile.
StillActive(p, s) == player[p].src = s

GoIdle(c) ==
  LET p == loop[c].player IN
  /\ loop[c].at = "failed"
  /\ IF StillActive(p, loop[c].src)
       THEN player' = [player EXCEPT ![p] = NewPlayer] /\ At(c, "finishing")
       ELSE player' = player /\ At(c, "closing")
  /\ UNCHANGED <<source, attached, app, ops, finished, after>>

\* The source is closed and, when it was the active one, OnFinish called.
CloseFailed(c) ==
  LET s == loop[c].src IN
  /\ loop[c].at \in {"closing", "finishing"}
  /\ source' = [source EXCEPT ![s].closed = TRUE]
  /\ finished' = [finished EXCEPT ![s] = IF loop[c].at = "finishing" THEN @ + 1 ELSE @]
  /\ At(c, "sent")
  /\ UNCHANGED <<player, attached, app, ops, after>>

\* The frame, or silence, has gone out; the next tick comes.
NextTick(c) ==
  /\ loop[c].at = "sent"
  /\ loop' = [loop EXCEPT ![c] = AtTick]
  /\ UNCHANGED <<player, source, attached, app, ops, finished, after>>

\* onData of a microphone: a full queue drops the new frame.
Capture(m) ==
  /\ source[m].used /\ ~source[m].closed
  /\ source[m].left < MicQueue
  /\ source' = [source EXCEPT ![m].left = @ + 1]
  /\ UNCHANGED <<player, attached, loop, app, ops, finished, after>>

-----------------------------------------------------------------------------
Application ==
  \/ \E c \in Calls, p \in Players \cup {None} : Subscribe(c, p)
  \/ \E p \in Players, s \in Sources : Play(p, s)
  \/ \E p \in Players : Stop(p) \/ Pause(p) \/ Resume(p)

SendLoop(c) ==
  \/ SendSilence(c) \/ PickSource(c) \/ GetFrame(c) \/ GetError(c)
  \/ GoIdle(c) \/ CloseFailed(c) \/ NextTick(c)

Next ==
  \/ Application
  \/ CloseOld
  \/ \E c \in Calls : SendLoop(c)
  \/ \E m \in Mics : Capture(m)

\* A call of Play or Stop goes on once it has begun, the send loops for ever.
Fairness ==
  /\ WF_vars(CloseOld)
  /\ \A c \in Calls : WF_vars(SendLoop(c))

Spec == Init /\ [][Next]_vars /\ Fairness

-----------------------------------------------------------------------------
(* Properties.                                                             *)

\* Play, Stop and nextFrame: a source that was played and is no longer the
\* active one of any player is closed in the end, whoever took it away.
SourcesAreReleased ==
  \A s \in Sources :
    (source[s].used /\ \A p \in Players : player[p].src # s) ~> source[s].closed

\* nextFrame: OnFinish fires at most once for a source, also when two calls
\* read it, and never for one that the player still has.
FinishedOnce ==
  \A s \in Sources :
    /\ finished[s] <= 1
    /\ finished[s] = 1 => \A p \in Players : player[p].src # s

\* nextFrame: once the application has stopped, paused or replaced what was
\* playing, each loop sends at most the frame it was reading.
OneFrameAfterPause == \A c \in Calls : after[c] <= 1

\* livecall.go: the call keeps sending, silence when nothing plays.
StoppedPlayerSendsSilence ==
  \A c \in Calls :
    (\A p \in Players : player[p].src = None) ~>
      (loop[c].at = "sent" \/ \E p \in Players : player[p].src # None)

-----------------------------------------------------------------------------
(* The inductive invariant, proved in PlaybackProofs.                      *)

LoopStates == {"tick", "reading", "failed", "closing", "finishing", "sent"}

SourceType == [left : Nat, used : BOOLEAN, closed : BOOLEAN]

TypeOK ==
  /\ player \in [Players -> [src : Sources \cup {None},
                             state : {"idle", "playing", "paused"}]]
  /\ source \in [Sources -> SourceType]
  /\ attached \in [Calls -> Players \cup {None}]
  /\ loop \in [Calls -> [at : LoopStates, player : Players \cup {None},
                         src : Sources \cup {None}]]
  /\ \A c \in Calls : loop[c].at \notin {"tick", "sent"} =>
                        loop[c].player \in Players /\ loop[c].src \in Sources
  /\ app \in Sources \cup {None}
  /\ finished \in [Sources -> Nat] /\ after \in [Calls -> Nat]

Released(s) == \A p \in Players : player[p].src # s

Reads(c, s) == loop[c].src = s

\* A source that was never played is nowhere.
UnusedIsNowhere ==
  \A s \in Sources : ~source[s].used =>
    /\ Released(s) /\ app # s /\ ~source[s].closed /\ finished[s] = 0
    /\ \A c \in Calls : ~Reads(c, s)

\* A source that somebody has is only ever found in the one player.
OneHolder ==
  \A s \in Sources, p \in Players : player[p].src = s =>
    /\ \A q \in Players : player[q].src = s => q = p
    /\ \A c \in Calls : Reads(c, s) => loop[c].player = p

\* What is closed, finished, or about to be, was taken from its player.
GoneForGood ==
  \A s \in Sources :
    /\ app = s => Released(s)
    /\ source[s].closed => Released(s)
    /\ finished[s] > 0 => Released(s)
    /\ \A c \in Calls :
         Reads(c, s) /\ loop[c].at \in {"closing", "finishing"} => Released(s)

\* One loop at most has taken it because of an error.
OneFinisher ==
  \A s \in Sources :
    /\ finished[s] <= 1
    /\ \A c \in Calls : Reads(c, s) /\ loop[c].at = "finishing" =>
         /\ finished[s] = 0
         /\ \A d \in Calls : Reads(d, s) /\ loop[d].at = "finishing" => d = c

\* A read fails at the end of a file, or on one that was taken away.
FailedIsOver ==
  \A c \in Calls : loop[c].at = "failed" =>
    /\ loop[c].src \in Files
    /\ source[loop[c].src].left = 0 \/ Released(loop[c].src)

\* A loop that sent its late frame reads what plays, or a file at its end.
LateOnce ==
  \A c \in Calls :
    /\ after[c] <= 1
    /\ after[c] = 1 /\ loop[c].at = "reading" =>
         \/ Plays(loop[c].player, loop[c].src)
         \/ loop[c].src \in Files /\ source[loop[c].src].left = 0

IInv ==
  /\ TypeOK /\ UnusedIsNowhere /\ OneHolder /\ GoneForGood
  /\ OneFinisher /\ FailedIsOver /\ LateOnce
=============================================================================
