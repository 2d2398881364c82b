------------------------- MODULE CallEngineProofs -------------------------
(***************************************************************************)
(* Proofs about CallEngine, for any number of application goroutines,      *)
(* engineCalls, Call handles and answers: its type invariant, its safety   *)
(* properties, and that it implements MediaOwnership.                      *)
(*                                                                         *)
(* TypeStep keeps the types.  BranchStep and FinishStep treat the actions  *)
(* with several outcomes and those of finishCall, one conjunct of the      *)
(* inductive invariant at a time, InvariantStep all the others.            *)
(***************************************************************************)
EXTENDS CallEngine, TLAPS


\* No handler leaves the types: tables, goroutine locals and media records.
LEMMA TypeStep == TypeOK /\ LocalsOK /\ [Next]_vars => TypeOK'
<1> SUFFICES ASSUME TypeOK, LocalsOK, [Next]_vars
             PROVE  TypeOK'
  OBVIOUS
<1>ec. ec \in [Entries -> EntryType]
  BY DEF TypeOK
<1>th. th \in [Threads -> ThreadType]
  BY DEF TypeOK
<1>md. media \in [Entries -> MediaType]
  BY DEF TypeOK
<1>b. /\ slot \in Entries \cup {NoEntry}
      /\ made \subseteq Calls /\ used \subseteq Entries
      /\ Recv \in Threads /\ Apps \subseteq Threads
  BY DEF TypeOK, Threads
<1>f. ended \in [Calls -> Nat]
  BY DEF TypeOK
<1>c. phase \in [Calls -> Phases]
  BY DEF TypeOK
<1>d. \A p \in Phases : \A x : [phase EXCEPT ![x] = p] \in [Calls -> Phases]
  BY <1>c
<1>e. {Idle, Calling, Ringing, Connecting, Active, Ended} \subseteq Phases
  BY DEF Phases, Idle, Calling, Ringing, Connecting, Active, Ended
<1>1. ASSUME NEW t \in Apps, NEW m \in Entries, NEW c \in Calls,
             PlaceCall(t, m, c)
      PROVE  TypeOK'
  <2>1. ec' \in [Entries -> EntryType]
    <3>1. [ec EXCEPT ![m].call = c, ![m].out = TRUE] \in [Entries -> EntryType]
      BY <1>ec DEF EntryType
    <3>2. QED
      BY <1>ec, <1>b, <1>1, <3>1 DEF PlaceCall, EngineAssumption
  <2>2. th' \in [Threads -> ThreadType]
    BY <1>th, <1>b, <1>1
    DEF PlaceCall, GotoWith, ThreadType, AppLabels, RecvLabels, EntryType
  <2>3. phase' \in [Calls -> Phases]
    BY <1>d, <1>e, <1>1 DEF PlaceCall
  <2>4. QED
    BY <1>1, <2>1, <2>2, <2>3
    DEF TypeOK, PlaceCall, LocalsOK, At, Threads, mediaVars, countVars
<1>2. ASSUME NEW t \in Threads, PlaceSend(t)
      PROVE  TypeOK'
  <2>1. th' \in [Threads -> ThreadType]
    BY <1>th, <1>b, <1>2
    DEF PlaceSend, Return, Returned, ThreadType, AppLabels, RecvLabels,
        EntryType
  <2>2. QED
    BY <1>2, <2>1
    DEF TypeOK, PlaceSend, LocalsOK, At, Threads, engineVars, mediaVars,
        countVars
<1>3. ASSUME NEW m \in Entries, NEW c \in Calls, NEW r \in BOOLEAN,
             OnOffer(m, c, r)
      PROVE  TypeOK'
  <2>1. ec' \in [Entries -> EntryType]
    <3>1. ec'[m] = [ec[m] EXCEPT !.call = c, !.out = FALSE, !.relay = @ \/ r]
      BY <1>ec, <1>3 DEF OnOffer
    <3>2. ec[m] \in EntryType
      BY <1>ec
    <3>3. ec'[m] \in EntryType
      BY <3>2, <3>1 DEF EntryType
    <3>4. /\ ec' = [x \in Entries |-> ec'[x]]
          /\ \A x \in Entries \ {m} : ec'[x] = ec[x]
      BY <1>ec, <1>3 DEF OnOffer
    <3>5. QED
      BY <1>ec, <3>3, <3>4
  <2>2. th' \in [Threads -> ThreadType]
    BY <1>th, <1>b, <1>3
    DEF OnOffer, GotoWith, ThreadType, AppLabels, RecvLabels, EntryType,
        EntryFor
  <2>3. phase' \in [Calls -> Phases]
    BY <1>d, <1>e, <1>3 DEF OnOffer
  <2>4. QED
    BY <1>3, <2>1, <2>2, <2>3
    DEF TypeOK, OnOffer, LocalsOK, At, EntryFor, Threads, mediaVars, countVars
<1>4. ASSUME OfferNotify
      PROVE  TypeOK'
  <2>1. th' \in [Threads -> ThreadType]
    BY <1>th, <1>b, <1>4
    DEF OfferNotify, Return, Returned, ThreadType, AppLabels, RecvLabels,
        EntryType
  <2>2. QED
    BY <1>4, <2>1
    DEF TypeOK, OfferNotify, LocalsOK, At, Threads, engineVars, mediaVars,
        countVars
<1>5. ASSUME NEW t \in Apps, NEW c \in Calls, AnswerLookup(t, c)
      PROVE  TypeOK'
  <2>1. th' \in [Threads -> ThreadType]
    BY <1>th, <1>b, <1>5
    DEF AnswerLookup, GotoWith, ThreadType, AppLabels, RecvLabels, EntryType
  <2>2. QED
    BY <1>5, <2>1
    DEF TypeOK, AnswerLookup, LocalsOK, At, Threads, engineVars, callVars,
        mediaVars, countVars
<1>6. ASSUME NEW t \in Threads, AnswerMark(t)
      PROVE  TypeOK'
  <2>1. ec' \in [Entries -> EntryType]
    <3>1. th[t].m \in Entries
      BY <1>6, <1>b DEF AnswerMark, LocalsOK, At
    <3>2. [ec EXCEPT ![th[t].m].acceptPending = TRUE]
            \in [Entries -> EntryType]
      BY <1>ec, <3>1 DEF EntryType
    <3>3. QED
      BY <1>ec, <1>b, <1>6, <3>2 DEF AnswerMark, EngineAssumption
  <2>2. th' \in [Threads -> ThreadType]
    BY <1>th, <1>b, <1>6
    DEF AnswerMark, Goto, ThreadType, AppLabels, RecvLabels, EntryType
  <2>3. QED
    BY <1>6, <2>1, <2>2
    DEF TypeOK, AnswerMark, LocalsOK, At, Threads, callVars, mediaVars
<1>7. ASSUME NEW t \in Threads, AnswerPhase(t)
      PROVE  TypeOK'
  <2>1. th' \in [Threads -> ThreadType]
    BY <1>th, <1>b, <1>7
    DEF AnswerPhase, Goto, ThreadType, AppLabels, RecvLabels, EntryType
  <2>2. phase' \in [Calls -> Phases]
    BY <1>d, <1>e, <1>7 DEF AnswerPhase, setPhase
  <2>3. QED
    BY <1>7, <2>1, <2>2
    DEF TypeOK, AnswerPhase, LocalsOK, At, Threads, engineVars, mediaVars,
        countVars
<1>8. ASSUME OnMute
      PROVE  TypeOK'
  <2>1. th' \in [Threads -> ThreadType]
    BY <1>th, <1>b, <1>8
    DEF OnMute, Goto, ThreadType, AppLabels, RecvLabels, EntryType
  <2>2. QED
    BY <1>8, <2>1
    DEF TypeOK, OnMute, LocalsOK, At, Threads, engineVars, callVars, mediaVars,
        countVars
<1>9. ASSUME SendAccept
      PROVE  TypeOK'
  <2>1. ec' \in [Entries -> EntryType]
    <3>1. ASSUME slot \in Entries
          PROVE  [ec EXCEPT ![slot].acceptPending = FALSE]
                   \in [Entries -> EntryType]
      BY <1>ec, <3>1 DEF EntryType
    <3>2. QED
      BY <1>ec, <1>b, <1>9, <3>1 DEF SendAccept, EngineAssumption
  <2>2. th' \in [Threads -> ThreadType]
    <3>1. [th EXCEPT ![Recv] = Returned] \in [Threads -> ThreadType]
      BY <1>th, <1>b DEF ThreadType, Returned, AppLabels
    <3>2. ASSUME slot \in Entries
          PROVE  [th EXCEPT ![Recv] = [pc |-> "acceptSend", m |-> slot,
                                       c |-> NoCall, cancel |-> FALSE]]
                   \in [Threads -> ThreadType]
      BY <1>ec, <1>th, <1>b, <3>2
      DEF ThreadType, EntryType, AppLabels, RecvLabels
    <3>3. QED
      BY <1>b, <1>9, <3>1, <3>2 DEF SendAccept, Return, GotoWith
  <2>3. QED
    BY <1>9, <2>1, <2>2
    DEF TypeOK, SendAccept, LocalsOK, At, Threads, callVars, mediaVars,
        countVars
<1>10. ASSUME AcceptSend
      PROVE  TypeOK'
  <2>1. th' \in [Threads -> ThreadType]
    BY <1>th, <1>b, <1>10
    DEF AcceptSend, Return, Returned, ThreadType, AppLabels, RecvLabels,
        EntryType
  <2>2. QED
    BY <1>10, <2>1
    DEF TypeOK, AcceptSend, LocalsOK, At, Threads, engineVars, callVars,
        mediaVars
<1>11. ASSUME OnRelay
      PROVE  TypeOK'
  <2>1. ec' \in [Entries -> EntryType]
    <3>1. ASSUME slot \in Entries
          PROVE  [ec EXCEPT ![slot].relay = TRUE] \in [Entries -> EntryType]
      BY <1>ec, <3>1 DEF EntryType
    <3>2. QED
      BY <1>ec, <1>b, <1>11, <3>1 DEF OnRelay, EngineAssumption
  <2>2. th' \in [Threads -> ThreadType]
    BY <1>th, <1>b, <1>11
    DEF OnRelay, Goto, ThreadType, AppLabels, RecvLabels, EntryType
  <2>3. QED
    BY <1>11, <2>1, <2>2
    DEF TypeOK, OnRelay, LocalsOK, At, Threads, callVars, mediaVars, countVars
<1>12. ASSUME OnPreAccept
      PROVE  TypeOK'
  <2>1. th' \in [Threads -> ThreadType]
    BY <1>ec, <1>th, <1>b, <1>12
    DEF OnPreAccept, GotoWith, ThreadType, AppLabels, RecvLabels, EntryType
  <2>2. QED
    BY <1>12, <2>1
    DEF TypeOK, OnPreAccept, LocalsOK, At, Threads, engineVars, callVars,
        mediaVars, countVars
<1>13. ASSUME PreAcceptSet
      PROVE  TypeOK'
  <2>1. th' \in [Threads -> ThreadType]
    BY <1>th, <1>b, <1>13
    DEF PreAcceptSet, Return, Returned, ThreadType, AppLabels, RecvLabels,
        EntryType
  <2>2. phase' \in [Calls -> Phases]
    BY <1>d, <1>e, <1>13 DEF PreAcceptSet, setPhase
  <2>3. QED
    BY <1>13, <2>1, <2>2
    DEF TypeOK, PreAcceptSet, LocalsOK, At, Threads, engineVars, mediaVars,
        countVars
<1>14. ASSUME OnAccept
      PROVE  TypeOK'
  <2>1. th' \in [Threads -> ThreadType]
    BY <1>ec, <1>th, <1>b, <1>14
    DEF OnAccept, GotoWith, ThreadType, AppLabels, RecvLabels, EntryType
  <2>2. QED
    BY <1>14, <2>1
    DEF TypeOK, OnAccept, LocalsOK, At, Threads, engineVars, callVars,
        mediaVars, countVars
<1>15. ASSUME AcceptCheck
      PROVE  TypeOK'
  <2>1. th' \in [Threads -> ThreadType]
    BY <1>th, <1>b, <1>15
    DEF AcceptCheck, Goto, ThreadType, AppLabels, RecvLabels, EntryType
  <2>2. QED
    BY <1>15, <2>1
    DEF TypeOK, AcceptCheck, LocalsOK, At, Threads, engineVars, callVars,
        mediaVars, countVars
<1>16. ASSUME AcceptSet
      PROVE  TypeOK'
  <2>1. th' \in [Threads -> ThreadType]
    BY <1>th, <1>b, <1>16
    DEF AcceptSet, Goto, ThreadType, AppLabels, RecvLabels, EntryType
  <2>2. phase' \in [Calls -> Phases]
    BY <1>d, <1>e, <1>16 DEF AcceptSet, setPhase
  <2>3. QED
    BY <1>16, <2>1, <2>2
    DEF TypeOK, AcceptSet, LocalsOK, At, Threads, engineVars, mediaVars,
        countVars
<1>17. ASSUME AcceptMark
      PROVE  TypeOK'
  <2>1. th' \in [Threads -> ThreadType]
    BY <1>th, <1>b, <1>17
    DEF AcceptMark, Goto, ThreadType, AppLabels, RecvLabels, EntryType
  <2>2. QED
    BY <1>17, <2>1
    DEF TypeOK, AcceptMark, LocalsOK, At, Threads, engineVars, mediaVars,
        countVars
<1>18. ASSUME NEW t \in Threads, StartMedia(t)
      PROVE  TypeOK'
  <2>1. ec' \in [Entries -> EntryType]
    <3>1. ASSUME slot \in Entries
          PROVE  [ec EXCEPT ![slot].started = TRUE, ![slot].cancel = TRUE]
                   \in [Entries -> EntryType]
      BY <1>ec, <3>1 DEF EntryType
    <3>2. QED
      BY <1>ec, <1>b, <1>18, <3>1 DEF StartMedia, MayStart, EngineAssumption
  <2>2. media' \in [Entries -> MediaType]
    <3>1. ASSUME slot \in Entries
          PROVE  [media EXCEPT ![slot].starts = @ + 1]
                   \in [Entries -> MediaType]
      BY <1>md, <3>1 DEF MediaType, MediaLabels
    <3>2. QED
      BY <1>md, <1>b, <1>18, <3>1 DEF StartMedia, MayStart, EngineAssumption
  <2>3. th' \in [Threads -> ThreadType]
    <3>1. [th EXCEPT ![t] = Returned] \in [Threads -> ThreadType]
      BY <1>th, <1>b DEF ThreadType, Returned, AppLabels
    <3>2. ASSUME slot \in Entries
          PROVE  [th EXCEPT ![t] = [pc |-> "startPhase", m |-> slot,
                                    c |-> ec[slot].call, cancel |-> FALSE]]
                   \in [Threads -> ThreadType]
      BY <1>ec, <1>th, <1>b, <3>2
      DEF ThreadType, EntryType, AppLabels, RecvLabels
    <3>3. QED
      BY <1>b, <1>18, <3>1, <3>2 DEF StartMedia, MayStart, Return, GotoWith
  <2>4. QED
    BY <1>18, <2>1, <2>2, <2>3
    DEF TypeOK, StartMedia, LocalsOK, At, Threads, callVars, countVars
<1>19. ASSUME NEW t \in Threads, StartPhase(t)
      PROVE  TypeOK'
  <2>1. media' \in [Entries -> MediaType]
    <3> DEFINE k == th[t].m
    <3>1. k \in Entries /\ th[t].c \in Calls
      BY <1>b, <1>19 DEF StartPhase, LocalsOK, At
    <3>2. media'[k] = [media[k] EXCEPT !.pc = "connect", !.dial = "pending",
                                         !.call = th[t].c]
      BY <1>md, <1>19, <3>1 DEF StartPhase
    <3>3. media[k] \in MediaType
      BY <1>md, <3>1
    <3> HIDE DEF k
    <3>4. media'[k] \in MediaType
      BY <3>3, <3>1, <3>2 DEF MediaType, MediaLabels
    <3>5. /\ media' = [x \in Entries |-> media'[x]]
          /\ \A x \in Entries \ {k} : media'[x] = media[x]
      BY <1>md, <1>19 DEF StartPhase, k
    <3>6. QED
      BY <1>md, <3>4, <3>5
  <2>2. th' \in [Threads -> ThreadType]
    BY <1>th, <1>b, <1>19
    DEF StartPhase, Return, Returned, ThreadType, AppLabels, RecvLabels,
        EntryType
  <2>3. phase' \in [Calls -> Phases]
    BY <1>d, <1>e, <1>19 DEF StartPhase, setPhase
  <2>4. QED
    BY <1>19, <2>1, <2>2, <2>3
    DEF TypeOK, StartPhase, LocalsOK, At, Threads, engineVars, countVars
<1>20. ASSUME NEW t \in Apps, NEW c \in Calls, HangupOrReject(t, c)
      PROVE  TypeOK'
  <2>1. ec' \in [Entries -> EntryType]
    <3>1. ASSUME slot \in Entries
          PROVE  [ec EXCEPT ![slot].cancel = FALSE] \in [Entries -> EntryType]
      BY <1>ec, <3>1 DEF EntryType
    <3>2. QED
      BY <1>ec, <1>b, <1>20, <3>1
      DEF HangupOrReject, EngineAssumption, FinishTake
  <2>2. th' \in [Threads -> ThreadType]
    BY <1>ec, <1>th, <1>b, <1>20
    DEF HangupOrReject, ThreadType, AppLabels, RecvLabels, EntryType,
        FinishTake
  <2>3. QED
    BY <1>20, <2>1, <2>2
    DEF TypeOK, HangupOrReject, LocalsOK, At, Threads, callVars, mediaVars,
        countVars, FinishTake
<1>21. ASSUME OnTerminate
      PROVE  TypeOK'
  <2>1. ec' \in [Entries -> EntryType]
    <3>1. ASSUME slot \in Entries
          PROVE  [ec EXCEPT ![slot].cancel = FALSE] \in [Entries -> EntryType]
      BY <1>ec, <3>1 DEF EntryType
    <3>2. QED
      BY <1>ec, <1>b, <1>21, <3>1 DEF OnTerminate, EngineAssumption, FinishTake
  <2>2. th' \in [Threads -> ThreadType]
    BY <1>ec, <1>th, <1>b, <1>21
    DEF OnTerminate, ThreadType, AppLabels, RecvLabels, EntryType, FinishTake
  <2>3. QED
    BY <1>21, <2>1, <2>2
    DEF TypeOK, OnTerminate, LocalsOK, At, Threads, callVars, mediaVars,
        countVars, FinishTake
<1>22. ASSUME NEW t \in Threads, FinishCancel(t)
      PROVE  TypeOK'
  <2>1. th' \in [Threads -> ThreadType]
    <3>1. [th EXCEPT ![t].pc = "finishCheck", ![t].cancel = FALSE]
            \in [Threads -> ThreadType]
      BY <1>th DEF ThreadType, AppLabels
    <3>2. QED
      BY <1>22, <3>1 DEF FinishCancel
  <2>2. QED
    BY <1>22, <2>1
    DEF TypeOK, FinishCancel, LocalsOK, At, Threads, engineVars, callVars,
        countVars
<1>23. ASSUME NEW t \in Threads, FinishCheck(t)
      PROVE  TypeOK'
  <2>1. th' \in [Threads -> ThreadType]
    <3>1. [th EXCEPT ![t] = Returned] \in [Threads -> ThreadType]
      BY <1>th DEF ThreadType, Returned, AppLabels
    <3>2. [th EXCEPT ![t].pc = "finishSet"] \in [Threads -> ThreadType]
      BY <1>th DEF ThreadType, AppLabels
    <3>3. QED
      BY <1>23, <3>1, <3>2 DEF FinishCheck, Return, Goto
  <2>2. QED
    BY <1>23, <2>1
    DEF TypeOK, FinishCheck, LocalsOK, At, Threads, engineVars, callVars,
        mediaVars, countVars
<1>24. ASSUME NEW t \in Threads, FinishSet(t)
      PROVE  TypeOK'
  <2>1. th' \in [Threads -> ThreadType]
    BY <1>th, <1>b, <1>24
    DEF FinishSet, Return, Returned, ThreadType, AppLabels, RecvLabels,
        EntryType
  <2>2. phase' \in [Calls -> Phases]
    BY <1>d, <1>e, <1>24 DEF FinishSet, setPhase
  <2>3. ended' \in [Calls -> Nat]
    <3>1. th[t].c \in Calls
      BY <1>b, <1>24 DEF FinishSet, LocalsOK, At
    <3>2. QED
      BY <1>f, <1>24, <3>1 DEF FinishSet
  <2>4. QED
    BY <1>24, <2>1, <2>2, <2>3
    DEF TypeOK, FinishSet, LocalsOK, At, Threads, engineVars, mediaVars
<1>25. ASSUME NEW m \in Entries, DialDone(m)
      PROVE  TypeOK'
  <2>1. media' \in [Entries -> MediaType]
    <3>1. [media EXCEPT ![m].dial = "open"] \in [Entries -> MediaType]
      BY <1>md DEF MediaType, MediaLabels
    <3>2. [media EXCEPT ![m].dial = "failed"] \in [Entries -> MediaType]
      BY <1>md DEF MediaType, MediaLabels
    <3>3. QED
      BY <1>md, <1>b, <1>25, <3>1, <3>2 DEF DialDone, EngineAssumption
  <2>2. QED
    BY <1>25, <2>1
    DEF TypeOK, DialDone, LocalsOK, At, Threads, engineVars, callVars,
        countVars
<1>26. ASSUME NEW m \in Entries, MediaConnected(m)
      PROVE  TypeOK'
  <2>1. media' \in [Entries -> MediaType]
    BY <1>md, <1>26 DEF MediaConnected, MediaGoto, MediaType, MediaLabels
  <2>2. QED
    BY <1>26, <2>1
    DEF TypeOK, MediaConnected, LocalsOK, At, Threads, engineVars, callVars,
        countVars
<1>27. ASSUME NEW m \in Entries, MediaSetupFailed(m)
      PROVE  TypeOK'
  <2>1. media' \in [Entries -> MediaType]
    <3>1. [media EXCEPT ![m].pc = "stopped", ![m].dial = "closed"]
            \in [Entries -> MediaType]
      BY <1>md DEF MediaType, MediaLabels
    <3>2. QED
      BY <1>27, <3>1 DEF MediaSetupFailed
  <2>2. QED
    BY <1>27, <2>1
    DEF TypeOK, MediaSetupFailed, LocalsOK, At, Threads, engineVars, callVars,
        countVars
<1>28. ASSUME NEW m \in Entries, MediaGiveUp(m)
      PROVE  TypeOK'
  <2>1. media' \in [Entries -> MediaType]
    BY <1>md, <1>28 DEF MediaGiveUp, MediaGoto, MediaType, MediaLabels
  <2>2. QED
    BY <1>28, <2>1
    DEF TypeOK, MediaGiveUp, LocalsOK, At, Threads, engineVars, callVars,
        countVars
<1>29. ASSUME NEW m \in Entries, MediaRegister(m)
      PROVE  TypeOK'
  <2>1. ec' \in [Entries -> EntryType]
    <3>1. ASSUME slot \in Entries
          PROVE  [ec EXCEPT ![slot].tx = m] \in [Entries -> EntryType]
      BY <1>ec, <3>1 DEF EntryType
    <3>2. QED
      BY <1>ec, <1>b, <1>29, <3>1 DEF MediaRegister, MediaGoto, EngineAssumption
  <2>2. media' \in [Entries -> MediaType]
    <3>1. [media EXCEPT ![m].pc = "loop"] \in [Entries -> MediaType]
      BY <1>md DEF MediaType, MediaLabels
    <3>2. QED
      BY <1>md, <1>b, <1>29, <3>1 DEF MediaRegister, MediaGoto, EngineAssumption
  <2>3. QED
    BY <1>29, <2>1, <2>2
    DEF TypeOK, MediaRegister, LocalsOK, At, Threads, callVars, countVars
<1>30. ASSUME NEW m \in Entries, MediaLoop(m)
      PROVE  TypeOK'
  <2>1. media' \in [Entries -> MediaType]
    BY <1>md, <1>30 DEF MediaLoop, MediaGoto, MediaType, MediaLabels
  <2>2. QED
    BY <1>30, <2>1
    DEF TypeOK, MediaLoop, LocalsOK, At, Threads, engineVars, callVars,
        countVars
<1>31. ASSUME NEW m \in Entries, MediaPacket(m)
      PROVE  TypeOK'
  <2>1. media' \in [Entries -> MediaType]
    <3>1. PICK next \in {"loop", "ready"} :
            media' = [media EXCEPT ![m].pc = next,
                   ![m].heard = @ \/ next = "ready",
                   ![m].late = IF m \in ctxDone THEN @ + 1 ELSE @]
      BY <1>31 DEF MediaPacket
    <3>2. media'[m] = [media[m] EXCEPT
                   !.pc = next, !.heard = @ \/ next = "ready",
                   !.late = IF m \in ctxDone THEN @ + 1 ELSE @]
      BY <1>md, <3>1
    <3> DEFINE n == IF m \in ctxDone THEN media[m].late + 1 ELSE media[m].late
    <3>3. media[m] \in MediaType /\ n \in Nat
      <4>1. media[m] \in MediaType
        BY <1>md
      <4>2. QED
        BY <4>1 DEF MediaType
    <3> HIDE DEF n
    <3>4. media'[m] \in MediaType
      <4>1. CASE next = "loop"
        <5>1. media'[m] = [media[m] EXCEPT !.pc = "loop",
                             !.late = n]
          BY <3>3, <3>2, <4>1 DEF MediaType, n
        <5>2. QED
          BY <3>3, <5>1 DEF MediaType, MediaLabels
      <4>2. CASE next = "ready"
        <5>1. media'[m] = [media[m] EXCEPT !.pc = "ready", !.heard = TRUE,
                             !.late = n]
          BY <3>3, <3>2, <4>2 DEF MediaType, n
        <5>2. QED
          BY <3>3, <5>1 DEF MediaType, MediaLabels
      <4>3. QED
        BY <3>1, <4>1, <4>2
    <3>5. /\ media' = [x \in Entries |-> media'[x]]
          /\ \A x \in Entries \ {m} : media'[x] = media[x]
      BY <1>md, <3>1
    <3>6. QED
      BY <1>md, <3>4, <3>5
  <2>2. QED
    BY <1>31, <2>1
    DEF TypeOK, MediaPacket, LocalsOK, At, Threads, engineVars, callVars,
        countVars
<1>32. ASSUME NEW m \in Entries, MediaReady(m)
      PROVE  TypeOK'
  <2>1. media' \in [Entries -> MediaType]
    BY <1>md, <1>32 DEF MediaReady, MediaGoto, MediaType, MediaLabels
  <2>2. phase' \in [Calls -> Phases]
    BY <1>d, <1>e, <1>32 DEF MediaReady, setPhase
  <2>3. QED
    BY <1>32, <2>1, <2>2
    DEF TypeOK, MediaReady, LocalsOK, At, Threads, engineVars, countVars
<1>33. ASSUME NEW m \in Entries, MediaRecvError(m)
      PROVE  TypeOK'
  <2>1. media' \in [Entries -> MediaType]
    BY <1>md, <1>33 DEF MediaRecvError, MediaGoto, MediaType, MediaLabels
  <2>2. QED
    BY <1>33, <2>1
    DEF TypeOK, MediaRecvError, LocalsOK, At, Threads, engineVars, callVars,
        countVars
<1>34. ASSUME NEW m \in Entries, MediaCleanup(m)
      PROVE  TypeOK'
  <2>1. ec' \in [Entries -> EntryType]
    <3>1. ASSUME slot \in Entries
          PROVE  [ec EXCEPT ![slot].tx = NoEntry] \in [Entries -> EntryType]
      BY <1>ec, <3>1 DEF EntryType
    <3>2. QED
      BY <1>ec, <1>b, <1>34, <3>1 DEF MediaCleanup, EngineAssumption
  <2>2. media' \in [Entries -> MediaType]
    <3>1. [media EXCEPT ![m].pc = "stopped", ![m].dial = "closed"]
            \in [Entries -> MediaType]
      BY <1>md DEF MediaType, MediaLabels
    <3>2. QED
      BY <1>md, <1>b, <1>34, <3>1 DEF MediaCleanup, EngineAssumption
  <2>3. QED
    BY <1>34, <2>1, <2>2
    DEF TypeOK, MediaCleanup, LocalsOK, At, Threads, callVars, countVars
<1>35. CASE UNCHANGED vars
  BY <1>35 DEF TypeOK, vars, engineVars, callVars, mediaVars, countVars
<1>36. QED
  BY <1>1, <1>2, <1>3, <1>4, <1>5, <1>6, <1>7, <1>8, <1>9, <1>10, <1>11, <1>12,
     <1>13, <1>14, <1>15, <1>16, <1>17, <1>18, <1>19, <1>20, <1>21, <1>22,
     <1>23, <1>24, <1>25, <1>26, <1>27, <1>28, <1>29, <1>30, <1>31, <1>32,
     <1>33, <1>34, <1>35
  DEF Next, AppStart, RecvStart, ThreadStep, RecvStep, MediaStep, RelayStep

\* sendAccept, maybeStartMedia (both halves) and the Ended test of finishCall.
LEMMA BranchStep ==
  ASSUME IInv, TypeOK',
         \/ SendAccept
         \/ \E t \in Threads : StartMedia(t) \/ StartPhase(t) \/ FinishCheck(t)
  PROVE  IInv'
<1>ty. TypeOK
  BY DEF IInv
<1>lo. LocalsOK
  BY DEF IInv
<1>en. EntriesOK
  BY DEF IInv
<1>st. StartsOK
  BY DEF IInv
<1>fi. FinishOK
  BY DEF IInv
<1>la. LateOK
  BY DEF IInv
<1>ac. AcceptsCovered
  BY DEF IInv
<1>oe. OnEndAtMostOnce
  BY DEF IInv
<1>fm. FinishedMediaIsCancelled
  BY DEF IInv
<1>lm. LiveMediaIsNotCancelled
  BY DEF IInv
<1>ca. CancelsOK
  BY DEF IInv
<1>am. AtMostOnePacketAfterCancel
  BY DEF IInv
<1>a. /\ ec \in [Entries -> EntryType]
      /\ th \in [Threads -> ThreadType]
      /\ media \in [Entries -> MediaType]
  BY <1>ty DEF TypeOK
<1>s. /\ slot \in Entries \cup {NoEntry}
      /\ Recv \in Threads /\ NoEntry \notin Entries
  BY <1>ty, EngineAssumption DEF TypeOK, Threads
<1>u. used \subseteq Entries
  BY <1>ty DEF TypeOK
<1>k. \A u \in Threads : th[u].pc = "startPhase" => th[u].m \in Entries
  BY <1>u, <1>lo DEF LocalsOK
<1>x. \A m \in Entries : accepts[m] \in Nat /\ answers[m] \in Nat
  BY <1>ty DEF TypeOK
<1>l. \A u \in Entries : media[u].late \in Nat
  BY <1>a DEF MediaType
<1>1. ASSUME SendAccept
      PROVE  IInv'
  <2>1. /\ \A u \in Threads : u # Recv => th'[u] = th[u]
        /\ th[Recv].pc = "sendAccept" /\ ~th[Recv].cancel
        /\ \/ th'[Recv] = Returned /\ ec' = ec
           \/ /\ slot # NoEntry /\ ec[slot].acceptPending
              /\ th'[Recv] = [pc |-> "acceptSend", m |-> slot,
                               c |-> NoCall, cancel |-> FALSE]
              /\ ec' = [ec EXCEPT ![slot].acceptPending = FALSE]
    BY <1>a, <1>s, <1>lo, <1>1 DEF SendAccept, GotoWith, Return, At, LocalsOK
  <2>2. UNCHANGED <<slot, made, used, handles, peerAccepted, ctxDone, ended,
                    answers, accepts, media>>
    BY <1>1 DEF SendAccept, callVars, mediaVars, countVars
  <2>3. \A m \in Entries :
          /\ ec'[m].call = ec[m].call
          /\ ec'[m].started = ec[m].started
          /\ ec'[m].cancel = ec[m].cancel
    BY <1>a, <2>1 DEF EntryType
  <2>4. \A m \in Entries :
          \/ /\ ec'[m].acceptPending = ec[m].acceptPending
             /\ ~(th'[Recv].pc = "acceptSend" /\ th'[Recv].m = m)
          \/ ec[m].acceptPending /\ ~ec'[m].acceptPending
    BY <1>a, <2>1 DEF EntryType, Returned
  <2>5. th[Recv].pc = "sendAccept"
    BY <2>1
  <2>6. /\ ~th'[Recv].cancel
        /\ th'[Recv].pc \in {"idle", "acceptSend"}
        /\ th'[Recv].pc = "acceptSend" => th'[Recv].m = slot /\ slot \in used
    BY <1>s, <1>en, <2>1 DEF Returned, EntriesOK
  <2>7. LocalsOK'
    BY <1>lo, <2>1, <2>2, <2>3, <2>6 DEF LocalsOK, RecvLabels
  <2>8. EntriesOK'
    BY <1>en, <1>s, <2>2, <2>3, <2>6 DEF EntriesOK
  <2>9. StartsOK'
    BY <1>st, <2>1, <2>2, <2>3, <2>6 DEF StartsOK, At
  <2>10. FinishOK'
    BY <1>fi, <1>s, <2>1, <2>2, <2>3, <2>6 DEF FinishOK, Finishing
  <2>11. LateOK'
    BY <1>la, <2>2, <2>3, <2>6 DEF LateOK
  <2>12. AcceptsCovered'
    BY <1>ac, <1>x, <2>2, <2>4, <2>5 DEF AcceptsCovered, At
  <2>13. CancelsOK'
    BY <1>ca, <2>1, <2>2, <2>6 DEF CancelsOK
  <2>14. OnEndAtMostOnce'
    BY <1>oe, <2>2, <2>3, <2>6 DEF OnEndAtMostOnce
  <2>15. FinishedMediaIsCancelled'
    BY <1>fm, <2>1, <2>2, <2>3, <2>6 DEF FinishedMediaIsCancelled, At
  <2>16. LiveMediaIsNotCancelled'
    BY <1>lm, <2>1, <2>2, <2>3, <2>6 DEF LiveMediaIsNotCancelled, At
  <2>17. AtMostOnePacketAfterCancel'
    BY <1>am, <2>2, <2>3, <2>6 DEF AtMostOnePacketAfterCancel
  <2>18. QED
    BY <2>7, <2>8, <2>9, <2>10, <2>11, <2>12, <2>14, <2>15, <2>16,
       <2>17, <2>13
      DEF IInv
<1>2. ASSUME NEW t \in Threads, StartMedia(t)
      PROVE  IInv'
  <2>1. /\ \A u \in Threads : u # t => th'[u] = th[u]
        /\ th[t].pc = "startMedia" /\ ~th[t].cancel
        /\ \/ th'[t] = Returned /\ ec' = ec /\ media' = media
           \/ /\ MayStart
              /\ th'[t] = [pc |-> "startPhase", m |-> slot,
                            c |-> ec[slot].call, cancel |-> FALSE]
              /\ ec' = [ec EXCEPT ![slot].started = TRUE,
                                  ![slot].cancel = TRUE]
              /\ media' = [media EXCEPT ![slot].starts = @ + 1]
    BY <1>a, <1>lo, <1>2 DEF StartMedia, GotoWith, Return, At, LocalsOK
  <2>2. UNCHANGED <<slot, made, used, handles, peerAccepted, ctxDone, ended,
                    answers, accepts, phase>>
    BY <1>2 DEF StartMedia, callVars, countVars
  <2>3. ~th'[t].cancel /\ (th'[t].pc = "idle" \/ th'[t].pc = "startPhase")
    BY <2>1 DEF Returned
  <2>4. \A m \in Entries :
          /\ ec'[m].call = ec[m].call
          /\ ec'[m].acceptPending = ec[m].acceptPending
          /\ media'[m].pc = media[m].pc
          /\ media'[m].late = media[m].late
    BY <1>a, <2>1 DEF EntryType, MediaType
  <2>5. ASSUME ~MayStart
        PROVE  (LocalsOK /\ EntriesOK /\ StartsOK /\ FinishedMediaIsCancelled)'
    <3>1. th'[t].pc = "idle" /\ ec' = ec /\ media' = media
      BY <2>1, <2>5 DEF Returned
    <3>2. EntriesOK'
      BY <1>en, <1>s, <2>1, <2>2, <3>1 DEF EntriesOK, At
    <3>3. StartsOK'
      BY <1>st, <2>1, <2>2, <3>1 DEF StartsOK, At
    <3>4. FinishedMediaIsCancelled'
      BY <1>fm, <2>1, <2>2, <3>1 DEF FinishedMediaIsCancelled, At
    <3>5. LocalsOK'
      BY <1>lo, <2>1, <2>2, <2>3, <3>1 DEF LocalsOK, RecvLabels
    <3>6. QED
      BY <3>2, <3>3, <3>4, <3>5
  <2>6. ASSUME MayStart
        PROVE  (LocalsOK /\ EntriesOK /\ StartsOK /\ FinishedMediaIsCancelled)'
    <3>1. /\ slot \in Entries /\ slot \in used
          /\ ~ec[slot].started /\ ~ec[slot].cancel
          /\ ec[slot].call \in made
          /\ media[slot].starts = 0 /\ media[slot].pc = "none"
      BY <1>s, <1>en, <1>st, <2>6 DEF MayStart, EntriesOK, StartsOK
    <3>2. /\ th'[t].pc = "startPhase"
          /\ th'[t].m = slot /\ th'[t].c = ec[slot].call
          /\ ec'[slot].started /\ ec'[slot].cancel
          /\ media'[slot].starts = 1
          /\ \A m \in Entries : m # slot =>
               ec'[m] = ec[m] /\ media'[m] = media[m]
      <4>1. /\ th'[t] = [pc |-> "startPhase", m |-> slot,
                          c |-> ec[slot].call, cancel |-> FALSE]
            /\ ec' = [ec EXCEPT ![slot].started = TRUE,
                                  ![slot].cancel = TRUE]
              /\ media' = [media EXCEPT ![slot].starts = @ + 1]
        BY <1>a, <2>6, <1>2 DEF StartMedia, GotoWith
      <4>2. QED
        BY <1>a, <3>1, <4>1 DEF EntryType, MediaType
    <3>3. \A u \in Threads : u # t => th'[u] = th[u]
      BY <2>1
    <3>4. th[t].pc = "startMedia"
      BY <2>1
    <3>5. \A u \in Threads : th[u].pc = "startPhase" =>
            th[u].m \in Entries /\ th[u].m # slot
      BY <1>st, <1>k, <3>1 DEF StartsOK, At
    <3>6. EntriesOK'
      BY <1>en, <1>s, <1>u, <2>2, <2>4, <3>3, <3>1, <3>2, <3>5, <3>4
      DEF EntriesOK, At
    <3>7. StartsOK'
      BY <1>st, <1>u, <2>2, <2>4, <3>3, <3>1, <3>2, <3>5, <3>4 DEF StartsOK, At
    <3>8. FinishedMediaIsCancelled'
      BY <1>fm, <1>u, <2>2, <2>4, <3>3, <3>1, <3>2, <3>5, <3>4
      DEF FinishedMediaIsCancelled, At
    <3>9. LocalsOK'
      BY <1>lo, <2>1, <2>2, <2>3, <3>1, <3>2 DEF LocalsOK, RecvLabels
    <3>10. QED
      BY <3>6, <3>7, <3>8, <3>9
  <2>7. FinishOK'
    BY <1>fi, <1>s, <2>1, <2>2, <2>3, <2>4 DEF FinishOK, Finishing
  <2>8. LateOK'
    BY <1>la, <2>1, <2>2, <2>3, <2>4 DEF LateOK
  <2>9. AcceptsCovered'
    BY <1>ac, <1>s, <1>a, <2>1, <2>2, <2>3, <2>4 DEF AcceptsCovered, At
  <2>10. CancelsOK'
    BY <1>ca, <2>1, <2>2, <2>3 DEF CancelsOK
  <2>11. OnEndAtMostOnce'
    BY <1>oe, <2>1, <2>2, <2>3, <2>4 DEF OnEndAtMostOnce
  <2>12. LiveMediaIsNotCancelled'
    BY <1>lm, <2>1, <2>2, <2>3, <2>4 DEF LiveMediaIsNotCancelled, At
  <2>13. AtMostOnePacketAfterCancel'
    BY <1>am, <2>1, <2>2, <2>3, <2>4 DEF AtMostOnePacketAfterCancel
  <2>14. QED
    BY <2>5, <2>6, <2>7, <2>8, <2>9, <2>11, <2>12, <2>13, <2>10 DEF IInv
<1>3. ASSUME NEW t \in Threads, StartPhase(t)
      PROVE  IInv'
  <2>1. /\ \A u \in Threads : u # t => th'[u] = th[u]
        /\ th[t].pc = "startPhase" /\ ~th[t].cancel
        /\ th'[t] = Returned
    BY <1>a, <1>lo, <1>3 DEF StartPhase, Return, At, LocalsOK
  <2>2. UNCHANGED <<slot, made, used, handles, peerAccepted, ctxDone, ended,
                    answers, accepts, ec>>
    BY <1>3 DEF StartPhase, engineVars, countVars
  <2>3. ~th'[t].cancel /\ th'[t].pc = "idle"
    BY <2>1 DEF Returned
  <2>4. /\ th[t].m \in Entries
        /\ media[th[t].m].starts = 1 /\ media[th[t].m].pc = "none"
        /\ \A u \in Threads :
             u # t /\ th[u].pc = "startPhase" => th[u].m # th[t].m
    BY <1>lo, <1>ty, <1>st, <2>1 DEF LocalsOK, StartsOK, TypeOK, At
  <2>5. /\ \A m \in Entries : /\ media'[m].starts = media[m].starts
                              /\ media'[m].late = media[m].late
                              /\ m # th[t].m => media'[m].pc = media[m].pc
        /\ media'[th[t].m].pc = "connect"
    BY <1>a, <1>3, <2>4 DEF StartPhase, MediaType
  <2>6. media[th[t].m].late = 0
    BY <1>la, <1>l, <2>4 DEF LateOK
  <2>7. LocalsOK'
    BY <1>lo, <2>1, <2>2, <2>3, <2>5 DEF LocalsOK, RecvLabels
  <2>8. EntriesOK'
    BY <1>en, <1>s, <2>1, <2>2, <2>3, <2>5 DEF EntriesOK
  <2>9. StartsOK'
    BY <1>st, <1>k, <2>1, <2>2, <2>3, <2>4, <2>5 DEF StartsOK, At
  <2>10. FinishOK'
    BY <1>fi, <1>s, <2>1, <2>2, <2>3, <2>5 DEF FinishOK, Finishing
  <2>11. LateOK'
    BY <1>la, <2>2, <2>4, <2>5, <2>6 DEF LateOK
  <2>12. AcceptsCovered'
    BY <1>ac, <1>s, <1>a, <2>1, <2>2, <2>3, <2>5 DEF AcceptsCovered, At
  <2>13. CancelsOK'
    BY <1>ca, <2>1, <2>2, <2>3 DEF CancelsOK
  <2>14. OnEndAtMostOnce'
    BY <1>oe, <2>1, <2>2, <2>3, <2>5 DEF OnEndAtMostOnce
  <2>15. FinishedMediaIsCancelled'
    BY <1>fm, <1>u, <2>1, <2>2, <2>3, <2>5 DEF FinishedMediaIsCancelled, At
  <2>16. LiveMediaIsNotCancelled'
    BY <1>lm, <2>1, <2>2, <2>3, <2>5 DEF LiveMediaIsNotCancelled, At
  <2>17. AtMostOnePacketAfterCancel'
    BY <1>am, <2>1, <2>2, <2>3, <2>5 DEF AtMostOnePacketAfterCancel
  <2>18. QED
    BY <2>7, <2>8, <2>9, <2>10, <2>11, <2>12, <2>14, <2>15, <2>16,
       <2>17, <2>13
      DEF IInv
<1>4. ASSUME NEW t \in Threads, FinishCheck(t)
      PROVE  IInv'
  <2>1. /\ \A u \in Threads : u # t => th'[u] = th[u]
        /\ th[t].pc = "finishCheck" /\ ~th[t].cancel
        /\ \/ th'[t] = Returned
           \/ th'[t] = [th[t] EXCEPT !.pc = "finishSet"]
    BY <1>a, <1>lo, <1>4 DEF FinishCheck, Goto, Return, At, LocalsOK
  <2>2. UNCHANGED <<slot, made, used, handles, peerAccepted, ctxDone, ended,
                    answers, accepts, ec, media>>
    BY <1>4 DEF FinishCheck, engineVars, callVars, mediaVars, countVars
  <2>3. /\ th'[t].pc = "idle" \/ th'[t].pc = "finishSet"
        /\ th'[t].pc = "finishSet" => th'[t].c = th[t].c 
        /\ ~th'[t].cancel
    BY <1>a, <2>1 DEF Returned, ThreadType
  <2>4. LocalsOK'
    BY <1>lo, <2>1, <2>2, <2>3 DEF LocalsOK, RecvLabels
  <2>5. EntriesOK'
    BY <1>en, <1>s, <2>1, <2>2, <2>3 DEF EntriesOK
  <2>6. StartsOK'
    BY <1>st, <2>1, <2>2, <2>3 DEF StartsOK, At
  <2>7. FinishOK'
    BY <1>fi, <1>s, <2>1, <2>2, <2>3 DEF FinishOK, Finishing
  <2>8. LateOK'
    BY <1>la, <2>1, <2>2, <2>3 DEF LateOK
  <2>9. AcceptsCovered'
    BY <1>ac, <1>s, <1>a, <2>1, <2>2, <2>3 DEF AcceptsCovered, At
  <2>10. CancelsOK'
    BY <1>ca, <2>1, <2>2, <2>3 DEF CancelsOK
  <2>11. OnEndAtMostOnce'
    BY <1>oe, <2>1, <2>2, <2>3 DEF OnEndAtMostOnce
  <2>12. FinishedMediaIsCancelled'
    BY <1>fm, <2>1, <2>2, <2>3 DEF FinishedMediaIsCancelled, At
  <2>13. LiveMediaIsNotCancelled'
    BY <1>lm, <2>1, <2>2, <2>3 DEF LiveMediaIsNotCancelled, At
  <2>14. AtMostOnePacketAfterCancel'
    BY <1>am, <2>1, <2>2, <2>3 DEF AtMostOnePacketAfterCancel
  <2>15. QED
    BY <2>4, <2>5, <2>6, <2>7, <2>8, <2>9, <2>11, <2>12, <2>13,
       <2>14, <2>10
      DEF IInv
<1>5. QED
  BY <1>1, <1>2, <1>3, <1>4

\* finishCall: the entry leaves the table, then its context is cancelled.
LEMMA FinishStep ==
  ASSUME IInv, TypeOK', NEW t \in Threads,
         (At(t, "idle") /\ FinishTake(t)) \/ FinishCancel(t)
  PROVE  IInv'
<1> USE EngineAssumption DEF IInv, TypeOK, LocalsOK, EntriesOK, StartsOK,
      FinishOK, LateOK, AcceptsCovered, CancelsOK, OnEndAtMostOnce,
      FinishedMediaIsCancelled, LiveMediaIsNotCancelled,
      AtMostOnePacketAfterCancel, Threads, At, EntryType, MediaType, ThreadType,
      AppLabels, RecvLabels, engineVars, callVars, mediaVars, countVars,
      Finishing, FinishTake
<1>1. CASE At(t, "idle") /\ FinishTake(t)
  <2>1. LocalsOK'
    BY <1>1
  <2>2. EntriesOK'
    BY <1>1
  <2>3. StartsOK'
    BY <1>1
  <2>4. FinishOK'
    BY <1>1
  <2>5. LateOK'
    BY <1>1
  <2>6. AcceptsCovered'
    BY <1>1
  <2>7. CancelsOK'
    BY <1>1
  <2>8. OnEndAtMostOnce'
    BY <1>1
  <2>9. FinishedMediaIsCancelled'
    BY <1>1
  <2>10. LiveMediaIsNotCancelled'
    BY <1>1
  <2>11. AtMostOnePacketAfterCancel'
    BY <1>1
  <2>12. QED
    BY <2>1, <2>2, <2>3, <2>4, <2>5, <2>6, <2>7, <2>8, <2>9, <2>10, <2>11
<1>2. CASE FinishCancel(t)
  <2>1. LocalsOK'
    BY <1>2 DEF FinishCancel
  <2>2. EntriesOK'
    BY <1>2 DEF FinishCancel
  <2>3. StartsOK'
    BY <1>2 DEF FinishCancel
  <2>4. FinishOK'
    BY <1>2 DEF FinishCancel
  <2>5. LateOK'
    BY <1>2 DEF FinishCancel
  <2>6. AcceptsCovered'
    BY <1>2 DEF FinishCancel
  <2>7. CancelsOK'
    BY <1>2 DEF FinishCancel
  <2>8. OnEndAtMostOnce'
    BY <1>2 DEF FinishCancel
  <2>9. FinishedMediaIsCancelled'
    BY <1>2 DEF FinishCancel
  <2>10. LiveMediaIsNotCancelled'
    BY <1>2 DEF FinishCancel
  <2>11. AtMostOnePacketAfterCancel'
    BY <1>2 DEF FinishCancel
  <2>12. QED
    BY <2>1, <2>2, <2>3, <2>4, <2>5, <2>6, <2>7, <2>8, <2>9, <2>10, <2>11
<1>3. QED
  BY <1>1, <1>2

\* Every step of the engine keeps the inductive invariant.
LEMMA InvariantStep == IInv /\ [Next]_vars => IInv'
<1> SUFFICES ASSUME IInv, [Next]_vars
             PROVE  IInv'
  OBVIOUS
<1>a. TypeOK'
  BY TypeStep DEF IInv
<1>b. Recv \in Threads /\ Apps \subseteq Threads
  BY DEF Threads
<1>1. ASSUME NEW t \in Apps, NEW c \in Calls, HangupOrReject(t, c)
      PROVE  IInv'
  BY <1>a, <1>b, <1>1, FinishStep DEF HangupOrReject
<1>2. ASSUME OnTerminate
      PROVE  IInv'
  BY <1>a, <1>b, <1>2, FinishStep DEF OnTerminate
<1>3. ASSUME NEW t \in Threads, FinishCancel(t)
      PROVE  IInv'
  BY <1>a, <1>3, FinishStep
<1>4. ASSUME NEW m \in Entries, MediaPacket(m)
      PROVE  IInv'
  <2>1. /\ th' = th /\ ec' = ec /\ media[m].pc = "recv"
        /\ UNCHANGED <<slot, made, used, ctxDone, ended, answers, accepts>>
    BY <1>4 DEF MediaPacket, MediaAt, engineVars, callVars, countVars
  <2>2. media \in [Entries -> MediaType] /\ media[m].late = 0
    <3>1. media \in [Entries -> MediaType] /\ LateOK
      BY DEF IInv, TypeOK
    <3>2. QED
      BY <2>1, <3>1 DEF LateOK, MediaType
  <2>3. /\ \A k \in Entries : /\ media'[k].starts = media[k].starts
                              /\ k # m => media'[k] = media[k]
        /\ media'[m].pc \in {"loop", "ready"}
        /\ media'[m].late = IF m \in ctxDone THEN 1 ELSE 0
    BY <1>4, <2>2 DEF MediaPacket, MediaType
  <2>4. LocalsOK' /\ FinishOK' /\ CancelsOK' /\ OnEndAtMostOnce'
    BY <2>1 DEF IInv, LocalsOK, FinishOK, Finishing, CancelsOK, OnEndAtMostOnce
  <2>5. EntriesOK' /\ AcceptsCovered' /\ LiveMediaIsNotCancelled'
    BY <2>1, <2>3
    DEF IInv, EntriesOK, AcceptsCovered, LiveMediaIsNotCancelled, At
  <2>6. StartsOK'
    <3>1. \A t \in Threads : At(t, "startPhase") =>
            th[t].m \in Entries /\ th[t].m # m
      BY <2>1 DEF IInv, TypeOK, LocalsOK, StartsOK, At
    <3>2. media[m].starts # 0
      BY <2>1 DEF IInv, StartsOK
    <3>3. QED
      BY <2>1, <2>3, <3>1, <3>2 DEF IInv, StartsOK, At
  <2>7. LateOK' /\ AtMostOnePacketAfterCancel'
    BY <2>1, <2>3 DEF IInv, LateOK, AtMostOnePacketAfterCancel
  <2>8. FinishedMediaIsCancelled'
    <3>1. used \subseteq Entries /\ FinishedMediaIsCancelled
      BY DEF IInv, TypeOK
    <3>2. QED
      BY <2>1, <2>3, <3>1 DEF FinishedMediaIsCancelled, At
  <2>9. QED
    BY <1>a, <2>4, <2>5, <2>6, <2>7, <2>8 DEF IInv
<1>5. ASSUME NEW m \in Entries, MediaSetupFailed(m)
      PROVE  IInv'
  <2>1. /\ th' = th /\ ec' = ec /\ media[m].pc \in {"connect", "register"}
        /\ UNCHANGED <<slot, made, used, ctxDone, ended, answers, accepts>>
    BY <1>5 DEF MediaSetupFailed, MediaAt, engineVars, callVars, countVars
  <2>2. media \in [Entries -> MediaType]
    BY DEF IInv, TypeOK
  <2>3. /\ \A k \in Entries : /\ media'[k].starts = media[k].starts
                              /\ media'[k].late = media[k].late
                              /\ k # m => media'[k] = media[k]
        /\ media'[m].pc = "stopped"
    BY <1>5, <2>2 DEF MediaSetupFailed, MediaType
  <2>4. LocalsOK' /\ FinishOK' /\ CancelsOK' /\ OnEndAtMostOnce'
    BY <2>1 DEF IInv, LocalsOK, FinishOK, Finishing, CancelsOK, OnEndAtMostOnce
  <2>5. EntriesOK' /\ AcceptsCovered' /\ LiveMediaIsNotCancelled'
    BY <2>1, <2>3
    DEF IInv, EntriesOK, AcceptsCovered, LiveMediaIsNotCancelled, At
  <2>6. StartsOK'
    <3>1. \A t \in Threads : At(t, "startPhase") =>
            th[t].m \in Entries /\ th[t].m # m
      BY <2>1 DEF IInv, TypeOK, LocalsOK, StartsOK, At
    <3>2. media[m].starts # 0
      BY <2>1 DEF IInv, StartsOK
    <3>3. QED
      BY <2>1, <2>3, <3>1, <3>2 DEF IInv, StartsOK, At
  <2>7. LateOK' /\ AtMostOnePacketAfterCancel'
    BY <2>1, <2>3 DEF IInv, LateOK, AtMostOnePacketAfterCancel
  <2>8. FinishedMediaIsCancelled'
    <3>1. used \subseteq Entries /\ FinishedMediaIsCancelled
      BY DEF IInv, TypeOK
    <3>2. QED
      BY <2>1, <2>3, <3>1 DEF FinishedMediaIsCancelled, At
  <2>9. QED
    BY <1>a, <2>4, <2>5, <2>6, <2>7, <2>8 DEF IInv
<1> USE EngineAssumption DEF IInv, TypeOK, LocalsOK, EntriesOK, StartsOK,
      FinishOK, LateOK, AcceptsCovered, CancelsOK, OnEndAtMostOnce,
      FinishedMediaIsCancelled, LiveMediaIsNotCancelled,
      AtMostOnePacketAfterCancel, Threads, At, Goto, GotoWith, Return,
      Returned, setPhase, EntryFor, EmptyEntry, NoMedia, Phases, Idle, Calling,
      Ringing, Connecting, Active, Ended, EntryType, MediaType, ThreadType,
      AppLabels, RecvLabels, MediaLabels, engineVars, callVars, mediaVars,
      countVars, MediaAt, MediaGoto, Finishing, FinishTake
<1>6. ASSUME NEW t \in Apps, NEW m \in Entries, NEW c \in Calls,
             PlaceCall(t, m, c)
      PROVE  IInv'
  BY <1>a, <1>6, SMTT(30) DEF PlaceCall
<1>7. ASSUME NEW t \in Threads, PlaceSend(t)
      PROVE  IInv'
  BY <1>a, <1>7, SMTT(30) DEF PlaceSend
<1>8. ASSUME NEW m \in Entries, NEW c \in Calls, NEW r \in BOOLEAN,
             OnOffer(m, c, r)
      PROVE  IInv'
  BY <1>a, <1>8, SMTT(30) DEF OnOffer
<1>9. ASSUME OfferNotify
      PROVE  IInv'
  BY <1>a, <1>9, SMTT(30) DEF OfferNotify
<1>10. ASSUME NEW t \in Apps, NEW c \in Calls, AnswerLookup(t, c)
      PROVE  IInv'
  BY <1>a, <1>10, SMTT(30) DEF AnswerLookup
<1>11. ASSUME NEW t \in Threads, AnswerMark(t)
      PROVE  IInv'
  <2>1. LocalsOK' /\ EntriesOK' /\ StartsOK'
    BY <1>a, <1>11 DEF AnswerMark
  <2>2. FinishOK' /\ CancelsOK' /\ OnEndAtMostOnce'
    BY <1>a, <1>11 DEF AnswerMark
  <2>3. LateOK' /\ AtMostOnePacketAfterCancel'
    BY <1>a, <1>11 DEF AnswerMark
  <2>4. AcceptsCovered'
    BY <1>a, <1>11 DEF AnswerMark
  <2>5. FinishedMediaIsCancelled' /\ LiveMediaIsNotCancelled'
    BY <1>a, <1>11 DEF AnswerMark
  <2>6. QED
    BY <1>a, <2>1, <2>2, <2>3, <2>4, <2>5
<1>12. ASSUME NEW t \in Threads, AnswerPhase(t)
      PROVE  IInv'
  BY <1>a, <1>12, SMTT(30) DEF AnswerPhase
<1>13. ASSUME OnMute
      PROVE  IInv'
  BY <1>a, <1>13, SMTT(30) DEF OnMute
<1>14. ASSUME AcceptSend
      PROVE  IInv'
  BY <1>a, <1>14, SMTT(30) DEF AcceptSend
<1>15. ASSUME OnRelay
      PROVE  IInv'
  BY <1>a, <1>15, SMTT(30) DEF OnRelay
<1>16. ASSUME OnPreAccept
      PROVE  IInv'
  BY <1>a, <1>16, SMTT(30) DEF OnPreAccept
<1>17. ASSUME PreAcceptSet
      PROVE  IInv'
  BY <1>a, <1>17, SMTT(30) DEF PreAcceptSet
<1>18. ASSUME OnAccept
      PROVE  IInv'
  BY <1>a, <1>18, SMTT(30) DEF OnAccept
<1>19. ASSUME AcceptCheck
      PROVE  IInv'
  BY <1>a, <1>19, SMTT(30) DEF AcceptCheck
<1>20. ASSUME AcceptSet
      PROVE  IInv'
  BY <1>a, <1>20, SMTT(30) DEF AcceptSet
<1>21. ASSUME AcceptMark
      PROVE  IInv'
  BY <1>a, <1>21, SMTT(30) DEF AcceptMark
<1>22. ASSUME NEW t \in Threads, FinishSet(t)
      PROVE  IInv'
  BY <1>a, <1>22, SMTT(30) DEF FinishSet
<1>23. ASSUME NEW m \in Entries, DialDone(m)
      PROVE  IInv'
  BY <1>a, <1>23, SMTT(30) DEF DialDone
<1>24. ASSUME NEW m \in Entries, MediaConnected(m)
      PROVE  IInv'
  BY <1>a, <1>24, SMTT(30) DEF MediaConnected
<1>25. ASSUME NEW m \in Entries, MediaGiveUp(m)
      PROVE  IInv'
  BY <1>a, <1>25, SMTT(30) DEF MediaGiveUp
<1>26. ASSUME NEW m \in Entries, MediaRegister(m)
      PROVE  IInv'
  BY <1>a, <1>26, SMTT(30) DEF MediaRegister
<1>27. ASSUME NEW m \in Entries, MediaLoop(m)
      PROVE  IInv'
  BY <1>a, <1>27, SMTT(30) DEF MediaLoop
<1>28. ASSUME NEW m \in Entries, MediaReady(m)
      PROVE  IInv'
  BY <1>a, <1>28, SMTT(30) DEF MediaReady
<1>29. ASSUME NEW m \in Entries, MediaRecvError(m)
      PROVE  IInv'
  BY <1>a, <1>29, SMTT(30) DEF MediaRecvError
<1>30. ASSUME NEW m \in Entries, MediaCleanup(m)
      PROVE  IInv'
  BY <1>a, <1>30, SMTT(30) DEF MediaCleanup
<1>31. ASSUME UNCHANGED vars
      PROVE  IInv'
  BY <1>a, <1>31 DEF vars
<1> HIDE EngineAssumption DEF IInv, TypeOK, LocalsOK, EntriesOK, StartsOK,
      FinishOK, LateOK, AcceptsCovered, CancelsOK, OnEndAtMostOnce,
      FinishedMediaIsCancelled, LiveMediaIsNotCancelled,
      AtMostOnePacketAfterCancel, Threads, At, Goto, GotoWith, Return,
      Returned, setPhase, EntryFor, EmptyEntry, NoMedia, Phases, Idle, Calling,
      Ringing, Connecting, Active, Ended, EntryType, MediaType, ThreadType,
      AppLabels, RecvLabels, MediaLabels, engineVars, callVars, mediaVars,
      countVars, MediaAt, MediaGoto, Finishing, FinishTake
<1>32. QED
  BY <1>a, <1>6, <1>7, <1>8, <1>9, <1>10, <1>11, <1>12, <1>13, <1>14, <1>15,
     <1>16, <1>17, <1>18, <1>19, <1>20, <1>21, <1>1, <1>2, <1>3, <1>22, <1>23,
     <1>24, <1>5, <1>25, <1>26, <1>27, <1>4, <1>28, <1>29, <1>30, <1>31,
     BranchStep
  DEF Next, AppStart, RecvStart, ThreadStep, RecvStep, MediaStep, RelayStep

\* The inductive invariant holds in every reachable state of the engine.
THEOREM EngineInvariant == SafetySpec => []IInv
<1>1. Init => IInv
  BY EngineAssumption
  DEF Init, IInv, TypeOK, LocalsOK, EntriesOK, StartsOK, FinishOK, LateOK,
      AcceptsCovered, CancelsOK, OnEndAtMostOnce, FinishedMediaIsCancelled,
      LiveMediaIsNotCancelled, AtMostOnePacketAfterCancel, EmptyEntry,
      Returned, NoMedia, EntryType, ThreadType, MediaType, AppLabels,
      RecvLabels, MediaLabels, At, Finishing, Threads, Phases, Idle
<1>2. QED
  BY <1>1, InvariantStep, PTL DEF SafetySpec

\* Type correctness of the tables, the goroutines' locals and the counters.
THEOREM EngineTypes == SafetySpec => []TypeOK
<1>1. IInv => TypeOK
  BY DEF IInv
<1>2. QED
  BY <1>1, EngineInvariant, PTL

\* OnEnd fires at most once for a Call, whoever ends it and however often.
THEOREM EndsOnce == SafetySpec => []OnEndAtMostOnce
<1>1. IInv => OnEndAtMostOnce
  BY DEF IInv
<1>2. QED
  BY <1>1, EngineInvariant, PTL

\* maybeStartMedia starts the loop of an engineCall at most once.
THEOREM StartsOnce == SafetySpec => []MediaStartsOnce
<1>1. IInv => MediaStartsOnce
  BY DEF IInv, EntriesOK, MediaStartsOnce
<1>2. QED
  BY <1>1, EngineInvariant, PTL

\* No media goes on, uncancelled, for an engineCall that left the table.
THEOREM FinishedIsCancelled == SafetySpec => []FinishedMediaIsCancelled
<1>1. IInv => FinishedMediaIsCancelled
  BY DEF IInv
<1>2. QED
  BY <1>1, EngineInvariant, PTL

\* No live call's media is cancelled by the end of another one.
THEOREM LiveIsNotCancelled == SafetySpec => []LiveMediaIsNotCancelled
<1>1. IInv => LiveMediaIsNotCancelled
  BY DEF IInv
<1>2. QED
  BY <1>1, EngineInvariant, PTL

\* A cancelled receive loop handles one more packet at most.
THEOREM OnePacketAfterCancel == SafetySpec => []AtMostOnePacketAfterCancel
<1>1. IInv => AtMostOnePacketAfterCancel
  BY DEF IInv
<1>2. QED
  BY <1>1, EngineInvariant, PTL

\* Every accept that goes out answers an Answer of its own.
THEOREM AcceptsNeedAnswers == SafetySpec => []AcceptNeedsAnswer
<1>1. IInv => AcceptNeedsAnswer
  BY DEF IInv, TypeOK, AcceptsCovered, AcceptNeedsAnswer
<1>2. QED
  BY <1>1, EngineInvariant, PTL

\* The engine's tables implement MediaOwnership: a media context is owned by
\* the entry in the table, then by the one thread that took it out, and only
\* then cancelled; no other handler touches it.
THEOREM EngineImplementsOwnership == SafetySpec => ImplementsOwnershipSafety
<1> DEFINE Quiet == /\ ctxDone' = ctxDone
                    /\ \A m \in Entries : ec'[m].cancel = ec[m].cancel
                    /\ \A t \in Threads :
                         /\ th'[t].cancel <=> th[t].cancel
                         /\ th[t].cancel => th'[t].m = th[t].m
<1>1. Init => Ownership!Init
  BY DEF Init, Ownership!Init, EmptyEntry, Returned
<1>2. ASSUME IInv, [Next]_vars
      PROVE  [Ownership!Next]_(Ownership!vars)
  <2>a. /\ ec \in [Entries -> EntryType]
        /\ th \in [Threads -> ThreadType]
        /\ LocalsOK /\ EntriesOK /\ CancelsOK /\ LiveMediaIsNotCancelled
        /\ used \subseteq Entries /\ slot \in Entries \cup {NoEntry}
    BY <1>2 DEF IInv, TypeOK
  <2>b. Recv \in Threads /\ Apps \subseteq Threads
    BY DEF Threads
  <2>c. ASSUME Quiet
        PROVE  UNCHANGED Ownership!vars
    BY <2>c DEF Ownership!vars
  <2>d. ASSUME NEW t \in Threads, At(t, "idle"), FinishTake(t)
        PROVE  [Ownership!Next]_(Ownership!vars)
    <3>1. /\ slot \in Entries /\ ~th[t].cancel
      BY <2>a, <2>d DEF FinishTake, LocalsOK, At
    <3>2. /\ ctxDone' = ctxDone
          /\ \A m \in Entries : ec'[m].cancel <=> ec[m].cancel /\ m # slot
          /\ \A u \in Threads : u # t => th'[u] = th[u]
          /\ th'[t].m = slot /\ (th'[t].cancel <=> ec[slot].cancel)
      BY <2>a, <2>d, <3>1 DEF FinishTake, EntryType, ThreadType, mediaVars
    <3>3. CASE ~ec[slot].cancel
      BY <3>1, <3>2, <3>3 DEF Ownership!vars
    <3>4. CASE ec[slot].cancel
      <4>1. Ownership!Detach({slot})
        BY <3>1, <3>2, <3>4 DEF Ownership!Detach
      <4>2. QED
        BY <3>1, <3>4, <4>1 DEF Ownership!Next, Ownership!Detach
    <3>5. QED
      BY <3>3, <3>4
  <2>1. ASSUME NEW t \in Apps, NEW m \in Entries, NEW c \in Calls,
               PlaceCall(t, m, c)
        PROVE  Quiet
    BY <2>a, <2>b, <2>1
    DEF PlaceCall, GotoWith, At, mediaVars, countVars, LocalsOK, EntryType,
        ThreadType
  <2>2. ASSUME NEW t \in Threads, PlaceSend(t)
        PROVE  Quiet
    BY <2>a, <2>b, <2>2
    DEF PlaceSend, Return, Returned, At, engineVars, mediaVars, countVars,
        LocalsOK, EntryType, ThreadType
  <2>3. ASSUME NEW m \in Entries, NEW c \in Calls, NEW r \in BOOLEAN,
               OnOffer(m, c, r)
        PROVE  Quiet
    <3>1. /\ ctxDone' = ctxDone /\ ~th[Recv].cancel
          /\ ec' = [ec EXCEPT ![m].call = c, ![m].out = FALSE,
                              ![m].relay = @ \/ r]
          /\ th' = [th EXCEPT ![Recv] = [pc |-> "offerNotify", m |-> m,
                                         c |-> c, cancel |-> FALSE]]
      BY <2>a, <2>b, <2>3 DEF OnOffer, GotoWith, At, LocalsOK, mediaVars
    <3>2. \A k \in Entries : ec'[k].cancel = ec[k].cancel
      BY <2>a, <3>1 DEF EntryType
    <3>3. QED
      BY <2>a, <2>b, <3>1, <3>2
  <2>4. ASSUME OfferNotify
        PROVE  Quiet
    BY <2>a, <2>b, <2>4
    DEF OfferNotify, Return, Returned, At, engineVars, mediaVars, countVars,
        LocalsOK, EntryType, ThreadType
  <2>5. ASSUME NEW t \in Apps, NEW c \in Calls, AnswerLookup(t, c)
        PROVE  Quiet
    BY <2>a, <2>b, <2>5
    DEF AnswerLookup, GotoWith, At, engineVars, callVars, mediaVars, countVars,
        LocalsOK, EntryType, ThreadType
  <2>6. ASSUME NEW t \in Threads, AnswerMark(t)
        PROVE  Quiet
    BY <2>a, <2>b, <2>6
    DEF AnswerMark, Goto, At, callVars, mediaVars, LocalsOK, EntryType,
        ThreadType
  <2>7. ASSUME NEW t \in Threads, AnswerPhase(t)
        PROVE  Quiet
    BY <2>a, <2>b, <2>7
    DEF AnswerPhase, Goto, At, engineVars, mediaVars, countVars, LocalsOK,
        EntryType, ThreadType
  <2>8. ASSUME OnMute
        PROVE  Quiet
    BY <2>a, <2>b, <2>8
    DEF OnMute, Goto, At, engineVars, callVars, mediaVars, countVars, LocalsOK,
        EntryType, ThreadType
  <2>9. ASSUME SendAccept
        PROVE  Quiet
    <3>1. /\ ctxDone' = ctxDone /\ ~th[Recv].cancel
          /\ ec' = ec \/ ec' = [ec EXCEPT ![slot].acceptPending = FALSE]
          /\ \/ th' = [th EXCEPT ![Recv] = Returned]
             \/ th' = [th EXCEPT ![Recv] = [pc |-> "acceptSend", m |-> slot,
                                           c |-> NoCall, cancel |-> FALSE]]
      BY <2>a, <2>b, <2>9
      DEF SendAccept, GotoWith, Return, At, LocalsOK, mediaVars
    <3>2. \A k \in Entries : ec'[k].cancel = ec[k].cancel
      BY <2>a, <3>1 DEF EntryType
    <3>3. QED
      BY <2>a, <2>b, <3>1, <3>2 DEF Returned
  <2>10. ASSUME AcceptSend
        PROVE  Quiet
    BY <2>a, <2>b, <2>10
    DEF AcceptSend, Return, Returned, At, engineVars, callVars, mediaVars,
        LocalsOK, EntryType, ThreadType
  <2>11. ASSUME OnRelay
        PROVE  Quiet
    BY <2>a, <2>b, <2>11
    DEF OnRelay, Goto, At, callVars, mediaVars, countVars, LocalsOK, EntryType,
        ThreadType
  <2>12. ASSUME OnPreAccept
        PROVE  Quiet
    BY <2>a, <2>b, <2>12
    DEF OnPreAccept, GotoWith, At, engineVars, callVars, mediaVars, countVars,
        LocalsOK, EntryType, ThreadType
  <2>13. ASSUME PreAcceptSet
        PROVE  Quiet
    BY <2>a, <2>b, <2>13
    DEF PreAcceptSet, Return, Returned, At, engineVars, mediaVars, countVars,
        LocalsOK, EntryType, ThreadType
  <2>14. ASSUME OnAccept
        PROVE  Quiet
    BY <2>a, <2>b, <2>14
    DEF OnAccept, GotoWith, At, engineVars, callVars, mediaVars, countVars,
        LocalsOK, EntryType, ThreadType
  <2>15. ASSUME AcceptCheck
        PROVE  Quiet
    BY <2>a, <2>b, <2>15
    DEF AcceptCheck, Goto, At, engineVars, callVars, mediaVars, countVars,
        LocalsOK, EntryType, ThreadType
  <2>16. ASSUME AcceptSet
        PROVE  Quiet
    BY <2>a, <2>b, <2>16
    DEF AcceptSet, Goto, At, engineVars, mediaVars, countVars, LocalsOK,
        EntryType, ThreadType
  <2>17. ASSUME AcceptMark
        PROVE  Quiet
    BY <2>a, <2>b, <2>17
    DEF AcceptMark, Goto, At, engineVars, mediaVars, countVars, LocalsOK,
        EntryType, ThreadType
  <2>18. ASSUME NEW t \in Threads, StartMedia(t)
        PROVE  [Ownership!Next]_(Ownership!vars)
    <3>1. CASE ~MayStart
      <4>1. /\ ctxDone' = ctxDone /\ ec' = ec
            /\ th' = [th EXCEPT ![t] = Returned] /\ ~th[t].cancel
        BY <2>a, <2>18, <3>1 DEF StartMedia, Return, At, LocalsOK
      <4>2. Quiet
        BY <2>a, <4>1 DEF Returned
      <4>3. QED
        BY <2>c, <4>2
    <3>2. CASE MayStart
      <4>1. /\ slot \in Entries /\ ~ec[slot].cancel /\ slot \notin ctxDone
            /\ \A u \in Threads : th[u].cancel => th[u].m # slot
        BY <2>a, <3>2
        DEF MayStart, EntriesOK, LocalsOK, LiveMediaIsNotCancelled, At
      <4>2. /\ ctxDone' = ctxDone
            /\ \A m \in Entries : ec'[m].cancel <=> ec[m].cancel \/ m = slot
            /\ ~th[t].cancel /\ ~th'[t].cancel
            /\ \A u \in Threads : u # t => th'[u] = th[u]
        BY <2>a, <2>18, <3>2, <4>1
        DEF StartMedia, GotoWith, At, LocalsOK, EntryType, ThreadType
      <4>3. Ownership!Attach(slot)
        <5>1. slot \in Ownership!Fresh
          BY <4>1 DEF Ownership!Fresh
        <5>2. {m \in Entries : ec'[m].cancel}
                = {m \in Entries : ec[m].cancel} \cup {slot}
          BY <4>1, <4>2
        <5>3. {m \in Entries :
                 \E u \in Threads : th'[u].cancel /\ th'[u].m = m}
                = {m \in Entries :
                     \E u \in Threads : th[u].cancel /\ th[u].m = m}
          BY <4>2
        <5>4. {} \in SUBSET {m \in Entries : ec[m].cancel}
          OBVIOUS
        <5>5. QED
          BY <4>2, <5>1, <5>2, <5>3, <5>4 DEF Ownership!Attach
      <4>4. QED
        BY <4>1, <4>3 DEF Ownership!Next, Ownership!Attach
    <3>3. QED
      BY <3>1, <3>2
  <2>19. ASSUME NEW t \in Threads, StartPhase(t)
        PROVE  Quiet
    BY <2>a, <2>b, <2>19
    DEF StartPhase, Return, Returned, At, engineVars, countVars, LocalsOK,
        EntryType, ThreadType
  <2>20. ASSUME NEW t \in Apps, NEW c \in Calls, HangupOrReject(t, c)
        PROVE  [Ownership!Next]_(Ownership!vars)
    BY <2>a, <2>b, <2>d, <2>20 DEF HangupOrReject
  <2>21. ASSUME OnTerminate
        PROVE  [Ownership!Next]_(Ownership!vars)
    BY <2>a, <2>b, <2>d, <2>21 DEF OnTerminate
  <2>22. ASSUME NEW t \in Threads, FinishCancel(t)
        PROVE  [Ownership!Next]_(Ownership!vars)
    <3>1. CASE ~th[t].cancel
      <4>1. Quiet
        BY <2>a, <2>22, <3>1 DEF FinishCancel, engineVars, ThreadType
      <4>2. QED
        BY <2>c, <4>1
    <3>2. CASE th[t].cancel
      <4>1. /\ ctxDone' = ctxDone \cup {th[t].m}
            /\ ec' = ec /\ ~th'[t].cancel
            /\ \A u \in Threads : u # t => th'[u] = th[u]
        BY <2>a, <2>22, <3>2 DEF FinishCancel, engineVars, ThreadType
      <4>2. /\ th[t].m \in Entries
            /\ \A u \in Threads : u # t /\ th[u].cancel => th[u].m # th[t].m
        BY <2>a, <2>22, <3>2 DEF LocalsOK, CancelsOK, FinishCancel, At
      <4>3. Ownership!Cancel(th[t].m)
        BY <3>2, <4>1, <4>2 DEF Ownership!Cancel
      <4>4. QED
        BY <4>2, <4>3 DEF Ownership!Next, Ownership!Cancel
    <3>3. QED
      BY <3>1, <3>2
  <2>23. ASSUME NEW t \in Threads, FinishCheck(t)
        PROVE  Quiet
    <3>1. /\ ctxDone' = ctxDone /\ ~th[t].cancel /\ ec' = ec
          /\ \/ th' = [th EXCEPT ![t] = Returned]
             \/ th' = [th EXCEPT ![t].pc = "finishSet"]
      BY <2>a, <2>23
      DEF FinishCheck, Goto, Return, At, LocalsOK, mediaVars, engineVars
    <3>2. QED
      BY <2>a, <3>1 DEF Returned, ThreadType
  <2>24. ASSUME NEW t \in Threads, FinishSet(t)
        PROVE  Quiet
    BY <2>a, <2>b, <2>24
    DEF FinishSet, Return, Returned, At, engineVars, mediaVars, LocalsOK,
        EntryType, ThreadType
  <2>25. ASSUME NEW m \in Entries, DialDone(m)
        PROVE  Quiet
    BY <2>a, <2>b, <2>25
    DEF DialDone, At, engineVars, callVars, countVars, LocalsOK, EntryType,
        ThreadType
  <2>26. ASSUME NEW m \in Entries, MediaConnected(m)
        PROVE  Quiet
    BY <2>a, <2>b, <2>26
    DEF MediaConnected, At, engineVars, callVars, countVars, LocalsOK,
        EntryType, ThreadType, MediaGoto
  <2>27. ASSUME NEW m \in Entries, MediaSetupFailed(m)
        PROVE  Quiet
    BY <2>a, <2>b, <2>27
    DEF MediaSetupFailed, At, engineVars, callVars, countVars, LocalsOK,
        EntryType, ThreadType
  <2>28. ASSUME NEW m \in Entries, MediaGiveUp(m)
        PROVE  Quiet
    BY <2>a, <2>b, <2>28
    DEF MediaGiveUp, At, engineVars, callVars, countVars, LocalsOK, EntryType,
        ThreadType, MediaGoto
  <2>29. ASSUME NEW m \in Entries, MediaRegister(m)
        PROVE  Quiet
    BY <2>a, <2>b, <2>29
    DEF MediaRegister, At, callVars, countVars, LocalsOK, EntryType,
        ThreadType, MediaGoto
  <2>30. ASSUME NEW m \in Entries, MediaLoop(m)
        PROVE  Quiet
    BY <2>a, <2>b, <2>30
    DEF MediaLoop, At, engineVars, callVars, countVars, LocalsOK, EntryType,
        ThreadType, MediaGoto
  <2>31. ASSUME NEW m \in Entries, MediaPacket(m)
        PROVE  Quiet
    BY <2>a, <2>b, <2>31
    DEF MediaPacket, At, engineVars, callVars, countVars, LocalsOK, EntryType,
        ThreadType
  <2>32. ASSUME NEW m \in Entries, MediaReady(m)
        PROVE  Quiet
    BY <2>a, <2>b, <2>32
    DEF MediaReady, At, engineVars, countVars, LocalsOK, EntryType, ThreadType,
        MediaGoto
  <2>33. ASSUME NEW m \in Entries, MediaRecvError(m)
        PROVE  Quiet
    BY <2>a, <2>b, <2>33
    DEF MediaRecvError, At, engineVars, callVars, countVars, LocalsOK,
        EntryType, ThreadType, MediaGoto
  <2>34. ASSUME NEW m \in Entries, MediaCleanup(m)
        PROVE  Quiet
    BY <2>a, <2>b, <2>34
    DEF MediaCleanup, At, callVars, countVars, LocalsOK, EntryType, ThreadType
  <2>35. ASSUME UNCHANGED vars
        PROVE  Quiet
    BY <2>35 DEF vars, engineVars, mediaVars
  <2>36. QED
    BY <1>2, <2>c, <2>1, <2>2, <2>3, <2>4, <2>5, <2>6, <2>7, <2>8, <2>9, <2>10,
       <2>11, <2>12, <2>13, <2>14, <2>15, <2>16, <2>17, <2>18, <2>19, <2>20,
       <2>21, <2>22, <2>23, <2>24, <2>25, <2>26, <2>27, <2>28, <2>29, <2>30,
       <2>31, <2>32, <2>33, <2>34, <2>35
    DEF Next, AppStart, RecvStart, ThreadStep, RecvStep, MediaStep, RelayStep
<1>3. QED
  BY <1>1, <1>2, EngineInvariant, PTL
  DEF SafetySpec, Ownership!SafetySpec, ImplementsOwnershipSafety
=============================================================================
