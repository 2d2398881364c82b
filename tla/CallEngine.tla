----------------------------- MODULE CallEngine -----------------------------
(***************************************************************************)
(* The life of a call in the engine (engine.go, engine_media.go): the slot *)
(* e.calls[callID], its engineCall objects and Call handles, the deferred  *)
(* accept, the start of media and the teardown.                            *)
(*                                                                         *)
(* The module follows ONE call-id: every handler reads and writes only     *)
(* e.calls[callID], so the slots of different ids do not interact.         *)
(*                                                                         *)
(* Actors: whatsmeow's receive loop (Recv), which runs the event handlers  *)
(* one after the other; the goroutines of the application (Apps); and the  *)
(* media goroutine of each engineCall.  A critical section under e.mu or   *)
(* Call.mu is one action; what a handler does between two critical         *)
(* sections can be overtaken by every other actor.  Sends of stanzas have  *)
(* no effect on the engine's state; only the accept is counted.  Peer      *)
(* rekeying and video are separate views of the same handlers (MediaRekey, *)
(* VideoControl).                                                          *)
(***************************************************************************)
EXTENDS Naturals, FiniteSets

CONSTANTS
  Apps,                 \* application goroutines
  Recv,                 \* the whatsmeow receive loop
  Entries,              \* engineCall objects
  Calls,                \* Call handles
  NoEntry, NoCall,      \* nil pointers
  MaxAnswers            \* bound: no Answer() begins after so many were armed

Threads == Apps \cup {Recv}

ASSUME EngineAssumption ==
  /\ Recv \notin Apps
  /\ NoEntry \notin Entries
  /\ NoCall \notin Calls
  /\ MaxAnswers \in Nat

VARIABLES
  slot,                 \* e.calls[callID]
  made,                 \* Call handles created so far
  used,                 \* engineCall objects created so far
  ec,                   \* fields of the engineCall objects
  phase,                \* Call.phase
  handles,              \* Call handles the application has been given
  peerAccepted,         \* handles on which markPeerAccepted ran
  th,                   \* program counter and locals of every thread
  media,                \* the media goroutine of every engineCall
  ctxDone,              \* media contexts that are cancelled
  ended,                \* how often OnEnd fired for a handle
  answers,              \* how often Answer armed the accept of an engineCall
  accepts               \* how many accept stanzas went out for an engineCall

engineVars == <<slot, made, used, ec>>
callVars == <<phase, handles, peerAccepted>>
mediaVars == <<media, ctxDone>>
countVars == <<ended, answers, accepts>>
vars == <<engineVars, callVars, th, mediaVars, countVars>>

-----------------------------------------------------------------------------
(* CallPhase, in the order of the iota constants (session.go).             *)
Idle == 0
Calling == 1
Ringing == 2
Connecting == 3
Active == 4
Ended == 5
Phases == 0..5

\* A new engineCall{}: started and acceptPending false, cancel and relay nil.
\* The callKey is set together with the call, so its nil test never differs.
\* tx stands for videoTx and appDataTx: the media goroutine they belong to.
EmptyEntry ==
  [call |-> NoCall, out |-> FALSE, relay |-> FALSE, started |-> FALSE,
   cancel |-> FALSE, acceptPending |-> FALSE, tx |-> NoEntry]

\* No operation under way on a thread: nothing held in its locals.
Returned == [pc |-> "idle", m |-> NoEntry, c |-> NoCall, cancel |-> FALSE]

\* A media goroutine that has not been started.  dial is the goroutine
\* connectAndAllocate starts, with the DataChannel it opens; heard says that
\* audio was decoded (rtpIn > 0); late counts the packets the loop handles
\* after its context is cancelled, starts the loops launched for the entry.
NoMedia ==
  [pc |-> "none", call |-> NoCall, dial |-> "none", heard |-> FALSE,
   late |-> 0, starts |-> 0]

Init ==
  /\ slot = NoEntry
  /\ made = {}
  /\ used = {}
  /\ ec = [m \in Entries |-> EmptyEntry]
  /\ phase = [c \in Calls |-> Idle]
  /\ handles = {}
  /\ peerAccepted = {}
  /\ th = [t \in Threads |-> Returned]
  /\ media = [m \in Entries |-> NoMedia]
  /\ ctxDone = {}
  /\ ended = [c \in Calls |-> 0]
  /\ answers = [m \in Entries |-> 0]
  /\ accepts = [m \in Entries |-> 0]

-----------------------------------------------------------------------------
(* Thread steps.                                                           *)

At(t, label) == th[t].pc = label

Goto(t, label) == th' = [th EXCEPT ![t].pc = label]

GotoWith(t, label, m, c) ==
  th' = [th EXCEPT ![t] = [pc |-> label, m |-> m, c |-> c, cancel |-> FALSE]]

Return(t) == th' = [th EXCEPT ![t] = Returned]

\* Faulty variant: the phase is stepped instead of set.
setPhase_Step(c, next) == phase' = [phase EXCEPT ![c] = @ + 1]

\* Call.setPhase: no transition is refused.
setPhase(c, next) == phase' = [phase EXCEPT ![c] = next]

\* e.entry(callID): the engineCall of the slot, a new one if there is none.
EntryFor(m) ==
  \/ slot = m
  \/ slot = NoEntry /\ m \in Entries \ used

-----------------------------------------------------------------------------
(* Placing and receiving a call.                                           *)

\* placeCall registers the call before it sends the offer.  The call-id is
\* freshly drawn, so nothing happened under it yet.
PlaceCall(t, m, c) ==
  /\ t \in Apps /\ At(t, "idle")
  /\ used = {} /\ m \in Entries /\ c \in Calls \ made
  /\ slot' = m /\ used' = used \cup {m} /\ made' = made \cup {c}
  /\ ec' = [ec EXCEPT ![m].call = c, ![m].out = TRUE]
  /\ phase' = [phase EXCEPT ![c] = Calling]
  /\ GotoWith(t, "placeSend", m, c)
  /\ UNCHANGED <<handles, peerAccepted, mediaVars, countVars>>

\* SendNode of the offer: on success the handle is returned; on failure the
\* caller gets an error and the engineCall stays in the table.
PlaceSend(t) ==
  /\ At(t, "placeSend")
  /\ \/ handles' = handles \cup {th[t].c}
     \/ UNCHANGED handles
  /\ Return(t)
  /\ UNCHANGED <<engineVars, phase, peerAccepted, mediaVars, countVars>>

\* onOffer: a new Call in Ringing; the engineCall of the slot is reused with
\* whatever started, cancel and acceptPending it has.  The offer may carry the
\* relay block.  Media is not started here.  The caller draws the id, so no
\* offer comes for an id that placeCall drew.
OnOffer(m, c, hasRelay) ==
  /\ At(Recv, "idle")
  /\ EntryFor(m) /\ c \in Calls \ made
  /\ \A old \in used : ~ec[old].out
  /\ slot' = m /\ used' = used \cup {m} /\ made' = made \cup {c}
  /\ ec' = [ec EXCEPT ![m].call = c, ![m].out = FALSE, ![m].relay = @ \/ hasRelay]
  /\ phase' = [phase EXCEPT ![c] = Ringing]
  /\ GotoWith(Recv, "offerNotify", m, c)
  /\ UNCHANGED <<handles, peerAccepted, mediaVars, countVars>>

\* The end of onOffer: preaccept is sent (a failure is only logged) and the
\* OnIncomingCall listener gets the handle.
OfferNotify ==
  /\ At(Recv, "offerNotify")
  /\ handles' = handles \cup {th[Recv].c}
  /\ Return(Recv)
  /\ UNCHANGED <<engineVars, phase, peerAccepted, mediaVars, countVars>>

-----------------------------------------------------------------------------
(* Answer and the deferred accept.                                         *)

\* answer: the lookup.  An unknown call is an error and changes nothing.
AnswerLookup(t, c) ==
  /\ t \in Apps /\ At(t, "idle")
  /\ c \in handles
  /\ slot # NoEntry
  /\ answers[slot] < MaxAnswers
  /\ GotoWith(t, "answerMark", slot, c)
  /\ UNCHANGED <<engineVars, callVars, mediaVars, countVars>>

\* answer: second critical section, on the engineCall looked up before.
AnswerMark(t) ==
  /\ At(t, "answerMark")
  /\ ec' = [ec EXCEPT ![th[t].m].acceptPending = TRUE]
  /\ answers' = [answers EXCEPT ![th[t].m] = @ + 1]
  /\ Goto(t, "answerPhase")
  /\ UNCHANGED <<slot, made, used, callVars, mediaVars, ended, accepts>>

\* answer: setPhase(Connecting), then maybeStartMedia.
AnswerPhase(t) ==
  /\ At(t, "answerPhase")
  /\ setPhase(th[t].c, Connecting)
  /\ Goto(t, "startMedia")
  /\ UNCHANGED <<engineVars, handles, peerAccepted, mediaVars, countVars>>

\* onCallRaw, mute_v2: the accept path is entered when one is pending.
OnMute ==
  /\ At(Recv, "idle")
  /\ slot # NoEntry
  /\ ec[slot].acceptPending
  /\ Goto(Recv, "sendAccept")
  /\ UNCHANGED <<engineVars, callVars, mediaVars, countVars>>

\* Faulty variant: acceptPending is not cleared.
SendAccept_NoClear ==
  /\ At(Recv, "sendAccept")
  /\ IF slot # NoEntry /\ ec[slot].acceptPending
     THEN GotoWith(Recv, "acceptSend", slot, NoCall)
     ELSE Return(Recv)
  /\ UNCHANGED <<engineVars, callVars, mediaVars, countVars>>

\* sendAccept: test and clear under the lock.
SendAccept ==
  /\ At(Recv, "sendAccept")
  /\ IF slot # NoEntry /\ ec[slot].acceptPending
     THEN /\ ec' = [ec EXCEPT ![slot].acceptPending = FALSE]
          /\ GotoWith(Recv, "acceptSend", slot, NoCall)
     ELSE /\ Return(Recv)
          /\ UNCHANGED ec
  /\ UNCHANGED <<slot, made, used, callVars, mediaVars, countVars>>

\* sendAccept: the stanza goes out; a failed send is logged, not retried.
AcceptSend ==
  /\ At(Recv, "acceptSend")
  /\ \/ accepts' = [accepts EXCEPT ![th[Recv].m] = @ + 1]
     \/ UNCHANGED accepts
  /\ Return(Recv)
  /\ UNCHANGED <<engineVars, callVars, mediaVars, ended, answers>>

-----------------------------------------------------------------------------
(* Relay data and the peer's answers.                                      *)

\* onRelay: from relaylatency, transport, or the ack of the offer.
OnRelay ==
  /\ At(Recv, "idle")
  /\ slot # NoEntry
  /\ ec' = [ec EXCEPT ![slot].relay = TRUE]
  /\ Goto(Recv, "startMedia")
  /\ UNCHANGED <<slot, made, used, callVars, mediaVars, countVars>>

\* onPreAccept: the phase is tested, then set.
OnPreAccept ==
  /\ At(Recv, "idle")
  /\ slot # NoEntry
  /\ ec[slot].out
  /\ phase[ec[slot].call] = Calling
  /\ GotoWith(Recv, "preAcceptSet", slot, ec[slot].call)
  /\ UNCHANGED <<engineVars, callVars, mediaVars, countVars>>

PreAcceptSet ==
  /\ At(Recv, "preAcceptSet")
  /\ setPhase(th[Recv].c, Ringing)
  /\ Return(Recv)
  /\ UNCHANGED <<engineVars, handles, peerAccepted, mediaVars, countVars>>

\* onAccept: lookup and the Ended test.
OnAccept ==
  /\ At(Recv, "idle")
  /\ slot # NoEntry
  /\ ec[slot].out
  /\ phase[ec[slot].call] # Ended
  /\ GotoWith(Recv, "acceptCheck", slot, ec[slot].call)
  /\ UNCHANGED <<engineVars, callVars, mediaVars, countVars>>

\* onAccept: State() < Connecting.
AcceptCheck ==
  /\ At(Recv, "acceptCheck")
  /\ Goto(Recv, IF phase[th[Recv].c] < Connecting THEN "acceptSet" ELSE "acceptMark")
  /\ UNCHANGED <<engineVars, callVars, mediaVars, countVars>>

AcceptSet ==
  /\ At(Recv, "acceptSet")
  /\ setPhase(th[Recv].c, Connecting)
  /\ Goto(Recv, "acceptMark")
  /\ UNCHANGED <<engineVars, handles, peerAccepted, mediaVars, countVars>>

\* onAccept: markPeerAccepted, then maybeStartMedia.
AcceptMark ==
  /\ At(Recv, "acceptMark")
  /\ peerAccepted' = peerAccepted \cup {th[Recv].c}
  /\ Goto(Recv, "startMedia")
  /\ UNCHANGED <<engineVars, phase, handles, mediaVars, countVars>>

-----------------------------------------------------------------------------
(* maybeStartMedia.                                                        *)

\* Faulty variant: the started test is missing.
MayStart_Again == slot # NoEntry /\ ec[slot].relay

\* The early returns of maybeStartMedia's critical section.
MayStart ==
  /\ slot # NoEntry
  /\ ~ec[slot].started
  /\ ec[slot].relay

\* Faulty variant: the entry the caller looked up earlier is started, without
\* looking it up again under the lock.
StartMedia_StaleEntry(t) ==
  LET m == IF th[t].m = NoEntry THEN slot ELSE th[t].m IN
  /\ At(t, "startMedia")
  /\ IF m # NoEntry /\ ~ec[m].started /\ ec[m].relay
     THEN /\ ec' = [ec EXCEPT ![m].started = TRUE, ![m].cancel = TRUE]
          /\ media' = [media EXCEPT ![m].starts = @ + 1]
          /\ GotoWith(t, "startPhase", m, ec[m].call)
     ELSE /\ Return(t)
          /\ UNCHANGED <<ec, media>>
  /\ UNCHANGED <<slot, made, used, callVars, ctxDone, countVars>>

\* The critical section: mark started, create the context, capture the call.
StartMedia(t) ==
  /\ At(t, "startMedia")
  /\ IF MayStart
     THEN /\ ec' = [ec EXCEPT ![slot].started = TRUE, ![slot].cancel = TRUE]
          /\ media' = [media EXCEPT ![slot].starts = @ + 1]
          /\ GotoWith(t, "startPhase", slot, ec[slot].call)
     ELSE /\ Return(t)
          /\ UNCHANGED <<ec, media>>
  /\ UNCHANGED <<slot, made, used, callVars, ctxDone, countVars>>

\* After the unlock: setPhase(Connecting) on the captured call, go runMedia.
\* The goroutine starts dialling the relay at once.
StartPhase(t) ==
  /\ At(t, "startPhase")
  /\ setPhase(th[t].c, Connecting)
  /\ media' = [media EXCEPT ![th[t].m].pc = "connect",
                            ![th[t].m].dial = "pending",
                            ![th[t].m].call = th[t].c]
  /\ Return(t)
  /\ UNCHANGED <<engineVars, handles, peerAccepted, ctxDone, countVars>>

-----------------------------------------------------------------------------
(* finishCall, from Reject, Hangup, or a terminate, reject or error ack.   *)

\* Faulty variant: the entry stays in the table.
FinishTake_KeepEntry(t) ==
  /\ slot # NoEntry
  /\ th' = [th EXCEPT ![t] = [pc |-> "finishCancel", m |-> slot,
                              c |-> ec[slot].call, cancel |-> ec[slot].cancel]]
  /\ ec' = [ec EXCEPT ![slot].cancel = FALSE]
  /\ UNCHANGED <<slot, made, used, callVars, mediaVars, countVars>>

\* Faulty variant: the cancel function is dropped with the entry.
FinishTake_DropCancel(t) ==
  /\ slot # NoEntry
  /\ slot' = NoEntry
  /\ ec' = [ec EXCEPT ![slot].cancel = FALSE]
  /\ GotoWith(t, "finishCancel", slot, ec[slot].call)
  /\ UNCHANGED <<made, used, callVars, mediaVars, countVars>>

\* The critical section: the entry leaves the table with its cancel function.
FinishTake(t) ==
  /\ slot # NoEntry
  /\ slot' = NoEntry
  /\ ec' = [ec EXCEPT ![slot].cancel = FALSE]
  /\ th' = [th EXCEPT ![t] = [pc |-> "finishCancel", m |-> slot,
                              c |-> ec[slot].call, cancel |-> ec[slot].cancel]]
  /\ UNCHANGED <<made, used, callVars, mediaVars, countVars>>

\* Reject and Hangup look the entry up by the handle's call-id.
HangupOrReject(t, c) == t \in Apps /\ At(t, "idle") /\ c \in handles /\ FinishTake(t)

OnTerminate == At(Recv, "idle") /\ FinishTake(Recv)

FinishCancel(t) ==
  /\ At(t, "finishCancel")
  /\ ctxDone' = IF th[t].cancel THEN ctxDone \cup {th[t].m} ELSE ctxDone
  /\ th' = [th EXCEPT ![t].pc = "finishCheck", ![t].cancel = FALSE]
  /\ UNCHANGED <<engineVars, callVars, media, countVars>>

\* Faulty variant: a call that was never Active is not notified.
FinishCheck_OnlyActive(t) ==
  /\ At(t, "finishCheck")
  /\ IF phase[th[t].c] # Active THEN Return(t) ELSE Goto(t, "finishSet")
  /\ UNCHANGED <<engineVars, callVars, mediaVars, countVars>>

\* State() == Ended: nothing more to do.
FinishCheck(t) ==
  /\ At(t, "finishCheck")
  /\ IF phase[th[t].c] = Ended THEN Return(t) ELSE Goto(t, "finishSet")
  /\ UNCHANGED <<engineVars, callVars, mediaVars, countVars>>

\* setPhase(Ended) and the OnEnd listener.
FinishSet(t) ==
  /\ At(t, "finishSet")
  /\ setPhase(th[t].c, Ended)
  /\ ended' = [ended EXCEPT ![th[t].c] = @ + 1]
  /\ Return(t)
  /\ UNCHANGED <<engineVars, handles, peerAccepted, mediaVars, answers, accepts>>

-----------------------------------------------------------------------------
(* The media goroutine of m (runMedia).                                    *)

MediaAt(m, label) == media[m].pc = label

MediaGoto(m, label) == media' = [media EXCEPT ![m].pc = label]

\* ConnectRelayMedia returns, with a channel or an error.  The dialling
\* goroutine delivers its result even when nobody waits for it any more.
DialDone(m) ==
  /\ media[m].dial = "pending"
  /\ \E r \in {"open", "failed"} : media' = [media EXCEPT ![m].dial = r]
  /\ UNCHANGED <<engineVars, callVars, th, ctxDone, countVars>>

\* connectAndAllocate took the channel and allocated.
MediaConnected(m) ==
  /\ MediaAt(m, "connect") /\ media[m].dial = "open"
  /\ MediaGoto(m, "register")
  /\ UNCHANGED <<engineVars, callVars, th, ctxDone, countVars>>

\* A failed dial; no relay token, no key, a bad endpoint, a failed allocate or
\* a pipeline that cannot be keyed: the channel is closed, runMedia returns.
MediaSetupFailed(m) ==
  /\ \/ MediaAt(m, "connect") /\ media[m].dial \in {"open", "failed"}
     \/ MediaAt(m, "register")
  /\ media' = [media EXCEPT ![m].pc = "stopped", ![m].dial = "closed"]
  /\ UNCHANGED <<engineVars, callVars, th, ctxDone, countVars>>

\* 12 s timeout, or the context is cancelled: runMedia returns and never looks
\* at the result of the dial, which select may pass over even if it is there.
MediaGiveUp(m) ==
  /\ MediaAt(m, "connect")
  /\ MediaGoto(m, "stopped")
  /\ UNCHANGED <<engineVars, callVars, th, ctxDone, countVars>>

\* videoTx and appDataTx are registered on whatever entry the slot holds now.
MediaRegister(m) ==
  /\ MediaAt(m, "register")
  /\ ec' = IF slot = NoEntry THEN ec ELSE [ec EXCEPT ![slot].tx = m]
  /\ MediaGoto(m, "loop")
  /\ UNCHANGED <<slot, made, used, callVars, th, ctxDone, countVars>>

\* Faulty variant: the loop does not look at its context.
MediaLoop_NoCheck(m) ==
  /\ MediaAt(m, "loop")
  /\ MediaGoto(m, "recv")
  /\ UNCHANGED <<engineVars, callVars, th, ctxDone, countVars>>

\* Head of the receive loop: the context is tested, then Recv blocks.
MediaLoop(m) ==
  /\ MediaAt(m, "loop")
  /\ MediaGoto(m, IF m \in ctxDone THEN "cleanup" ELSE "recv")
  /\ UNCHANGED <<engineVars, callVars, th, ctxDone, countVars>>

\* Recv returns a packet: one that decodes to the first audio frame leads to
\* the ready step, any other goes round the loop.
MediaPacket(m) ==
  /\ MediaAt(m, "recv")
  /\ \E next \in {"loop"} \cup (IF media[m].heard THEN {} ELSE {"ready"}) :
       media' = [media EXCEPT ![m].pc = next,
                   ![m].heard = @ \/ next = "ready",
                   ![m].late = IF m \in ctxDone THEN @ + 1 ELSE @]
  /\ UNCHANGED <<engineVars, callVars, th, ctxDone, countVars>>

\* The first decoded audio frame: setPhase(Active) and the OnReady listener.
MediaReady(m) ==
  /\ MediaAt(m, "ready")
  /\ setPhase(media[m].call, Active)
  /\ MediaGoto(m, "loop")
  /\ UNCHANGED <<engineVars, handles, peerAccepted, th, ctxDone, countVars>>

\* Recv fails, or the reply to a binding request cannot be sent.
MediaRecvError(m) ==
  /\ MediaAt(m, "recv")
  /\ MediaGoto(m, "cleanup")
  /\ UNCHANGED <<engineVars, callVars, th, ctxDone, countVars>>

\* The deferred functions: handles are cleared on the entry of the slot, the
\* channel is closed.
MediaCleanup(m) ==
  /\ MediaAt(m, "cleanup")
  /\ ec' = IF slot = NoEntry THEN ec ELSE [ec EXCEPT ![slot].tx = NoEntry]
  /\ media' = [media EXCEPT ![m].pc = "stopped", ![m].dial = "closed"]
  /\ UNCHANGED <<slot, made, used, callVars, th, ctxDone, countVars>>

-----------------------------------------------------------------------------
AppStart(t) ==
  \/ \E m \in Entries, c \in Calls : PlaceCall(t, m, c)
  \/ \E c \in Calls : AnswerLookup(t, c) \/ HangupOrReject(t, c)

RecvStart ==
  \/ \E m \in Entries, c \in Calls, r \in BOOLEAN : OnOffer(m, c, r)
  \/ OnMute \/ OnRelay \/ OnPreAccept \/ OnAccept \/ OnTerminate

\* The rest of an operation that has begun.
ThreadStep(t) ==
  \/ PlaceSend(t) \/ AnswerMark(t) \/ AnswerPhase(t)
  \/ StartMedia(t) \/ StartPhase(t)
  \/ FinishCancel(t) \/ FinishCheck(t) \/ FinishSet(t)

RecvStep ==
  \/ OfferNotify \/ SendAccept \/ AcceptSend \/ PreAcceptSet
  \/ AcceptCheck \/ AcceptSet \/ AcceptMark

\* Steps the media goroutine takes by itself; the 12 s timer is one of them.
MediaStep(m) ==
  \/ MediaConnected(m) \/ MediaSetupFailed(m) \/ MediaGiveUp(m)
  \/ MediaRegister(m) \/ MediaLoop(m) \/ MediaReady(m) \/ MediaCleanup(m)

\* What the relay does.
RelayStep(m) == DialDone(m) \/ MediaPacket(m) \/ MediaRecvError(m)

Next ==
  \/ \E t \in Apps : AppStart(t)
  \/ RecvStart
  \/ \E t \in Threads : ThreadStep(t)
  \/ RecvStep
  \/ \E m \in Entries : MediaStep(m) \/ RelayStep(m)

\* Goroutines that have begun an operation carry it on; the environment (the
\* application, the peer, the relay) owes nothing.
Fairness ==
  /\ \A t \in Threads : WF_vars(ThreadStep(t))
  /\ WF_vars(RecvStep)
  /\ \A m \in Entries : WF_vars(MediaStep(m))

SafetySpec == Init /\ [][Next]_vars

Spec == SafetySpec /\ Fairness

-----------------------------------------------------------------------------
(* Properties.                                                             *)

MediaLabels ==
  {"none", "connect", "register", "loop", "recv", "ready", "cleanup", "stopped"}
AppLabels ==
  {"idle", "placeSend", "answerMark", "answerPhase", "startMedia",
   "startPhase", "finishCancel", "finishCheck", "finishSet"}
RecvLabels ==
  {"offerNotify", "sendAccept", "acceptSend", "preAcceptSet", "acceptCheck",
   "acceptSet", "acceptMark"}

EntryType ==
  [call : Calls \cup {NoCall}, out : BOOLEAN, relay : BOOLEAN, started : BOOLEAN,
   cancel : BOOLEAN, acceptPending : BOOLEAN, tx : Entries \cup {NoEntry}]

ThreadType ==
  [pc : AppLabels \cup RecvLabels, m : Entries \cup {NoEntry},
   c : Calls \cup {NoCall}, cancel : BOOLEAN]

MediaType ==
  [pc : MediaLabels, call : Calls \cup {NoCall},
   dial : {"none", "pending", "open", "failed", "closed"},
   heard : BOOLEAN, late : Nat, starts : Nat]

TypeOK ==
  /\ slot \in Entries \cup {NoEntry}
  /\ made \subseteq Calls
  /\ used \subseteq Entries
  /\ ec \in [Entries -> EntryType]
  /\ phase \in [Calls -> Phases]
  /\ handles \subseteq made
  /\ peerAccepted \subseteq made
  /\ th \in [Threads -> ThreadType]
  /\ media \in [Entries -> MediaType]
  /\ ctxDone \subseteq Entries
  /\ ended \in [Calls -> Nat]
  /\ answers \in [Entries -> Nat]
  /\ accepts \in [Entries -> Nat]

\* OnEnd fires at most once for a Call, however hangups, rejects, terminates
\* and error acks race (finishCall takes the entry out under the lock).
OnEndAtMostOnce == \A c \in Calls : ended[c] <= 1

\* maybeStartMedia is "idempotent - the loop starts exactly once per call":
\* onRelay, onAccept and any number of Answers may all reach it.
MediaStartsOnce == \A m \in Entries : media[m].starts <= 1

\* An engineCall that left the table has no media that could go on: its
\* context is cancelled, or the thread that took it out is about to cancel it.
\* No start of media slips in between the take and the cancel.
FinishedMediaIsCancelled ==
  \A m \in used :
    m # slot /\ media[m].starts > 0 =>
      \/ m \in ctxDone
      \/ \E t \in Threads : At(t, "finishCancel") /\ th[t].m = m /\ th[t].cancel

\* A call that is still in the table has not had its media cancelled, and
\* nobody is about to cancel it.
LiveMediaIsNotCancelled ==
  slot # NoEntry =>
    /\ slot \notin ctxDone
    /\ \A t \in Threads : At(t, "finishCancel") => th[t].m # slot

\* A cancelled receive loop handles at most one more packet: the one Recv was
\* waiting for when the context was cancelled.
AtMostOnePacketAfterCancel == \A m \in Entries : media[m].late <= 1

\* Accept stanzas are never ahead of Answers: each one answers a distinct
\* Answer(), none goes out for a call nobody answered, and a mute_v2 that
\* repeats or races with the send does not produce a second one.
AcceptNeedsAnswer == \A m \in Entries : accepts[m] <= answers[m]

\* Whatever ends a call, its OnEnd listener is told: finishCall gets from the
\* removal of the entry to the notification.
FinishedCallIsNotified ==
  \A m \in Entries, c \in Calls :
    (m \in used /\ m # slot /\ ec[m].call = c) ~> (ended[c] = 1)

-----------------------------------------------------------------------------
(* The inductive invariant behind the safety properties.                   *)

\* A thread inside an operation holds what its next step needs.
LocalsOK ==
  \A t \in Threads :
    /\ th[t].pc \in {"answerMark", "startPhase", "finishCancel", "acceptSend"}
         => th[t].m \in used
    /\ th[t].pc \in {"placeSend", "offerNotify", "answerPhase", "answerMark",
                     "startPhase", "preAcceptSet", "acceptCheck", "acceptSet",
                     "acceptMark", "finishCancel", "finishCheck", "finishSet"}
         => th[t].c \in made
    /\ th[t].pc \in RecvLabels => t = Recv
    /\ th[t].cancel => th[t].pc = "finishCancel"

\* Where an engineCall is in its life: unused ones are blank, the one in the
\* table has a call of its own, cancel and the running count follow started.
EntriesOK ==
  /\ slot # NoEntry => slot \in used /\ ec[slot].call \in made
  /\ \A m \in Entries :
       /\ m \notin used => ~ec[m].started /\ m \notin ctxDone
       /\ media[m].starts = IF ec[m].started THEN 1 ELSE 0
       /\ ec[m].cancel <=> (m = slot /\ ec[m].started)

\* Between the critical section of maybeStartMedia and the go statement.
StartsOK ==
  /\ \A m \in Entries : media[m].starts = 0 => media[m].pc = "none"
  /\ \A t \in Threads : At(t, "startPhase") =>
       /\ media[th[t].m].starts = 1
       /\ media[th[t].m].pc = "none"
       /\ \A u \in Threads : At(u, "startPhase") /\ th[u].m = th[t].m => u = t

\* A thread inside finishCall works for a call nobody else can end.
Finishing(t) == th[t].pc \in {"finishCancel", "finishCheck", "finishSet"}

FinishOK ==
  /\ \A c \in Calls \ made : ended[c] = 0
  /\ slot # NoEntry => ended[ec[slot].call] = 0
  /\ \A t \in Threads : Finishing(t) =>
       /\ ended[th[t].c] = 0
       /\ slot # NoEntry => ec[slot].call # th[t].c
       /\ \A u \in Threads : Finishing(u) /\ th[u].c = th[t].c => u = t

\* A cancel function is run by one thread only, and has not run yet.
CancelsOK ==
  \A t \in Threads : th[t].cancel =>
    /\ th[t].m \notin ctxDone
    /\ \A u \in Threads : th[u].cancel /\ th[u].m = th[t].m => u = t

\* The loop waits in Recv only if its context was live when it began to wait.
LateOK ==
  \A m \in Entries : media[m].late > 0 =>
    m \in ctxDone /\ media[m].pc \in {"loop", "ready", "cleanup", "stopped"}

\* Accepts sent, armed and in flight are covered by Answers.
AcceptsCovered ==
  \A m \in Entries :
    accepts[m] + (IF ec[m].acceptPending THEN 1 ELSE 0)
      + (IF At(Recv, "acceptSend") /\ th[Recv].m = m THEN 1 ELSE 0) <= answers[m]

IInv ==
  /\ TypeOK /\ LocalsOK /\ EntriesOK /\ StartsOK /\ FinishOK /\ LateOK
  /\ AcceptsCovered /\ CancelsOK
  /\ OnEndAtMostOnce /\ FinishedMediaIsCancelled /\ LiveMediaIsNotCancelled
  /\ AtMostOnePacketAfterCancel

-----------------------------------------------------------------------------
(* What comments and tests of the repository say and the code does not do: *)
(* each of these is violated (see the findings).                           *)

\* "setPhase advances the call's phase" (livecall.go): it sets any phase.
\* onPreAccept tests for Calling and then sets Ringing, and a call that ends in
\* between rings again; onAccept and maybeStartMedia set Connecting, and the media
\* loop Active, in the same way.
PhaseOnlyAdvances == [][\A c \in Calls : phase'[c] >= phase[c]]_phase

\* sendAccept sends the accept "(once)"; later mute_v2 "must not re-run the
\* accept path on an already-accepted call" (engine.go): a second Answer arms
\* it again.
AcceptSentOnce == \A m \in Entries : accepts[m] <= 1

\* "hangup ends a call and tears down its media" (engine.go): the cancelled
\* goroutine sits in Recv, and its channel stays open, until the relay sends.
HangupStopsMedia ==
  \A m \in Entries :
    (m \in ctxDone /\ media[m].pc # "none") ~> (media[m].pc = "stopped")

\* videoTx is the "video send pipeline, live while media runs" (engineCall):
\* when the id is offered again, the goroutine of the first engineCall
\* registers on, and clears, the fields of the second.
TxLiveWhileMediaRuns ==
  slot # NoEntry /\ media[slot].pc \in {"loop", "recv", "ready"} => ec[slot].tx = slot

-----------------------------------------------------------------------------
\* The engine implements MediaOwnership: the media context of an engineCall is
\* owned while the entry is in the table, then doomed, then cancelled.
Ownership == INSTANCE MediaOwnership WITH
  Tasks  <- Entries,
  owned  <- {m \in Entries : ec[m].cancel},
  doomed <- {m \in Entries : \E t \in Threads : th[t].cancel /\ th[t].m = m},
  dead   <- ctxDone

ImplementsOwnership == Ownership!Spec

\* The part of it that is safety.
ImplementsOwnershipSafety == Ownership!SafetySpec
=============================================================================
