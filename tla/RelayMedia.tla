----------------------------- MODULE RelayMedia -----------------------------
(***************************************************************************)
(* The media goroutine of an outgoing call with what it starts             *)
(* (engine_media.go): the dial of the relay (relay/relay.go), its helper   *)
(* goroutines, and the keys of its five receivers, which the handler of    *)
(* the peer's accept changes at the same time (onAccept of engine.go) and  *)
(* after which the application is notified (livecall.go).                  *)
(*                                                                         *)
(* CallEngine has the rest of the call's life.                             *)
(***************************************************************************)
EXTENDS Integers, Sequences

CONSTANTS
  Callee,               \* the device the call is placed to
  Answering,            \* devices that accept it
  Nobody,
  MaxAccepts            \* bound: accepts, and registrations of a callback

ASSUME MediaAssumption == Nobody \notin {Callee} \cup Answering

\* What ConnectRelayMedia puts on top of one another.
Layers == <<"udp", "dtls", "sctp", "datachannel">>

\* What rekeyPeer changes, in this order.
Receivers == <<"rxPipe", "rxVideoPipe", "rxAppDataPipe", "peerAppDataSsrc", "peerRtcp">>

Helpers == {"watchdog", "keepalive", "send", "reports"}

VARIABLES
  open,                 \* layers of the relay stack that are open
  dial,                 \* the dialling goroutine: "going", or its result
  up,                   \* the relay still answers
  main,                 \* runMedia: where it is, and the rekeying it does
  keys,                 \* the device each receiver is keyed for
  helper,               \* its helpers: "off", "on", "pulling" or "gone"
  cancelled,            \* ctx
  entry,                \* the engine's entry: peerLID, rekeyPeer set
  handler,              \* onAccept
  accept,               \* Call.onPeerAccept, peerAccepted, acceptNotified
  caller,               \* the callback the application's own call will run
  times,                \* accepts and registrations so far
  notified              \* history: callbacks that ran

relay == <<open, dial, up>>
media == <<main, keys, helper>>
call == <<cancelled, entry>>
acceptance == <<handler, accept, caller, times, notified>>
vars == <<relay, media, call, acceptance>>

Init ==
  /\ open = 0 /\ dial = "going" /\ up = TRUE
  /\ main = [at |-> "dialling", peer |-> Callee, done |-> 0]
  /\ keys = [i \in 1..Len(Receivers) |-> Nobody]
  /\ helper = [h \in Helpers |-> "off"]
  /\ cancelled = FALSE
  /\ entry = [live |-> TRUE, peerLID |-> Callee, rekeyPeer |-> FALSE]
  /\ handler = [at |-> "idle", peer |-> Nobody, done |-> 0]
  /\ accept = [fn |-> FALSE, accepted |-> FALSE, notified |-> FALSE]
  /\ caller = FALSE
  /\ times = 0 /\ notified = 0

-----------------------------------------------------------------------------
(* The dial.                                                               *)

\* Each layer comes up, or everything below it is closed again.
DialStep(ok) ==
  /\ dial = "going"
  /\ IF ok THEN /\ open' = open + 1
                /\ dial' = IF open' = Len(Layers) THEN "connected" ELSE dial
           ELSE open' = 0 /\ dial' = "failed"
  /\ UNCHANGED <<up, media, call, acceptance>>

Main(where) == main' = [main EXCEPT !.at = where]

\* connectAndAllocate's select; the twelve seconds may pass at any time.
AwaitDial ==
  /\ main.at = "dialling"
  /\ \/ dial = "connected" /\ Main("connected")
     \/ dial = "failed" /\ Main("gone")
     \/ dial = "going" /\ Main("gone")
     \/ cancelled /\ Main("gone")
  /\ UNCHANGED <<relay, keys, helper, call, acceptance>>

\* The channel is given up: the relay's description has no token, key or usable
\* address, the allocate cannot be sent, or a pipeline cannot be made.
GiveUp ==
  /\ main.at \in {"connected", "spawned"}
  /\ open' = 0 /\ Main("gone")
  /\ UNCHANGED <<dial, up, keys, helper, call, acceptance>>

\* The allocate and the ping have gone out; the pipelines are made, and the
\* first three helpers start.
StartHelpers ==
  /\ main.at = "connected"
  /\ Main("spawned")
  /\ keys' = [i \in DOMAIN keys |-> main.peer]
  /\ helper' = [h \in Helpers |-> IF h = "reports" THEN "off" ELSE "on"]
  /\ UNCHANGED <<relay, call, acceptance>>

\* Faulty variant: the peer that was current at the start is taken.
CurrentPeer_AtStart == main.peer

\* The peer of the entry, read when the rekeying function is registered.
CurrentPeer == IF entry.live THEN entry.peerLID ELSE main.peer

Register ==
  /\ main.at = "spawned"
  /\ entry' = [entry EXCEPT !.rekeyPeer = entry.live]
  /\ main' = [at |-> IF CurrentPeer = main.peer THEN "registered" ELSE "rekeying",
              peer |-> CurrentPeer, done |-> 0]
  /\ UNCHANGED <<relay, keys, helper, cancelled, acceptance>>

\* One receiver after the other gets the key of the peer.
Rekeyed(peer, i) == keys' = [keys EXCEPT ![i] = peer]

RekeyOwn ==
  /\ main.at = "rekeying"
  /\ Rekeyed(main.peer, main.done + 1)
  /\ main' = [main EXCEPT !.done = @ + 1,
                          !.at = IF main.done + 1 = Len(Receivers) THEN "registered" ELSE @]
  /\ UNCHANGED <<relay, helper, call, acceptance>>

StartReports ==
  /\ main.at = "registered"
  /\ Main("receiving")
  /\ helper' = [helper EXCEPT !["reports"] = "on"]
  /\ UNCHANGED <<relay, keys, call, acceptance>>

\* A packet comes, and the context is looked at before the next one; or the
\* channel fails, under Recv or under the answer to a binding request.
EndReceive ==
  /\ main.at = "receiving"
  /\ cancelled \/ ~up
  /\ Main("leaving")
  /\ UNCHANGED <<relay, keys, helper, call, acceptance>>

\* The deferred steps: the entry forgets this goroutine, the channel closes.
Forget ==
  /\ main.at = "leaving"
  /\ entry' = [entry EXCEPT !.rekeyPeer = FALSE]
  /\ Main("closing")
  /\ UNCHANGED <<relay, keys, helper, cancelled, acceptance>>

CloseChannel ==
  /\ main.at = "closing"
  /\ open' = 0 /\ Main("gone")
  /\ UNCHANGED <<dial, up, keys, helper, call, acceptance>>

-----------------------------------------------------------------------------
(* The helpers.                                                            *)

SendFails == open = 0 \/ ~up

\* Faulty variant: what cannot be sent is tried again at the next tick.
Ends_OnCancelOnly(h) == cancelled

\* Watchdog, keepalive and reports look at the context, and send; the watchdog
\* looks twice for bytes of the relay and sends nothing.
Ends(h) == cancelled \/ h = "watchdog" \/ SendFails

Tick(h) ==
  /\ h # "send" /\ helper[h] = "on" /\ Ends(h)
  /\ helper' = [helper EXCEPT ![h] = "gone"]
  /\ UNCHANGED <<relay, main, keys, call, acceptance>>

SendLoopGoes(from, to) ==
  /\ helper["send"] = from /\ helper' = [helper EXCEPT !["send"] = to]
  /\ UNCHANGED <<relay, main, keys, call, acceptance>>

\* The send loop looks at the context only between two frames.
SendLoopEnds == cancelled /\ SendLoopGoes("on", "gone")

\* At a tick it asks the player, which may wait in ReadFrame of its source as
\* long as the source likes, or for ever.
Pull == SendLoopGoes("on", "pulling")

\* The frame, or silence, is encoded, sealed and sent;
Deliver == SendLoopGoes("pulling", IF SendFails THEN "gone" ELSE "on")

\* or the encoder refuses it, and the loop goes on.
Refuse == SendLoopGoes("pulling", "on")

SendLoop == SendLoopEnds \/ Pull \/ Deliver \/ Refuse

-----------------------------------------------------------------------------
(* The call's other threads.                                               *)

\* finishCall: the entry goes, and the context is cancelled.
Finish ==
  /\ entry.live
  /\ entry' = [entry EXCEPT !.live = FALSE]
  /\ cancelled' = TRUE
  /\ UNCHANGED <<relay, media, acceptance>>

RelayLost ==
  /\ up /\ up' = FALSE
  /\ UNCHANGED <<open, dial, media, call, acceptance>>

\* onAccept up to its unlock: the rekeying function is taken along when the
\* peer is another one than before.
OnAccept(d) ==
  /\ handler.at = "idle" /\ entry.live
  /\ times < MaxAccepts /\ times' = times + 1
  /\ entry' = [entry EXCEPT !.peerLID = d]
  /\ handler' = [at |-> IF d # entry.peerLID /\ entry.rekeyPeer THEN "rekeying" ELSE "accepted",
                 peer |-> d, done |-> 0]
  /\ UNCHANGED <<relay, media, cancelled, accept, caller, notified>>

RekeyAnswering ==
  /\ handler.at = "rekeying"
  /\ Rekeyed(handler.peer, handler.done + 1)
  /\ handler' = [handler EXCEPT
       !.done = @ + 1,
       !.at = IF handler.done + 1 = Len(Receivers) THEN "accepted" ELSE @]
  /\ UNCHANGED <<relay, main, helper, call, accept, caller, times, notified>>

\* Faulty variant: the decision is not remembered.
Decided_Forgets(a) == a

\* OnPeerAccept and markPeerAccepted decide under the lock which of them
\* notifies, and remember it.
Decided(a) == [a EXCEPT !.notified = @ \/ (a.accepted /\ a.fn)]

Notifies(a) == a.accepted /\ a.fn /\ ~a.notified

MarkPeerAccepted ==
  LET a == [accept EXCEPT !.accepted = TRUE] IN
  /\ handler.at = "accepted"
  /\ accept' = Decided(a)
  /\ handler' = [handler EXCEPT !.at = IF Notifies(a) THEN "notifying" ELSE "idle"]
  /\ UNCHANGED <<relay, media, call, caller, times, notified>>

NotifyFromHandler ==
  /\ handler.at = "notifying"
  /\ notified' = notified + 1
  /\ handler' = [handler EXCEPT !.at = "idle"]
  /\ UNCHANGED <<relay, media, call, accept, caller, times>>

\* The application registers a callback, or none.
OnPeerAccept(fn) ==
  LET a == [accept EXCEPT !.fn = fn] IN
  /\ ~caller /\ times < MaxAccepts /\ times' = times + 1
  /\ accept' = Decided(a)
  /\ caller' = Notifies(a)
  /\ UNCHANGED <<relay, media, call, handler, notified>>

NotifyFromCaller ==
  /\ caller /\ caller' = FALSE
  /\ notified' = notified + 1
  /\ UNCHANGED <<relay, media, call, handler, accept, times>>

-----------------------------------------------------------------------------
Goroutine ==
  \/ AwaitDial \/ StartHelpers \/ Register \/ RekeyOwn \/ StartReports
  \/ EndReceive \/ Forget \/ CloseChannel

Handler == RekeyAnswering \/ MarkPeerAccepted \/ NotifyFromHandler

Next ==
  \/ \E ok \in BOOLEAN : DialStep(ok)
  \/ Goroutine \/ GiveUp
  \/ \E h \in Helpers : Tick(h)
  \/ SendLoop
  \/ Finish \/ RelayLost
  \/ \E d \in Answering : OnAccept(d)
  \/ Handler
  \/ \E fn \in BOOLEAN : OnPeerAccept(fn)
  \/ NotifyFromCaller

\* Every goroutine goes on, the dial has its own timers, the tickers tick.  A
\* source need not give a frame.
Fairness ==
  /\ WF_vars(\E ok \in BOOLEAN : DialStep(ok))
  /\ WF_vars(Goroutine) /\ WF_vars(Handler) /\ WF_vars(NotifyFromCaller)
  /\ \A h \in Helpers : WF_vars(Tick(h))
  /\ WF_vars(Pull)

Spec == Init /\ [][Next]_vars /\ Fairness

-----------------------------------------------------------------------------
(* Properties.                                                             *)

\* rekeyPeer: when the peer answers on another device, before, while or after
\* the media goroutine makes its receivers, all five end with its keys: none
\* keeps those of the device that was called.
KeyedForAnsweringDevice ==
  main.at = "receiving" /\ entry.live /\ handler.at # "rekeying" =>
    \A i \in DOMAIN keys : keys[i] = entry.peerLID

\* The helpers look at the context and at their sends: whichever way runMedia
\* returned, also without a cancel, watchdog, keepalive and reports end.  The send
\* loop can wait for ever for a source that gives nothing more; where frames that
\* can be encoded keep coming when they are asked for, it ends too.
HelpersEnd ==
  /\ main.at = "gone" ~> \A h \in Helpers \ {"send"} : helper[h] # "on"
  /\ SF_vars(Deliver) => (main.at = "gone" ~> helper["send"] \in {"off", "gone"})

\* No two callbacks run.
NotifiedAtMostOnce == notified <= 1

\* OnPeerAccept: one callback runs, and runs once, however the registration
\* crosses the accepts and whichever comes first.
AcceptNotifiedOnce ==
  /\ [](notified <= 1)
  /\ (accept.accepted /\ accept.fn) ~> (notified = 1)

\* RelayMediaChannel: it owns its stack, and the stack is torn down when the
\* media is over.
StackIsTornDown == main.at = "gone" ~> open = 0

-----------------------------------------------------------------------------
(* The inductive invariant, proved in RelayMediaProofs.                    *)

Devices == {Callee} \cup Answering

MainStates ==
  {"dialling", "connected", "spawned", "rekeying", "registered", "receiving",
   "leaving", "closing", "gone"}

HandlerStates == {"idle", "rekeying", "accepted", "notifying"}

EntryType == [live : BOOLEAN, peerLID : Devices, rekeyPeer : BOOLEAN]

AcceptType == [fn : BOOLEAN, accepted : BOOLEAN, notified : BOOLEAN]

TypeOK ==
  /\ open \in Int /\ dial \in {"going", "connected", "failed"} /\ up \in BOOLEAN
  /\ main \in [at : MainStates, peer : Devices, done : Nat]
  /\ keys \in [1..Len(Receivers) -> Devices \cup {Nobody}]
  /\ helper \in [Helpers -> {"off", "on", "pulling", "gone"}]
  /\ cancelled \in BOOLEAN
  /\ entry \in EntryType
  /\ handler \in [at : HandlerStates, peer : Devices \cup {Nobody}, done : Nat]
  /\ accept \in AcceptType
  /\ caller \in BOOLEAN
  /\ times \in Nat /\ notified \in Nat

\* Whoever decided to notify is the only one, and it was remembered.
OneNotifier ==
  /\ ~accept.notified => notified = 0 /\ ~caller /\ handler.at # "notifying"
  /\ caller => handler.at # "notifying"
  /\ caller \/ handler.at = "notifying" => notified = 0
  /\ NotifiedAtMostOnce

\* Before it registers, runMedia has the keys of the callee, and the handler
\* finds nothing to rekey.
BeforeRegister ==
  main.at \in {"dialling", "connected", "spawned"} =>
    /\ main.peer = Callee /\ ~entry.rekeyPeer
    /\ handler.at # "rekeying"

\* Whoever rekeys does it for the peer of the entry, and has at least one
\* receiver left.
RekeysForPeer ==
  /\ main.at = "rekeying" =>
       /\ main.peer = entry.peerLID /\ main.peer # Callee
       /\ main.done < Len(Receivers)
  /\ handler.at = "rekeying" =>
       handler.peer = entry.peerLID /\ handler.done < Len(Receivers)

\* A receiver has the key of the entry's peer, or somebody is about to get to it.
ReceiversFollow ==
  entry.live =>
    /\ main.at = "spawned" => \A i \in DOMAIN keys : keys[i] = Callee
    /\ main.at \in {"rekeying", "registered", "receiving"} =>
         /\ entry.rekeyPeer
         /\ \A i \in DOMAIN keys :
              \/ keys[i] = entry.peerLID
              \/ main.at = "rekeying" /\ i > main.done
              \/ handler.at = "rekeying" /\ i > handler.done

\* The engine does not expect accepts of two devices.
OneDeviceAnswers == \A d, e \in Answering : d = e

NotifyInv == TypeOK /\ OneNotifier

IInv == TypeOK /\ BeforeRegister /\ RekeysForPeer /\ ReceiversFollow
=============================================================================
