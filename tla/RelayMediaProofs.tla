--------------------------- MODULE RelayMediaProofs ---------------------------
(***************************************************************************)
(* Proofs about RelayMedia, for any devices and any number of accepts and  *)
(* registrations: one callback at most runs, and the receivers follow the  *)
(* answering device when there is one.                                     *)
(***************************************************************************)
EXTENDS RelayMedia, TLAPS

\* The initial state.
LEMMA InitTypes == Init => TypeOK
<1> SUFFICES ASSUME Init
             PROVE  TypeOK
  OBVIOUS
<1>1. main \in [at : MainStates, peer : Devices, done : Nat]
  BY DEF Init, MainStates, Devices
<1>2. keys \in [1..Len(Receivers) -> Devices \cup {Nobody}]
  BY DEF Init
<1>3. entry \in EntryType
  BY DEF Init, EntryType, Devices
<1>4. handler \in [at : HandlerStates, peer : Devices \cup {Nobody}, done : Nat]
  BY DEF Init, HandlerStates
<1>5. accept \in AcceptType
  BY DEF Init, AcceptType
<1>6. helper \in [Helpers -> {"off", "on", "pulling", "gone"}]
  BY DEF Init
<1>7. up \in BOOLEAN /\ cancelled \in BOOLEAN /\ caller \in BOOLEAN
  BY DEF Init
<1>8. QED
  BY <1>1, <1>2, <1>3, <1>4, <1>5, <1>6, <1>7 DEF Init, TypeOK

\* Types are kept by every step.
LEMMA TypeStep == TypeOK /\ [Next]_vars => TypeOK'
<1> SUFFICES ASSUME TypeOK, [Next]_vars
             PROVE  TypeOK'
  OBVIOUS
<1>1. ASSUME NEW ok \in BOOLEAN, DialStep(ok)
      PROVE  TypeOK'
  BY <1>1 DEF TypeOK, Devices, MainStates, HandlerStates, Receivers,
    DialStep, Layers, media, call, acceptance
<1>2. ASSUME AwaitDial
      PROVE  TypeOK'
  BY <1>2 DEF TypeOK, Devices, MainStates, HandlerStates, Receivers,
    AwaitDial, Main, relay, call, acceptance
<1>3. ASSUME StartHelpers
      PROVE  TypeOK'
  BY <1>3 DEF TypeOK, Devices, MainStates, HandlerStates, Receivers,
    Helpers, StartHelpers, Main, relay, call, acceptance
<1>4. ASSUME Register
      PROVE  TypeOK'
  <2>1. entry' \in EntryType
    BY <1>4 DEF TypeOK, EntryType, Register
  <2>2. CurrentPeer \in Devices
    BY DEF TypeOK, EntryType, CurrentPeer
  <2>3. main' \in [at : MainStates, peer : Devices, done : Nat]
    BY <1>4, <2>2 DEF MainStates, Register
  <2>4. QED
    BY <1>4, <2>1, <2>3 DEF TypeOK, Register, relay, acceptance
<1>5. ASSUME RekeyOwn
      PROVE  TypeOK'
  <2>0. \E where \in MainStates :
          main' = [main EXCEPT !.done = @ + 1, !.at = where]
    BY <1>5 DEF MainStates, RekeyOwn
  <2>1. main' \in [at : MainStates, peer : Devices, done : Nat]
    <3>1. \E where \in MainStates :
            main' = [at |-> where, peer |-> main.peer, done |-> main.done + 1]
      BY <2>0 DEF TypeOK
    <3>2. QED
      BY <3>1 DEF TypeOK
  <2>2. keys' \in [1..Len(Receivers) -> Devices \cup {Nobody}]
    BY <1>5 DEF TypeOK, RekeyOwn, Rekeyed
  <2>3. QED
    BY <1>5, <2>1, <2>2 DEF TypeOK, RekeyOwn, relay, call, acceptance
<1>6. ASSUME StartReports
      PROVE  TypeOK'
  BY <1>6 DEF TypeOK, Devices, MainStates, HandlerStates, Receivers,
    Helpers, StartReports, Main, relay, call, acceptance
<1>7. ASSUME EndReceive
      PROVE  TypeOK'
  BY <1>7 DEF TypeOK, Devices, MainStates, HandlerStates, Receivers,
    EndReceive, Main, relay, call, acceptance
<1>8. ASSUME Forget
      PROVE  TypeOK'
  <2>1. entry' \in EntryType
    BY <1>8 DEF TypeOK, EntryType, Forget
  <2>2. QED
    BY <1>8, <2>1 DEF TypeOK, Devices, MainStates, HandlerStates, Receivers,
      Forget, Main, relay, acceptance
<1>9. ASSUME CloseChannel
      PROVE  TypeOK'
  BY <1>9 DEF TypeOK, Devices, MainStates, HandlerStates, Receivers,
    CloseChannel, Main, call, acceptance
<1>10. ASSUME GiveUp
      PROVE  TypeOK'
  BY <1>10 DEF TypeOK, Devices, MainStates, HandlerStates, Receivers,
    GiveUp, Main, call, acceptance
<1>11. ASSUME NEW h \in Helpers, Tick(h)
      PROVE  TypeOK'
  BY <1>11 DEF TypeOK, Devices, MainStates, HandlerStates, Receivers,
    Helpers, Tick, relay, call, acceptance
<1>s. ASSUME SendLoop
      PROVE  TypeOK'
  <2>1. \E to \in {"on", "pulling", "gone"} :
          helper' = [helper EXCEPT !["send"] = to]
    BY <1>s DEF SendLoop, SendLoopEnds, Pull, Deliver, Refuse, SendLoopGoes
  <2>2. helper' \in [Helpers -> {"off", "on", "pulling", "gone"}]
    BY <2>1 DEF TypeOK
  <2>3. UNCHANGED <<relay, main, keys, call, acceptance>>
    BY <1>s DEF SendLoop, SendLoopEnds, Pull, Deliver, Refuse, SendLoopGoes
  <2>4. QED
    BY <2>2, <2>3 DEF TypeOK, relay, call, acceptance
<1>12. ASSUME Finish
      PROVE  TypeOK'
  <2>1. entry' \in EntryType
    BY <1>12 DEF TypeOK, EntryType, Finish
  <2>2. cancelled' \in BOOLEAN
    BY <1>12 DEF Finish
  <2>3. QED
    BY <1>12, <2>1, <2>2 DEF TypeOK, Devices, MainStates, HandlerStates,
      Receivers, Finish, relay, media, acceptance
<1>13. ASSUME RelayLost
      PROVE  TypeOK'
  <2>1. up' \in BOOLEAN
    BY <1>13 DEF TypeOK, RelayLost
  <2>2. QED
    BY <1>13, <2>1 DEF TypeOK, Devices, MainStates, HandlerStates,
      Receivers, RelayLost, media, call, acceptance
<1>14. ASSUME NEW d \in Answering, OnAccept(d)
      PROVE  TypeOK'
  <2>1. entry' \in EntryType
    BY <1>14 DEF TypeOK, EntryType, Devices, OnAccept
  <2>2. QED
    BY <1>14, <2>1 DEF TypeOK, Devices, MainStates, HandlerStates,
      Receivers, OnAccept, relay, media
<1>15. ASSUME RekeyAnswering
      PROVE  TypeOK'
  <2>1. handler' \in [at : HandlerStates, peer : Devices \cup {Nobody},
                     done : Nat]
    <3>1. \E where \in HandlerStates :
            handler' = [handler EXCEPT !.done = @ + 1, !.at = where]
      BY <1>15 DEF HandlerStates, RekeyAnswering
    <3>2. \E where \in HandlerStates :
            handler' = [at |-> where, peer |-> handler.peer, done |-> handler.done + 1]
      BY <3>1 DEF TypeOK
    <3>3. QED
      BY <3>2 DEF TypeOK
  <2>2. keys' \in [1..Len(Receivers) -> Devices \cup {Nobody}]
    BY <1>15 DEF TypeOK, RekeyAnswering, Rekeyed
  <2>3. QED
    BY <1>15, <2>1, <2>2 DEF TypeOK, RekeyAnswering, relay, call
<1>16. ASSUME MarkPeerAccepted
      PROVE  TypeOK'
  <2>1. accept' \in AcceptType
    BY <1>16 DEF TypeOK, AcceptType, MarkPeerAccepted, Decided
  <2>2. QED
    BY <1>16, <2>1 DEF TypeOK, Devices, MainStates, HandlerStates,
      Receivers, MarkPeerAccepted, Notifies, Decided, relay, media, call
<1>17. ASSUME NotifyFromHandler
      PROVE  TypeOK'
  BY <1>17 DEF TypeOK, Devices, MainStates, HandlerStates, Receivers,
    NotifyFromHandler, relay, media, call
<1>18. ASSUME NEW fn \in BOOLEAN, OnPeerAccept(fn)
      PROVE  TypeOK'
  <2>1. accept' \in AcceptType
    BY <1>18 DEF TypeOK, AcceptType, OnPeerAccept, Decided
  <2>2. caller' \in BOOLEAN
    BY <1>18 DEF OnPeerAccept, Notifies
  <2>3. QED
    BY <1>18, <2>1, <2>2 DEF TypeOK, Devices, MainStates, HandlerStates,
      Receivers, OnPeerAccept, Notifies, Decided, relay, media, call
<1>19. ASSUME NotifyFromCaller
      PROVE  TypeOK'
  <2>1. caller' \in BOOLEAN
    BY <1>19 DEF TypeOK, NotifyFromCaller
  <2>2. QED
    BY <1>19, <2>1 DEF TypeOK, Devices, MainStates, HandlerStates,
      Receivers, NotifyFromCaller, relay, media, call
<1>20. ASSUME UNCHANGED vars
      PROVE  TypeOK'
  BY <1>20 DEF TypeOK, Devices, MainStates, HandlerStates, Receivers, vars,
    relay, media, call, acceptance
<1>21. QED
  BY <1>1, <1>2, <1>3, <1>4, <1>5, <1>6, <1>7, <1>8, <1>9, <1>10, <1>11,
    <1>s, <1>12, <1>13, <1>14, <1>15, <1>16, <1>17, <1>18, <1>19, <1>20 DEF Next,
    Goroutine, Handler

\* Whoever decides to notify under the lock is the only one to do it.
LEMMA NotifyStep == TypeOK /\ OneNotifier /\ [Next]_vars => OneNotifier'
<1> SUFFICES ASSUME TypeOK, OneNotifier, [Next]_vars
             PROVE  OneNotifier'
  OBVIOUS
<1>1. ASSUME NEW ok \in BOOLEAN, DialStep(ok)
      PROVE  OneNotifier'
  BY <1>1 DEF TypeOK, AcceptType, OneNotifier, NotifiedAtMostOnce, DialStep,
    Layers, media, call, acceptance
<1>2. ASSUME AwaitDial
      PROVE  OneNotifier'
  BY <1>2 DEF TypeOK, AcceptType, OneNotifier, NotifiedAtMostOnce,
    AwaitDial, Main, relay, call, acceptance
<1>3. ASSUME StartHelpers
      PROVE  OneNotifier'
  BY <1>3 DEF TypeOK, AcceptType, OneNotifier, NotifiedAtMostOnce,
    StartHelpers, Main, relay, call, acceptance
<1>4. ASSUME Register
      PROVE  OneNotifier'
  BY <1>4 DEF TypeOK, AcceptType, OneNotifier, NotifiedAtMostOnce, Register,
    CurrentPeer, relay, acceptance
<1>5. ASSUME RekeyOwn
      PROVE  OneNotifier'
  BY <1>5 DEF TypeOK, AcceptType, OneNotifier, NotifiedAtMostOnce, RekeyOwn,
    Rekeyed, relay, call, acceptance
<1>6. ASSUME StartReports
      PROVE  OneNotifier'
  BY <1>6 DEF TypeOK, AcceptType, OneNotifier, NotifiedAtMostOnce,
    StartReports, Main, relay, call, acceptance
<1>7. ASSUME EndReceive
      PROVE  OneNotifier'
  BY <1>7 DEF TypeOK, AcceptType, OneNotifier, NotifiedAtMostOnce,
    EndReceive, Main, relay, call, acceptance
<1>8. ASSUME Forget
      PROVE  OneNotifier'
  BY <1>8 DEF TypeOK, AcceptType, OneNotifier, NotifiedAtMostOnce, Forget,
    Main, relay, acceptance
<1>9. ASSUME CloseChannel
      PROVE  OneNotifier'
  BY <1>9 DEF TypeOK, AcceptType, OneNotifier, NotifiedAtMostOnce,
    CloseChannel, Main, call, acceptance
<1>10. ASSUME GiveUp
      PROVE  OneNotifier'
  BY <1>10 DEF TypeOK, AcceptType, OneNotifier, NotifiedAtMostOnce, GiveUp,
    Main, call, acceptance
<1>11. ASSUME NEW h \in Helpers, Tick(h)
      PROVE  OneNotifier'
  BY <1>11 DEF TypeOK, AcceptType, OneNotifier, NotifiedAtMostOnce, Tick,
    relay, call, acceptance
<1>s. ASSUME SendLoop
      PROVE  OneNotifier'
  <2>1. UNCHANGED <<relay, main, keys, call, acceptance>>
    BY <1>s DEF SendLoop, SendLoopEnds, Pull, Deliver, Refuse, SendLoopGoes
  <2>2. QED
    BY <2>1 DEF OneNotifier, NotifiedAtMostOnce, acceptance
<1>12. ASSUME Finish
      PROVE  OneNotifier'
  BY <1>12 DEF TypeOK, AcceptType, OneNotifier, NotifiedAtMostOnce, Finish,
    relay, media, acceptance
<1>13. ASSUME RelayLost
      PROVE  OneNotifier'
  BY <1>13 DEF TypeOK, AcceptType, OneNotifier, NotifiedAtMostOnce,
    RelayLost, media, call, acceptance
<1>14. ASSUME NEW d \in Answering, OnAccept(d)
      PROVE  OneNotifier'
  BY <1>14 DEF TypeOK, AcceptType, OneNotifier, NotifiedAtMostOnce,
    OnAccept, relay, media
<1>15. ASSUME RekeyAnswering
      PROVE  OneNotifier'
  BY <1>15 DEF TypeOK, AcceptType, OneNotifier, NotifiedAtMostOnce,
    RekeyAnswering, Rekeyed, relay, call
<1>16. ASSUME MarkPeerAccepted
      PROVE  OneNotifier'
  BY <1>16 DEF TypeOK, AcceptType, OneNotifier, NotifiedAtMostOnce,
    MarkPeerAccepted, Notifies, Decided, relay, media, call
<1>17. ASSUME NotifyFromHandler
      PROVE  OneNotifier'
  BY <1>17 DEF TypeOK, AcceptType, OneNotifier, NotifiedAtMostOnce,
    NotifyFromHandler, relay, media, call
<1>18. ASSUME NEW fn \in BOOLEAN, OnPeerAccept(fn)
      PROVE  OneNotifier'
  BY <1>18 DEF TypeOK, AcceptType, OneNotifier, NotifiedAtMostOnce,
    OnPeerAccept, Notifies, Decided, relay, media, call
<1>19. ASSUME NotifyFromCaller
      PROVE  OneNotifier'
  BY <1>19 DEF TypeOK, AcceptType, OneNotifier, NotifiedAtMostOnce,
    NotifyFromCaller, relay, media, call
<1>20. ASSUME UNCHANGED vars
      PROVE  OneNotifier'
  BY <1>20 DEF TypeOK, AcceptType, OneNotifier, NotifiedAtMostOnce, vars,
    relay, media, call, acceptance
<1>21. QED
  BY <1>1, <1>2, <1>3, <1>4, <1>5, <1>6, <1>7, <1>8, <1>9, <1>10, <1>11,
    <1>s, <1>12, <1>13, <1>14, <1>15, <1>16, <1>17, <1>18, <1>19, <1>20 DEF Next,
    Goroutine, Handler

\* The receivers keep following the peer, whichever of runMedia and the handler
\* rekeys them, and how far it has come.
LEMMA KeysStep ==
  OneDeviceAnswers /\ IInv /\ [Next]_vars => IInv'
<1> SUFFICES ASSUME OneDeviceAnswers, IInv, [Next]_vars
             PROVE  IInv'
  OBVIOUS
<1> USE MediaAssumption
<1>t. TypeOK /\ BeforeRegister /\ RekeysForPeer /\ ReceiversFollow
  BY DEF IInv
<1>0. TypeOK'
  BY <1>t, TypeStep
<1>1. ASSUME NEW ok \in BOOLEAN, DialStep(ok)
      PROVE  IInv'
  <2>1. BeforeRegister'
    BY <1>t, <1>1 DEF TypeOK, EntryType, BeforeRegister, DialStep, Layers,
      media, call, acceptance
  <2>2. RekeysForPeer'
    BY <1>t, <1>1 DEF TypeOK, EntryType, BeforeRegister, RekeysForPeer,
      Devices, Receivers, DialStep, Layers, media, call, acceptance
  <2>3. ReceiversFollow'
    BY <1>t, <1>1 DEF TypeOK, EntryType, BeforeRegister, RekeysForPeer,
      ReceiversFollow, Devices, Receivers, DialStep, Layers, media, call,
      acceptance
  <2>4. QED
    BY <1>0, <2>1, <2>2, <2>3 DEF IInv
<1>2. ASSUME AwaitDial
      PROVE  IInv'
  <2>1. BeforeRegister'
    BY <1>t, <1>2 DEF TypeOK, EntryType, BeforeRegister, AwaitDial, Main,
      relay, call, acceptance
  <2>2. RekeysForPeer'
    BY <1>t, <1>2 DEF TypeOK, EntryType, BeforeRegister, RekeysForPeer,
      Devices, Receivers, AwaitDial, Main, relay, call, acceptance
  <2>3. ReceiversFollow'
    BY <1>t, <1>2 DEF TypeOK, EntryType, BeforeRegister, RekeysForPeer,
      ReceiversFollow, Devices, Receivers, AwaitDial, Main, relay, call,
      acceptance
  <2>4. QED
    BY <1>0, <2>1, <2>2, <2>3 DEF IInv
<1>3. ASSUME StartHelpers
      PROVE  IInv'
  <2>1. BeforeRegister'
    BY <1>t, <1>3 DEF TypeOK, EntryType, BeforeRegister, StartHelpers, Main,
      relay, call, acceptance
  <2>2. RekeysForPeer'
    BY <1>t, <1>3 DEF TypeOK, EntryType, BeforeRegister, RekeysForPeer,
      Devices, Receivers, StartHelpers, Main, relay, call, acceptance
  <2>3. ReceiversFollow'
    BY <1>t, <1>3 DEF TypeOK, EntryType, BeforeRegister, RekeysForPeer,
      ReceiversFollow, Devices, Receivers, StartHelpers, Main, relay, call,
      acceptance
  <2>4. QED
    BY <1>0, <2>1, <2>2, <2>3 DEF IInv
<1>4. ASSUME Register
      PROVE  IInv'
  <2>1. BeforeRegister'
    BY <1>t, <1>4 DEF TypeOK, EntryType, BeforeRegister, Register,
      CurrentPeer, relay, acceptance
  <2>2. RekeysForPeer'
    BY <1>t, <1>4 DEF TypeOK, EntryType, BeforeRegister, RekeysForPeer,
      Devices, Receivers, Register, CurrentPeer, relay, acceptance
  <2>3. ReceiversFollow'
    BY <1>t, <1>4 DEF TypeOK, EntryType, BeforeRegister, RekeysForPeer,
      ReceiversFollow, Devices, Receivers, Register, CurrentPeer, relay,
      acceptance
  <2>4. QED
    BY <1>0, <2>1, <2>2, <2>3 DEF IInv
<1>5. ASSUME RekeyOwn
      PROVE  IInv'
  <2>1. BeforeRegister'
    BY <1>t, <1>5 DEF TypeOK, EntryType, BeforeRegister, RekeyOwn, Rekeyed,
      relay, call, acceptance
  <2>2. RekeysForPeer'
    BY <1>t, <1>5 DEF TypeOK, EntryType, BeforeRegister, RekeysForPeer,
      Devices, Receivers, RekeyOwn, Rekeyed, relay, call, acceptance
  <2>3. ReceiversFollow'
    BY <1>t, <1>5 DEF TypeOK, EntryType, BeforeRegister, RekeysForPeer,
      ReceiversFollow, Devices, Receivers, RekeyOwn, Rekeyed, relay, call,
      acceptance
  <2>4. QED
    BY <1>0, <2>1, <2>2, <2>3 DEF IInv
<1>6. ASSUME StartReports
      PROVE  IInv'
  <2>1. BeforeRegister'
    BY <1>t, <1>6 DEF TypeOK, EntryType, BeforeRegister, StartReports, Main,
      relay, call, acceptance
  <2>2. RekeysForPeer'
    BY <1>t, <1>6 DEF TypeOK, EntryType, BeforeRegister, RekeysForPeer,
      Devices, Receivers, StartReports, Main, relay, call, acceptance
  <2>3. ReceiversFollow'
    BY <1>t, <1>6 DEF TypeOK, EntryType, BeforeRegister, RekeysForPeer,
      ReceiversFollow, Devices, Receivers, StartReports, Main, relay, call,
      acceptance
  <2>4. QED
    BY <1>0, <2>1, <2>2, <2>3 DEF IInv
<1>7. ASSUME EndReceive
      PROVE  IInv'
  <2>1. BeforeRegister'
    BY <1>t, <1>7 DEF TypeOK, EntryType, BeforeRegister, EndReceive, Main,
      relay, call, acceptance
  <2>2. RekeysForPeer'
    BY <1>t, <1>7 DEF TypeOK, EntryType, BeforeRegister, RekeysForPeer,
      Devices, Receivers, EndReceive, Main, relay, call, acceptance
  <2>3. ReceiversFollow'
    BY <1>t, <1>7 DEF TypeOK, EntryType, BeforeRegister, RekeysForPeer,
      ReceiversFollow, Devices, Receivers, EndReceive, Main, relay, call,
      acceptance
  <2>4. QED
    BY <1>0, <2>1, <2>2, <2>3 DEF IInv
<1>8. ASSUME Forget
      PROVE  IInv'
  <2>1. BeforeRegister'
    BY <1>t, <1>8 DEF TypeOK, EntryType, BeforeRegister, Forget, Main,
      relay, acceptance
  <2>2. RekeysForPeer'
    BY <1>t, <1>8 DEF TypeOK, EntryType, BeforeRegister, RekeysForPeer,
      Devices, Receivers, Forget, Main, relay, acceptance
  <2>3. ReceiversFollow'
    BY <1>t, <1>8 DEF TypeOK, EntryType, BeforeRegister, RekeysForPeer,
      ReceiversFollow, Devices, Receivers, Forget, Main, relay, acceptance
  <2>4. QED
    BY <1>0, <2>1, <2>2, <2>3 DEF IInv
<1>9. ASSUME CloseChannel
      PROVE  IInv'
  <2>1. BeforeRegister'
    BY <1>t, <1>9 DEF TypeOK, EntryType, BeforeRegister, CloseChannel, Main,
      call, acceptance
  <2>2. RekeysForPeer'
    BY <1>t, <1>9 DEF TypeOK, EntryType, BeforeRegister, RekeysForPeer,
      Devices, Receivers, CloseChannel, Main, call, acceptance
  <2>3. ReceiversFollow'
    BY <1>t, <1>9 DEF TypeOK, EntryType, BeforeRegister, RekeysForPeer,
      ReceiversFollow, Devices, Receivers, CloseChannel, Main, call,
      acceptance
  <2>4. QED
    BY <1>0, <2>1, <2>2, <2>3 DEF IInv
<1>10. ASSUME GiveUp
      PROVE  IInv'
  <2>1. BeforeRegister'
    BY <1>t, <1>10 DEF TypeOK, EntryType, BeforeRegister, GiveUp, Main,
      call, acceptance
  <2>2. RekeysForPeer'
    BY <1>t, <1>10 DEF TypeOK, EntryType, BeforeRegister, RekeysForPeer,
      Devices, Receivers, GiveUp, Main, call, acceptance
  <2>3. ReceiversFollow'
    BY <1>t, <1>10 DEF TypeOK, EntryType, BeforeRegister, RekeysForPeer,
      ReceiversFollow, Devices, Receivers, GiveUp, Main, call, acceptance
  <2>4. QED
    BY <1>0, <2>1, <2>2, <2>3 DEF IInv
<1>11. ASSUME NEW h \in Helpers, Tick(h)
      PROVE  IInv'
  <2>1. BeforeRegister'
    BY <1>t, <1>11 DEF TypeOK, EntryType, BeforeRegister, Tick, relay, call,
      acceptance
  <2>2. RekeysForPeer'
    BY <1>t, <1>11 DEF TypeOK, EntryType, BeforeRegister, RekeysForPeer,
      Devices, Receivers, Tick, relay, call, acceptance
  <2>3. ReceiversFollow'
    BY <1>t, <1>11 DEF TypeOK, EntryType, BeforeRegister, RekeysForPeer,
      ReceiversFollow, Devices, Receivers, Tick, relay, call, acceptance
  <2>4. QED
    BY <1>0, <2>1, <2>2, <2>3 DEF IInv
<1>s. ASSUME SendLoop
      PROVE  IInv'
  <2>0. UNCHANGED <<relay, main, keys, call, acceptance>>
    BY <1>s DEF SendLoop, SendLoopEnds, Pull, Deliver, Refuse, SendLoopGoes
  <2>1. BeforeRegister'
    BY <1>t, <2>0 DEF BeforeRegister, call, acceptance
  <2>2. RekeysForPeer'
    BY <1>t, <2>0 DEF RekeysForPeer, call, acceptance
  <2>3. ReceiversFollow'
    BY <1>t, <2>0 DEF ReceiversFollow, call, acceptance
  <2>4. QED
    BY <1>0, <2>1, <2>2, <2>3 DEF IInv
<1>12. ASSUME Finish
      PROVE  IInv'
  <2>1. BeforeRegister'
    BY <1>t, <1>12 DEF TypeOK, EntryType, BeforeRegister, Finish, relay,
      media, acceptance
  <2>2. RekeysForPeer'
    BY <1>t, <1>12 DEF TypeOK, EntryType, BeforeRegister, RekeysForPeer,
      Devices, Receivers, Finish, relay, media, acceptance
  <2>3. ReceiversFollow'
    BY <1>t, <1>12 DEF TypeOK, EntryType, BeforeRegister, RekeysForPeer,
      ReceiversFollow, Devices, Receivers, Finish, relay, media, acceptance
  <2>4. QED
    BY <1>0, <2>1, <2>2, <2>3 DEF IInv
<1>13. ASSUME RelayLost
      PROVE  IInv'
  <2>1. BeforeRegister'
    BY <1>t, <1>13 DEF TypeOK, EntryType, BeforeRegister, RelayLost, media,
      call, acceptance
  <2>2. RekeysForPeer'
    BY <1>t, <1>13 DEF TypeOK, EntryType, BeforeRegister, RekeysForPeer,
      Devices, Receivers, RelayLost, media, call, acceptance
  <2>3. ReceiversFollow'
    BY <1>t, <1>13 DEF TypeOK, EntryType, BeforeRegister, RekeysForPeer,
      ReceiversFollow, Devices, Receivers, RelayLost, media, call,
      acceptance
  <2>4. QED
    BY <1>0, <2>1, <2>2, <2>3 DEF IInv
<1>14. ASSUME NEW d \in Answering, OnAccept(d)
      PROVE  IInv'
  <2>1. BeforeRegister'
    BY <1>t, <1>14 DEF TypeOK, EntryType, BeforeRegister, OnAccept, relay,
      media
  <2>2. RekeysForPeer'
    BY <1>t, <1>14 DEF TypeOK, EntryType, BeforeRegister, RekeysForPeer,
      Devices, Receivers, OneDeviceAnswers, OnAccept, relay, media
  <2>3. ReceiversFollow'
    BY <1>t, <1>14 DEF TypeOK, EntryType, BeforeRegister, RekeysForPeer,
      ReceiversFollow, Devices, Receivers, OneDeviceAnswers, OnAccept,
      relay, media
  <2>4. QED
    BY <1>0, <2>1, <2>2, <2>3 DEF IInv
<1>15. ASSUME RekeyAnswering
      PROVE  IInv'
  <2>1. BeforeRegister'
    BY <1>t, <1>15 DEF TypeOK, EntryType, BeforeRegister, RekeyAnswering,
      Rekeyed, relay, call
  <2>2. RekeysForPeer'
    BY <1>t, <1>15 DEF TypeOK, EntryType, BeforeRegister, RekeysForPeer,
      Devices, Receivers, RekeyAnswering, Rekeyed, relay, call
  <2>3. ReceiversFollow'
    BY <1>t, <1>15 DEF TypeOK, EntryType, BeforeRegister, RekeysForPeer,
      ReceiversFollow, Devices, Receivers, RekeyAnswering, Rekeyed, relay,
      call
  <2>4. QED
    BY <1>0, <2>1, <2>2, <2>3 DEF IInv
<1>16. ASSUME MarkPeerAccepted
      PROVE  IInv'
  <2>1. BeforeRegister'
    BY <1>t, <1>16 DEF TypeOK, EntryType, BeforeRegister, MarkPeerAccepted,
      Notifies, Decided, relay, media, call
  <2>2. RekeysForPeer'
    BY <1>t, <1>16 DEF TypeOK, EntryType, BeforeRegister, RekeysForPeer,
      Devices, Receivers, MarkPeerAccepted, Notifies, Decided, relay, media,
      call
  <2>3. ReceiversFollow'
    BY <1>t, <1>16 DEF TypeOK, EntryType, BeforeRegister, RekeysForPeer,
      ReceiversFollow, Devices, Receivers, MarkPeerAccepted, Notifies,
      Decided, relay, media, call
  <2>4. QED
    BY <1>0, <2>1, <2>2, <2>3 DEF IInv
<1>17. ASSUME NotifyFromHandler
      PROVE  IInv'
  <2>1. BeforeRegister'
    BY <1>t, <1>17 DEF TypeOK, EntryType, BeforeRegister, NotifyFromHandler,
      relay, media, call
  <2>2. RekeysForPeer'
    BY <1>t, <1>17 DEF TypeOK, EntryType, BeforeRegister, RekeysForPeer,
      Devices, Receivers, NotifyFromHandler, relay, media, call
  <2>3. ReceiversFollow'
    BY <1>t, <1>17 DEF TypeOK, EntryType, BeforeRegister, RekeysForPeer,
      ReceiversFollow, Devices, Receivers, NotifyFromHandler, relay, media,
      call
  <2>4. QED
    BY <1>0, <2>1, <2>2, <2>3 DEF IInv
<1>18. ASSUME NEW fn \in BOOLEAN, OnPeerAccept(fn)
      PROVE  IInv'
  <2>1. BeforeRegister'
    BY <1>t, <1>18 DEF TypeOK, EntryType, BeforeRegister, OnPeerAccept,
      Notifies, Decided, relay, media, call
  <2>2. RekeysForPeer'
    BY <1>t, <1>18 DEF TypeOK, EntryType, BeforeRegister, RekeysForPeer,
      Devices, Receivers, OnPeerAccept, Notifies, Decided, relay, media,
      call
  <2>3. ReceiversFollow'
    BY <1>t, <1>18 DEF TypeOK, EntryType, BeforeRegister, RekeysForPeer,
      ReceiversFollow, Devices, Receivers, OnPeerAccept, Notifies, Decided,
      relay, media, call
  <2>4. QED
    BY <1>0, <2>1, <2>2, <2>3 DEF IInv
<1>19. ASSUME NotifyFromCaller
      PROVE  IInv'
  <2>1. BeforeRegister'
    BY <1>t, <1>19 DEF TypeOK, EntryType, BeforeRegister, NotifyFromCaller,
      relay, media, call
  <2>2. RekeysForPeer'
    BY <1>t, <1>19 DEF TypeOK, EntryType, BeforeRegister, RekeysForPeer,
      Devices, Receivers, NotifyFromCaller, relay, media, call
  <2>3. ReceiversFollow'
    BY <1>t, <1>19 DEF TypeOK, EntryType, BeforeRegister, RekeysForPeer,
      ReceiversFollow, Devices, Receivers, NotifyFromCaller, relay, media,
      call
  <2>4. QED
    BY <1>0, <2>1, <2>2, <2>3 DEF IInv
<1>20. ASSUME UNCHANGED vars
      PROVE  IInv'
  <2>1. BeforeRegister'
    BY <1>t, <1>20 DEF TypeOK, EntryType, BeforeRegister, vars, relay,
      media, call, acceptance
  <2>2. RekeysForPeer'
    BY <1>t, <1>20 DEF TypeOK, EntryType, BeforeRegister, RekeysForPeer,
      Devices, Receivers, vars, relay, media, call, acceptance
  <2>3. ReceiversFollow'
    BY <1>t, <1>20 DEF TypeOK, EntryType, BeforeRegister, RekeysForPeer,
      ReceiversFollow, Devices, Receivers, vars, relay, media, call,
      acceptance
  <2>4. QED
    BY <1>0, <2>1, <2>2, <2>3 DEF IInv
<1>21. QED
  BY <1>1, <1>2, <1>3, <1>4, <1>5, <1>6, <1>7, <1>8, <1>9, <1>10, <1>11,
    <1>s, <1>12, <1>13, <1>14, <1>15, <1>16, <1>17, <1>18, <1>19, <1>20 DEF Next,
    Goroutine, Handler

\* Types in every state the program reaches.
THEOREM RelayTypes == Spec => []TypeOK
BY InitTypes, TypeStep, PTL DEF Spec

\* OnPeerAccept and markPeerAccepted: however the registrations of a callback
\* cross the accepts, two callbacks never run.
THEOREM CallbackRunsOnce == Spec => []NotifiedAtMostOnce
<1>1. Init => OneNotifier
  BY DEF Init, OneNotifier, NotifiedAtMostOnce
<1>2. OneNotifier => NotifiedAtMostOnce
  BY DEF OneNotifier
<1>3. QED
  BY <1>1, <1>2, RelayTypes, NotifyStep, PTL DEF Spec

\* rekeyPeer: once the loop receives, and unless the handler is at it, all five
\* receivers have the key of the device that answered.
THEOREM ReceiversFollowAnswer ==
  ASSUME OneDeviceAnswers
  PROVE  Spec => []KeyedForAnsweringDevice
<1>1. Init => IInv
  BY InitTypes
  DEF Init, IInv, BeforeRegister, RekeysForPeer, ReceiversFollow
<1>2. IInv /\ [Next]_vars => IInv'
  BY OneDeviceAnswers, KeysStep
<1>3. IInv => KeyedForAnsweringDevice
  BY DEF IInv, ReceiversFollow, KeyedForAnsweringDevice
<1>4. QED
  BY <1>1, <1>2, <1>3, PTL DEF Spec
=============================================================================
