------------------------- MODULE VideoControlProofs -------------------------
(***************************************************************************)
(* Proofs about VideoControl: the keyframe discipline of the sender and    *)
(* the order of its teardown, for any number of application goroutines,    *)
(* any use of the operations and any stanzas of the peer.                  *)
(* Then that sender and flags agree after every operation that ran on its  *)
(* own, and that nothing passes the gate before the peer answers.          *)
(***************************************************************************)
EXTENDS VideoControl, TLAPS

\* What is noted of a request when an operation begins.
LEMMA AskingType ==
  ASSUME TypeOK, NEW t \in Apps, NEW op \in AppOps
  PROVE  Asking(t, op) \in {"none", "asking", "start", "stopping", "stop"}
BY VideoAssumption DEF TypeOK, Asking, Operations

\* The invariant is inductive: what matters is that enable and disable leave a
\* keyframe due whenever frames were withheld (KeyframeDue), and that the
\* sender holds its channel exactly while the receive loop runs (ChannelOK).
LEMMA InvariantStep == IInv /\ [Next]_vars => IInv'
<1> SUFFICES ASSUME IInv, [Next]_vars
             PROVE  IInv'
  OBVIOUS
<1> USE VideoAssumption
<1>t. TypeOK /\ KeyframeDue /\ ChannelOK /\ NoOrphanFrame
  BY DEF IInv
<1>th. /\ th \in [Threads -> ThreadType]
       /\ videoTx \in BOOLEAN /\ inTable \in BOOLEAN
       /\ \A u \in Threads : At(u, "idle") => ~th[u].sender
  BY <1>t DEF TypeOK
<1>vs. vs \in SenderType
  BY <1>t DEF TypeOK
<1>fl. flags \in FlagsType /\ inTable \in BOOLEAN
  BY <1>t DEF TypeOK
<1>1. ASSUME NEW t \in Apps, FrameLookup(t)
      PROVE  IInv'
  <2>1. TypeOK'
    BY <1>t, <1>1
    DEF TypeOK, FlagsType, SenderType, ThreadType, At, Threads, Operations,
        PeerStates, FrameLookup, videoVars, senderVars, history
  <2>2. (KeyframeDue /\ ChannelOK /\ NoOrphanFrame)'
    BY <1>t, <1>1
    DEF TypeOK, SenderType, KeyframeDue, ChannelOK, NoOrphanFrame, FrameLookup,
        senderVars, history
  <2>3. QED
    BY <2>1, <2>2 DEF IInv
<1>2. ASSUME NEW t \in Apps, NEW kind \in {"idr", "delta"}, FrameSend(t, kind)
      PROVE  IInv'
  <2>1. /\ th' \in [Threads -> ThreadType]
        /\ \A u \in Threads : At(u, "idle")' => ~th'[u].sender
    BY <1>th, <1>2
    DEF ThreadType, Threads, At, FrameSend, Return, Returned, videoVars
  <2>2. vs' \in SenderType
    BY <1>vs, <1>2 DEF SenderType, FrameSend
  <2>3. flags' \in FlagsType
    BY <1>fl, <1>2 DEF FlagsType, FrameSend, videoVars
  <2>a. /\ gap' \in BOOLEAN /\ alone' \in BOOLEAN
        /\ wire' \in {"none", "idr", "delta", "orphan"}
    BY <1>t, <1>2 DEF TypeOK, FrameSend
  <2>4. TypeOK'
    BY <1>t, <1>2, <2>1, <2>2, <2>3, <2>a DEF TypeOK, FrameSend, videoVars
  <2>5. (KeyframeDue /\ ChannelOK /\ NoOrphanFrame)'
    BY <1>t, <1>2
    DEF TypeOK, SenderType, KeyframeDue, ChannelOK, NoOrphanFrame, FrameSend,
        Withheld
  <2>6. QED
    BY <2>4, <2>5 DEF IInv
<1>3. ASSUME NEW t \in Apps, NEW op \in AppOps, VideoBegin(t, op)
      PROVE  IInv'
  <2>1. /\ th' \in [Threads -> ThreadType]
        /\ \A u \in Threads : At(u, "idle")' => ~th'[u].sender
    BY <1>th, <1>3
    DEF ThreadType, Threads, At, Operations, VideoBegin, senderVars
  <2>2. vs' \in SenderType
    BY <1>vs, <1>3 DEF SenderType, VideoBegin, enable, disable, senderVars
  <2>3. flags' \in FlagsType
    BY <1>fl, <1>3 DEF FlagsType, Operations, VideoBegin, FlagsAfter
  <2>4. TypeOK'
    BY <1>t, <1>3, <2>1, <2>2, <2>3, AskingType DEF TypeOK, VideoBegin, senderVars, Quiet
  <2>5. (KeyframeDue /\ ChannelOK /\ NoOrphanFrame)'
    BY <1>t, <1>3
    DEF TypeOK, SenderType, KeyframeDue, ChannelOK, NoOrphanFrame, VideoBegin,
        enable, disable, senderVars
  <2>6. QED
    BY <2>4, <2>5 DEF IInv
<1>4. ASSUME NEW t \in Apps, VideoApply(t)
      PROVE  IInv'
  <2>1. /\ th' \in [Threads -> ThreadType]
        /\ \A u \in Threads : At(u, "idle")' => ~th'[u].sender
    BY <1>th, <1>4
    DEF ThreadType, Threads, At, VideoApply, Goto, videoVars, history
  <2>2. vs' \in SenderType
    BY <1>vs, <1>4 DEF SenderType, VideoApply, enable, disable
  <2>3. flags' \in FlagsType
    BY <1>fl, <1>4 DEF FlagsType, VideoApply, videoVars
  <2>4. TypeOK'
    BY <1>t, <1>4, <2>1, <2>2, <2>3 DEF TypeOK, VideoApply, videoVars, history
  <2>5. (KeyframeDue /\ ChannelOK /\ NoOrphanFrame)'
    BY <1>t, <1>4
    DEF TypeOK, SenderType, KeyframeDue, ChannelOK, NoOrphanFrame, VideoApply,
        enable, disable, history
  <2>6. QED
    BY <2>4, <2>5 DEF IInv
<1>5. ASSUME NEW t \in Apps, VideoSent(t)
      PROVE  IInv'
  <2>1. /\ th' \in [Threads -> ThreadType]
        /\ \A u \in Threads : At(u, "idle")' => ~th'[u].sender
    BY <1>th, <1>5
    DEF ThreadType, Threads, At, VideoSent, Return, Returned, videoVars,
        senderVars
  <2>2. vs' \in SenderType
    BY <1>vs, <1>5 DEF SenderType, VideoSent, senderVars
  <2>3. flags' \in FlagsType
    BY <1>fl, <1>5 DEF FlagsType, VideoSent, videoVars
  <2>4. TypeOK'
    BY <1>t, <1>5, <2>1, <2>2, <2>3
    DEF TypeOK, VideoSent, videoVars, senderVars
  <2>5. (KeyframeDue /\ ChannelOK /\ NoOrphanFrame)'
    BY <1>t, <1>5
    DEF TypeOK, SenderType, KeyframeDue, ChannelOK, NoOrphanFrame, VideoSent,
        senderVars
  <2>6. QED
    BY <2>4, <2>5 DEF IInv
<1>6. ASSUME NEW t \in Apps, VideoSendFailed(t)
      PROVE  IInv'
  <2>1. /\ th' \in [Threads -> ThreadType]
        /\ \A u \in Threads : At(u, "idle")' => ~th'[u].sender
    <3>1. CASE th[t].op \in {"stop", "disable"}
      <4>1. th' = [th EXCEPT ![t] = Returned]
        BY <1>6, <3>1 DEF VideoSendFailed, Return
      <4>2. QED
        BY <1>th, <4>1 DEF ThreadType, Threads, At, Returned
    <3>2. CASE th[t].op \notin {"stop", "disable"}
      <4>1. th' = [th EXCEPT ![t].pc = "undo"]
        BY <1>6, <3>2 DEF VideoSendFailed, Goto
      <4>2. th[t] # Returned /\ t \in Threads
        BY <1>6 DEF VideoSendFailed, At, Returned, Threads
      <4>3. QED
        BY <1>th, <4>1, <4>2 DEF ThreadType, At
    <3>3. QED
      BY <3>1, <3>2
  <2>2. vs' \in SenderType
    BY <1>vs, <1>6 DEF SenderType, VideoSendFailed, disable, senderVars
  <2>3. flags' \in FlagsType
    BY <1>fl, <1>6 DEF FlagsType, VideoSendFailed, videoVars
  <2>4. TypeOK'
    BY <1>t, <1>6, <2>1, <2>2, <2>3
    DEF TypeOK, VideoSendFailed, videoVars, senderVars, history
  <2>5. (KeyframeDue /\ ChannelOK /\ NoOrphanFrame)'
    BY <1>t, <1>6
    DEF TypeOK, SenderType, KeyframeDue, ChannelOK, NoOrphanFrame,
        VideoSendFailed, disable, senderVars, history
  <2>6. QED
    BY <2>4, <2>5 DEF IInv
<1>7. ASSUME NEW t \in Apps, VideoUndo(t)
      PROVE  IInv'
  <2>1. /\ th' \in [Threads -> ThreadType]
        /\ \A u \in Threads : At(u, "idle")' => ~th'[u].sender
    BY <1>th, <1>7
    DEF ThreadType, Threads, At, VideoUndo, Goto, senderVars, history
  <2>2. vs' \in SenderType
    BY <1>vs, <1>7 DEF SenderType, VideoUndo, enable, senderVars
  <2>3. flags' \in FlagsType
    BY <1>fl, <1>7 DEF FlagsType, VideoUndo
  <2>4. TypeOK'
    BY <1>t, <1>7, <2>1, <2>2, <2>3 DEF TypeOK, VideoUndo, senderVars, history
  <2>5. (KeyframeDue /\ ChannelOK /\ NoOrphanFrame)'
    BY <1>t, <1>7
    DEF TypeOK, SenderType, KeyframeDue, ChannelOK, NoOrphanFrame, VideoUndo,
        enable, senderVars, history
  <2>6. QED
    BY <2>4, <2>5 DEF IInv
<1>8. ASSUME NEW t \in Apps, VideoUndoSender(t)
      PROVE  IInv'
  <2>1. /\ th' \in [Threads -> ThreadType]
        /\ \A u \in Threads : At(u, "idle")' => ~th'[u].sender
    BY <1>th, <1>8
    DEF ThreadType, Threads, At, VideoUndoSender, Return, Returned, videoVars,
        history
  <2>2. vs' \in SenderType
    BY <1>vs, <1>8 DEF SenderType, VideoUndoSender, disable
  <2>3. flags' \in FlagsType
    BY <1>fl, <1>8 DEF FlagsType, VideoUndoSender, videoVars
  <2>4. TypeOK'
    BY <1>t, <1>8, <2>1, <2>2, <2>3
    DEF TypeOK, VideoUndoSender, videoVars, history
  <2>5. (KeyframeDue /\ ChannelOK /\ NoOrphanFrame)'
    BY <1>t, <1>8
    DEF TypeOK, SenderType, KeyframeDue, ChannelOK, NoOrphanFrame,
        VideoUndoSender, disable, history
  <2>6. QED
    BY <2>4, <2>5 DEF IInv
<1>9. ASSUME NEW state \in Stanzas, OnVideoStanza(state)
      PROVE  IInv'
  <2>a. /\ th' \in [Threads -> ThreadType]
        /\ \A u \in Threads : At(u, "idle")' => ~th'[u].sender
    <3>1. \/ th' = th
          \/ \E op \in {"ungate", "disable"} :
               th' = [th EXCEPT ![Recv] = [pc |-> "apply", op |-> op, sender |-> videoTx]]
      BY <1>9 DEF OnVideoStanza
    <3>2. QED
      BY <1>th, <3>1 DEF ThreadType, Threads, At, Operations
  <2>b. flags' \in FlagsType
    BY <1>fl, <1>9 DEF FlagsType, OnVideoStanza
  <2>c. alone' \in BOOLEAN /\ request' \in {"none", "asking", "start", "stopping", "stop"}
    BY <1>t, <1>9 DEF TypeOK, OnVideoStanza, Answered, Quiet
  <2>1. TypeOK'
    BY <1>t, <1>9, <2>a, <2>b, <2>c DEF TypeOK, OnVideoStanza, senderVars
  <2>2. (KeyframeDue /\ ChannelOK /\ NoOrphanFrame)'
    BY <1>t, <1>9
    DEF TypeOK, SenderType, KeyframeDue, ChannelOK, NoOrphanFrame,
        OnVideoStanza, disable, senderVars
  <2>3. QED
    BY <2>1, <2>2 DEF IInv
<1>10. ASSUME OnVideoAccept
      PROVE  IInv'
  <2>1. /\ th' \in [Threads -> ThreadType]
        /\ \A u \in Threads : At(u, "idle")' => ~th'[u].sender
    BY <1>th, <1>10
    DEF ThreadType, Threads, At, OnVideoAccept, senderVars
  <2>2. vs' \in SenderType
    BY <1>vs, <1>10 DEF SenderType, OnVideoAccept, senderVars
  <2>3. flags' \in FlagsType
    BY <1>fl, <1>10 DEF FlagsType, OnVideoAccept
  <2>4. TypeOK'
    BY <1>t, <1>10, <2>1, <2>2, <2>3 DEF TypeOK, OnVideoAccept, Answered, Quiet, senderVars
  <2>5. (KeyframeDue /\ ChannelOK /\ NoOrphanFrame)'
    BY <1>t, <1>10
    DEF TypeOK, SenderType, KeyframeDue, ChannelOK, NoOrphanFrame,
        OnVideoAccept, senderVars
  <2>6. QED
    BY <2>4, <2>5 DEF IInv
<1>11. ASSUME Announce
      PROVE  IInv'
  <2>1. /\ th' \in [Threads -> ThreadType]
        /\ \A u \in Threads : At(u, "idle")' => ~th'[u].sender
    BY <1>th, <1>11
    DEF ThreadType, Threads, At, Announce, Goto, senderVars, history
  <2>2. vs' \in SenderType
    BY <1>vs, <1>11 DEF SenderType, Announce, disable, senderVars
  <2>3. flags' \in FlagsType
    BY <1>fl, <1>11 DEF FlagsType, Announce
  <2>4. TypeOK'
    BY <1>t, <1>11, <2>1, <2>2, <2>3 DEF TypeOK, Announce, senderVars, history
  <2>5. (KeyframeDue /\ ChannelOK /\ NoOrphanFrame)'
    BY <1>t, <1>11
    DEF TypeOK, SenderType, KeyframeDue, ChannelOK, NoOrphanFrame, Announce,
        disable, senderVars, history
  <2>6. QED
    BY <2>4, <2>5 DEF IInv
<1>12. ASSUME StanzaApply
      PROVE  IInv'
  <2>1. /\ th' \in [Threads -> ThreadType]
        /\ \A u \in Threads : At(u, "idle")' => ~th'[u].sender
    BY <1>th, <1>12
    DEF ThreadType, Threads, At, StanzaApply, Return, Returned, videoVars,
        history
  <2>2. vs' \in SenderType
    BY <1>vs, <1>12 DEF SenderType, StanzaApply, enable, disable
  <2>3. flags' \in FlagsType
    BY <1>fl, <1>12 DEF FlagsType, StanzaApply, videoVars
  <2>4. TypeOK'
    BY <1>t, <1>12, <2>1, <2>2, <2>3
    DEF TypeOK, StanzaApply, videoVars, history
  <2>5. (KeyframeDue /\ ChannelOK /\ NoOrphanFrame)'
    BY <1>t, <1>12
    DEF TypeOK, SenderType, KeyframeDue, ChannelOK, NoOrphanFrame, StanzaApply,
        enable, disable, history
  <2>6. QED
    BY <2>4, <2>5 DEF IInv
<1>13. ASSUME Register
      PROVE  IInv'
  <2>1. TypeOK'
    BY <1>t, <1>13
    DEF TypeOK, FlagsType, SenderType, ThreadType, At, Register, Registers, Quiet
  <2>2. (KeyframeDue /\ ChannelOK /\ NoOrphanFrame)'
    BY <1>t, <1>13
    DEF TypeOK, SenderType, KeyframeDue, ChannelOK, NoOrphanFrame, Register
  <2>3. QED
    BY <2>1, <2>2 DEF IInv
<1>14. ASSUME PeerWantsKeyframe
      PROVE  IInv'
  <2>a. vs' \in SenderType
    BY <1>vs, <1>14 DEF SenderType, PeerWantsKeyframe
  <2>1. TypeOK'
    BY <1>t, <1>14, <2>a DEF TypeOK, At, PeerWantsKeyframe, videoVars
  <2>2. (KeyframeDue /\ ChannelOK /\ NoOrphanFrame)'
    BY <1>t, <1>14
    DEF TypeOK, SenderType, KeyframeDue, ChannelOK, NoOrphanFrame,
        PeerWantsKeyframe
  <2>3. QED
    BY <2>1, <2>2 DEF IInv
<1>15. ASSUME ChannelBreaks
      PROVE  IInv'
  <2>1. TypeOK'
    BY <1>t, <1>15
    DEF TypeOK, FlagsType, SenderType, ThreadType, At, ChannelBreaks,
        videoVars, history
  <2>2. (KeyframeDue /\ ChannelOK /\ NoOrphanFrame)'
    BY <1>t, <1>15
    DEF TypeOK, SenderType, KeyframeDue, ChannelOK, NoOrphanFrame,
        ChannelBreaks, history
  <2>3. QED
    BY <2>1, <2>2 DEF IInv
<1>16. ASSUME DropChannel
      PROVE  IInv'
  <2>1. /\ th' \in [Threads -> ThreadType]
        /\ \A u \in Threads : At(u, "idle")' => ~th'[u].sender
    BY <1>th, <1>16
    DEF ThreadType, Threads, At, DropChannel, videoVars, history
  <2>2. vs' \in SenderType
    BY <1>vs, <1>16 DEF SenderType, DropChannel
  <2>3. flags' \in FlagsType
    BY <1>fl, <1>16 DEF FlagsType, DropChannel, videoVars
  <2>4. TypeOK'
    BY <1>t, <1>16, <2>1, <2>2, <2>3
    DEF TypeOK, DropChannel, videoVars, history
  <2>5. (KeyframeDue /\ ChannelOK /\ NoOrphanFrame)'
    BY <1>t, <1>16
    DEF TypeOK, SenderType, KeyframeDue, ChannelOK, NoOrphanFrame, DropChannel,
        history
  <2>6. QED
    BY <2>4, <2>5 DEF IInv
<1>17. ASSUME Unregister
      PROVE  IInv'
  <2>1. TypeOK'
    BY <1>t, <1>17
    DEF TypeOK, FlagsType, SenderType, ThreadType, At, Unregister, history
  <2>2. (KeyframeDue /\ ChannelOK /\ NoOrphanFrame)'
    BY <1>t, <1>17
    DEF TypeOK, SenderType, KeyframeDue, ChannelOK, NoOrphanFrame, Unregister,
        history
  <2>3. QED
    BY <2>1, <2>2 DEF IInv
<1>18. ASSUME CloseChannel
      PROVE  IInv'
  <2>1. TypeOK'
    BY <1>t, <1>18
    DEF TypeOK, FlagsType, SenderType, ThreadType, At, CloseChannel, videoVars,
        history
  <2>2. (KeyframeDue /\ ChannelOK /\ NoOrphanFrame)'
    BY <1>t, <1>18
    DEF TypeOK, SenderType, KeyframeDue, ChannelOK, NoOrphanFrame,
        CloseChannel, history
  <2>3. QED
    BY <2>1, <2>2 DEF IInv
<1>19. ASSUME Finish
      PROVE  IInv'
  <2>1. /\ th' \in [Threads -> ThreadType]
        /\ \A u \in Threads : At(u, "idle")' => ~th'[u].sender
    BY <1>th, <1>19 DEF ThreadType, Threads, At, Finish, senderVars, history
  <2>2. vs' \in SenderType
    BY <1>vs, <1>19 DEF SenderType, Finish, senderVars
  <2>3. flags' \in FlagsType
    BY <1>fl, <1>19 DEF FlagsType, Finish
  <2>4. TypeOK'
    BY <1>t, <1>19, <2>1, <2>2, <2>3 DEF TypeOK, Finish, senderVars, history
  <2>5. (KeyframeDue /\ ChannelOK /\ NoOrphanFrame)'
    BY <1>t, <1>19
    DEF TypeOK, SenderType, KeyframeDue, ChannelOK, NoOrphanFrame, Finish,
        senderVars, history
  <2>6. QED
    BY <2>4, <2>5 DEF IInv
<1>20. ASSUME UNCHANGED vars
      PROVE  IInv'
  <2>1. TypeOK'
    BY <1>t, <1>20
    DEF TypeOK, FlagsType, SenderType, ThreadType, At, vars, videoVars,
        senderVars, history
  <2>2. (KeyframeDue /\ ChannelOK /\ NoOrphanFrame)'
    BY <1>t, <1>20
    DEF TypeOK, SenderType, KeyframeDue, ChannelOK, NoOrphanFrame, vars,
        senderVars, history
  <2>3. QED
    BY <2>1, <2>2 DEF IInv
<1>21. QED
  BY <1>1, <1>2, <1>3, <1>4, <1>5, <1>6, <1>7, <1>8, <1>9, <1>10, <1>11, <1>12,
     <1>13, <1>14, <1>15, <1>16, <1>17, <1>18, <1>19, <1>20
  DEF Next, AppStep, RecvStep, MediaStep

\* In every state the program reaches, for all values of the constants.
THEOREM VideoInvariant == Spec => []IInv
<1>1. ASSUME Init
      PROVE  IInv
  <2>1. th \in [Threads -> ThreadType] /\ \A t \in Threads : ~th[t].sender
    BY <1>1 DEF Init, ThreadType, Returned
  <2>2. vs \in SenderType /\ flags \in FlagsType
    BY <1>1, VideoAssumption DEF Init, FlagsType, SenderType, NoSender
  <2>3. TypeOK
    BY <1>1, <2>1, <2>2 DEF Init, TypeOK
  <2>4. KeyframeDue /\ ChannelOK /\ NoOrphanFrame
    BY <1>1 DEF Init, NoSender, KeyframeDue, ChannelOK, NoOrphanFrame
  <2>5. QED
    BY <2>3, <2>4 DEF IInv
<1>2. QED
  BY <1>1, InvariantStep, PTL DEF Spec

\* Types, and a thread that returned from an operation holds no sender.
THEOREM VideoTypes == Spec => []TypeOK
BY VideoInvariant, PTL DEF IInv

\* videoSender.enable and disable: the peer never gets a frame that refers to
\* frames that were withheld from it.
THEOREM FramesDecode == Spec => []NoOrphanFrame
BY VideoInvariant, PTL DEF IInv

\* The deferred functions of runMedia: no send reaches a closed channel.
THEOREM ClosedChannelIsUnused == Spec => []NoSendAfterClose
<1>1. IInv => NoSendAfterClose
  BY DEF IInv, ChannelOK, NoSendAfterClose
<1>2. QED
  BY <1>1, VideoInvariant, PTL

-----------------------------------------------------------------------------
(* Sender and flags, and the gate.                                         *)

\* What every step below needs of the state.
LEMMA StateTypes ==
  ASSUME IInv
  PROVE  /\ th \in [Threads -> ThreadType] /\ vs \in SenderType /\ flags \in FlagsType
         /\ videoTx \in BOOLEAN /\ inTable \in BOOLEAN /\ alone \in BOOLEAN
         /\ media \in {"setup", "loop", "clear", "close", "stopped"}
         /\ Apps \subseteq Threads /\ Recv \in Threads /\ Recv \notin Apps
BY VideoAssumption DEF IInv, TypeOK, Threads

\* runMedia registers the sender when its loop starts and clears it behind it.
LEMMA RegisteredStep ==
  ASSUME IInv, Registered, [Next]_vars
  PROVE  Registered'
<1>1. ASSUME NEW t \in Apps, AppStep(t) PROVE Registered'
  BY <1>1
  DEF AppStep, FrameLookup, FrameSend, VideoBegin, VideoApply, VideoSent, VideoSendFailed,
      VideoUndo, VideoUndoSender, Registered, videoVars, senderVars
<1>2. CASE RecvStep
  BY <1>2
  DEF RecvStep, OnVideoStanza, OnVideoAccept, Announce, StanzaApply, Registered,
      videoVars, senderVars
<1>3. CASE MediaStep
  <2>1. CASE Register
    <3>1. media' = "loop" /\ inTable' = inTable /\ (inTable => videoTx' = TRUE)
      BY <2>1, StateTypes DEF Register
    <3>. QED BY <3>1 DEF Registered
  <2>3. CASE Unregister
    <3>1. media' = "close" /\ inTable' = inTable /\ (inTable => videoTx' = FALSE)
      BY <2>3, StateTypes DEF Unregister
    <3>. QED BY <3>1 DEF Registered
  <2>2. CASE PeerWantsKeyframe \/ ChannelBreaks \/ DropChannel \/ CloseChannel
    BY <2>2
    DEF PeerWantsKeyframe, ChannelBreaks, DropChannel, CloseChannel, Registered, videoVars
  <2>. QED BY <1>3, <2>1, <2>2, <2>3 DEF MediaStep
<1>4. CASE Finish \/ UNCHANGED vars
  BY <1>4 DEF Finish, vars, videoVars, senderVars, Registered
<1>. QED BY <1>1, <1>2, <1>3, <1>4 DEF Next

\* A thread is where the operation it began leads.
LEMMA WhoActsStep ==
  ASSUME IInv, WhoActs, [Next]_vars
  PROVE  WhoActs'
<1>1. ASSUME NEW t \in Apps, AppStep(t) PROVE WhoActs'
  <2>1. t \in Threads /\ t # Recv  BY StateTypes
  <2>2. ASSUME NEW op \in AppOps, VideoBegin(t, op) PROVE WhoActs'
    <3>1. op \in Operations  BY VideoAssumption
    <3>2. th' = [th EXCEPT ![t] = [pc |-> "apply", op |-> op, sender |-> videoTx]]
      BY <2>2 DEF VideoBegin
    <3>. QED BY <2>1, <3>1, <3>2, StateTypes DEF WhoActs, Busy, At
  <2>3. CASE FrameLookup(t) \/ (\E kind \in {"idr", "delta"} : FrameSend(t, kind))
             \/ VideoSent(t) \/ VideoUndoSender(t)
    <3>1. th' = [th EXCEPT ![t] = [pc |-> "frame", op |-> "none", sender |-> TRUE]]
          \/ th' = [th EXCEPT ![t] = Returned]
      BY <2>3 DEF FrameLookup, FrameSend, VideoSent, VideoUndoSender, Return
    <3>. QED BY <2>1, <3>1, StateTypes DEF WhoActs, Busy, At, Returned
  <2>4. CASE VideoApply(t) \/ VideoSendFailed(t) \/ VideoUndo(t)
    <3>1. /\ \A s \in Threads : s # t => th'[s] = th[s]
          /\ \/ th'[t] = Returned
             \/ /\ th'[t].pc \in {"send", "undo", "undoSender"}
                /\ th'[t].op = th[t].op
          /\ Busy(t)
      <4>1. CASE VideoApply(t)
        BY <2>1, <4>1, StateTypes DEF VideoApply, Goto, At, Busy, ThreadType
      <4>2. CASE VideoSendFailed(t)
        <5>1. At(t, "send") /\ (th' = [th EXCEPT ![t] = Returned]
                                 \/ th' = [th EXCEPT ![t].pc = "undo"])
          BY <4>2 DEF VideoSendFailed, Goto, Return
        <5>2. CASE th' = [th EXCEPT ![t] = Returned]
          <6>1. th'[t] = Returned /\ \A s \in Threads : s # t => th'[s] = th[s]
            BY <2>1, <5>2, StateTypes
          <6>. QED BY <5>1, <6>1 DEF At, Busy
        <5>3. CASE th' = [th EXCEPT ![t].pc = "undo"]
          BY <2>1, <5>1, <5>3, StateTypes DEF At, Busy, ThreadType
        <5>. QED BY <5>1, <5>2, <5>3
      <4>3. CASE VideoUndo(t)
        BY <2>1, <4>3, StateTypes DEF VideoUndo, Goto, At, Busy, ThreadType
      <4>. QED BY <2>4, <4>1, <4>2, <4>3
    <3>. QED BY <2>1, <3>1, StateTypes DEF WhoActs, Busy, At, Returned
  <2>. QED BY <1>1, <2>2, <2>3, <2>4 DEF AppStep
<1>2. CASE RecvStep
  <2>1. /\ \A s \in Threads : s # Recv => th'[s] = th[s]
        /\ \/ th'[Recv] = th[Recv] \/ th'[Recv] = Returned
           \/ th'[Recv].pc = "apply" /\ th'[Recv].op \in {"ungate", "disable"}
           \/ th'[Recv].pc = "announce" /\ th'[Recv].op = "ungate"
    <3>1. CASE \E state \in Stanzas : OnVideoStanza(state)
      BY <3>1, StateTypes DEF OnVideoStanza
    <3>2. CASE OnVideoAccept  BY <3>2, StateTypes DEF OnVideoAccept
    <3>3. CASE Announce
      BY <3>3, StateTypes DEF Announce, Goto, At, WhoActs, ThreadType
    <3>4. CASE StanzaApply  BY <3>4, StateTypes DEF StanzaApply, Return
    <3>. QED BY <1>2, <3>1, <3>2, <3>3, <3>4 DEF RecvStep
  <2>. QED BY <2>1, StateTypes DEF WhoActs, Busy, At, Returned
<1>3. CASE MediaStep \/ Finish \/ UNCHANGED vars
  <2>1. th' = th
    BY <1>3
    DEF MediaStep, Register, PeerWantsKeyframe, ChannelBreaks, DropChannel, Unregister,
        CloseChannel, Finish, vars
  <2>. QED BY <2>1 DEF WhoActs, Busy, At
<1>. QED BY <1>1, <1>2, <1>3 DEF Next

-----------------------------------------------------------------------------
(* The gate (HeldSinceRequest).                                            *)

\* Steps that begin nothing which turns video on.
LEMMA HeldOn ==
  ASSUME HeldSinceRequest,
         request' \in {"asking", "start"} =>
           /\ request' = request
           /\ inTable' => inTable
           /\ flags'.gate \/ ~flags'.local \/ ~(flags.gate \/ ~flags.local)
           /\ SenderHeld => SenderHeld'
           /\ \A t \in Threads : Busy(t)' =>
                \/ th'[t].op \in {"stop", "disable"}
                \/ /\ Busy(t) /\ th'[t].op = th[t].op
                   /\ At(t, "apply")' => At(t, "apply") /\ th'[t].sender = th[t].sender
                   /\ At(t, "send")' => At(t, "send") \/ SenderHeld'
  PROVE  HeldSinceRequest'
<1> SUFFICES ASSUME request' \in {"asking", "start"}
             PROVE  /\ inTable' => flags'.gate \/ ~flags'.local
                    /\ \A t \in Threads : Busy(t)' => th'[t].op \in {"start", "stop", "disable"}
                    /\ request' = "start" => SenderHeld'
                    /\ request' = "asking" =>
                         \A t \in Threads : Busy(t)' /\ th'[t].op = "start" =>
                           /\ \A u \in Threads : Busy(u)' /\ th'[u].op = "start" => u = t
                           /\ At(t, "apply")' => th'[t].sender \/ SenderHeld'
                           /\ At(t, "send")' => SenderHeld'
  BY DEF HeldSinceRequest
<1>1. /\ inTable' => flags'.gate \/ ~flags'.local
      /\ \A t \in Threads : Busy(t)' => th'[t].op \in {"start", "stop", "disable"}
      /\ request' = "start" => SenderHeld'
  BY DEF HeldSinceRequest
<1>2. ASSUME request' = "asking", NEW t \in Threads, Busy(t)', th'[t].op = "start"
      PROVE  /\ \A u \in Threads : Busy(u)' /\ th'[u].op = "start" => u = t
             /\ At(t, "apply")' => th'[t].sender \/ SenderHeld'
             /\ At(t, "send")' => SenderHeld'
  <2>1. Busy(t) /\ th[t].op = "start"  BY <1>2
  <2>. QED BY <1>2, <2>1 DEF HeldSinceRequest
<1>. QED BY <1>1, <1>2

\* A request closes the gate before it goes out; what else begins meanwhile
\* either turns video off or makes it another question.
LEMMA HeldBegin ==
  ASSUME IInv, FlagsInv, NEW t \in Apps, NEW op \in AppOps, VideoBegin(t, op)
  PROVE  HeldSinceRequest'
<1>1. /\ inTable /\ At(t, "idle") /\ flags' = FlagsAfter(op) /\ request' = Asking(t, op)
      /\ th' = [th EXCEPT ![t] = [pc |-> "apply", op |-> op, sender |-> videoTx]]
      /\ UNCHANGED <<inTable, videoTx, vs, media>>
  BY DEF VideoBegin, senderVars
<1>2. op \in Operations /\ t \in Threads  BY VideoAssumption, StateTypes
<1>3. /\ th'[t] = [pc |-> "apply", op |-> op, sender |-> videoTx]
      /\ \A s \in Threads : s # t => th'[s] = th[s]
  BY <1>1, <1>2, StateTypes
<1>4. SenderHeld' = SenderHeld  BY <1>1 DEF SenderHeld
<1>5. CASE op = "start"
  <2>1. request' \in {"asking", "start"} =>
          request' = "asking" /\ \A u \in Threads \ {t} : Busy(u) => th[u].op \in {"stop", "disable"}
    BY <1>1, <1>5 DEF Asking
  <2>2. flags'.gate  BY <1>1, <1>5, StateTypes DEF FlagsAfter, FlagsType
  <2>3. videoTx \/ SenderHeld  BY <1>1 DEF FlagsInv, Registered, SenderHeld
  <2>4. ASSUME request' = "asking", NEW s \in Threads, Busy(s)'
        PROVE  /\ th'[s].op \in {"start", "stop", "disable"}
               /\ th'[s].op = "start" => s = t
    BY <1>3, <1>5, <2>1, <2>4 DEF Busy
  <2>5. th'[t].sender \/ SenderHeld'  BY <1>3, <1>4, <2>3
  <2>6. ~At(t, "send")'  BY <1>3 DEF At
  <2>. QED BY <2>1, <2>2, <2>4, <2>5, <2>6 DEF HeldSinceRequest
<1>6. CASE op \in {"stop", "disable"}
  <2>1. request' \in {"asking", "start"} => request' = request
    BY <1>1, <1>6 DEF Asking
  <2>2. ~flags'.local  BY <1>1, <1>6, StateTypes DEF FlagsAfter, FlagsType
  <2>3. ASSUME NEW s \in Threads, Busy(s)'
        PROVE  th'[s].op \in {"stop", "disable"} \/ th'[s] = th[s]
    BY <1>3, <1>6
  <2>. QED BY <1>1, <1>4, <2>1, <2>2, <2>3, HeldOn DEF FlagsInv, Busy, At
<1>7. CASE op \in {"accept", "enable"}
  <2>1. request' = "none"  BY <1>1, <1>7 DEF Asking
  <2>. QED BY <2>1 DEF HeldSinceRequest
<1>. QED BY <1>2, <1>5, <1>6, <1>7 DEF Operations

\* The steps of an operation under way.
LEMMA HeldUnderWay ==
  ASSUME IInv, FlagsInv, NEW t \in Apps,
         VideoApply(t) \/ VideoSent(t) \/ VideoSendFailed(t) \/ VideoUndo(t) \/ VideoUndoSender(t)
  PROVE  HeldSinceRequest'
<1>1. t \in Threads  BY StateTypes
<1>2. CASE VideoApply(t)
  <2>1. /\ At(t, "apply") /\ th' = [th EXCEPT ![t].pc = "send"]
        /\ UNCHANGED <<flags, inTable, media, request>>
    BY <1>2 DEF VideoApply, Goto, videoVars, history
  <2>2. /\ th'[t].pc = "send" /\ th'[t].op = th[t].op
        /\ \A s \in Threads : s # t => th'[s] = th[s]
    BY <1>1, <2>1, StateTypes DEF ThreadType
  <2>3. ASSUME request \in {"asking", "start"}
        PROVE  /\ SenderHeld => SenderHeld'
               /\ th[t].op \in {"stop", "disable"} \/ SenderHeld'
    <3>1. Busy(t) /\ th[t].op \in {"start", "stop", "disable"}
      BY <1>1, <2>1, <2>3 DEF Busy, At, FlagsInv, HeldSinceRequest
    <3>2. CASE th[t].sender
      <4>1. ~vs'.active \/ vs'.gated
        BY <1>2, <3>1, <3>2, StateTypes DEF VideoApply, enable, disable, SenderType
      <4>. QED BY <4>1 DEF SenderHeld
    <3>3. CASE ~th[t].sender
      <4>1. SenderHeld' = SenderHeld  BY <1>2, <2>1, <3>3 DEF VideoApply, SenderHeld
      <4>2. th[t].op = "start" => SenderHeld
        BY <1>1, <2>1, <2>3, <3>1, <3>3 DEF FlagsInv, HeldSinceRequest
      <4>. QED BY <3>1, <4>1, <4>2
    <3>. QED BY <3>2, <3>3
  <2>4. Busy(t)  BY <2>1 DEF Busy, At
  <2>. QED BY <2>1, <2>2, <2>3, <2>4, HeldOn DEF FlagsInv, Busy, At
<1>3. CASE VideoSent(t)
  <2>1. /\ At(t, "send") /\ th' = [th EXCEPT ![t] = Returned]
        /\ UNCHANGED <<flags, inTable, media, vs>>
    BY <1>3 DEF VideoSent, Return, videoVars, senderVars
  <2>2. th'[t] = Returned /\ \A s \in Threads : s # t => th'[s] = th[s]
    BY <1>1, <2>1, StateTypes
  <2>3. ~Busy(t)' /\ SenderHeld' = SenderHeld
    BY <2>1, <2>2 DEF Busy, Returned, SenderHeld
  <2>4. CASE request' = request
    BY <2>1, <2>2, <2>3, <2>4, HeldOn DEF FlagsInv, Busy, At
  <2>5. CASE request' # request
    <3>1. request' = "stop" \/ (request = "asking" /\ request' = "start" /\ th[t].op = "start")
      BY <1>3, <2>5 DEF VideoSent
    <3>2. request' = "start" => SenderHeld
      BY <1>1, <2>1, <3>1 DEF Busy, At, FlagsInv, HeldSinceRequest
    <3>3. request' = "start" =>
            /\ inTable => flags.gate \/ ~flags.local
            /\ \A s \in Threads : Busy(s)' => th'[s].op \in {"start", "stop", "disable"}
      BY <2>2, <2>3, <3>1 DEF FlagsInv, HeldSinceRequest, Busy
    <3>. QED BY <2>1, <2>3, <3>1, <3>2, <3>3 DEF HeldSinceRequest
  <2>. QED BY <2>4, <2>5
<1>4. CASE VideoSendFailed(t)
  <2>1. /\ At(t, "send") /\ UNCHANGED <<flags, inTable, media, vs, request>>
        /\ th' = [th EXCEPT ![t] = Returned] \/ th' = [th EXCEPT ![t].pc = "undo"]
    BY <1>4 DEF VideoSendFailed, Return, Goto, videoVars, senderVars, history
  <2>2. /\ th'[t] = Returned \/ (th'[t].pc = "undo" /\ th'[t].op = th[t].op)
        /\ \A s \in Threads : s # t => th'[s] = th[s]
    BY <1>1, <2>1, StateTypes DEF ThreadType
  <2>3. Busy(t) /\ SenderHeld' = SenderHeld  BY <2>1 DEF Busy, At, SenderHeld
  <2>. QED BY <2>1, <2>2, <2>3, HeldOn DEF FlagsInv, Busy, At, Returned
<1>5. CASE VideoUndo(t)
  <2>1. /\ At(t, "undo") /\ UNCHANGED <<inTable, media, vs, request>>
    BY <1>5 DEF VideoUndo, senderVars, history
  <2>2. /\ th'[t].pc = "undoSender" /\ th'[t].op = th[t].op
        /\ \A s \in Threads : s # t => th'[s] = th[s]
    <3>1. CASE th[t].op = "enable"
      BY <1>1, <1>5, <3>1, StateTypes DEF VideoUndo, Goto, ThreadType
    <3>2. CASE th[t].op # "enable"
      BY <1>1, <1>5, <3>2, StateTypes DEF VideoUndo, ThreadType
    <3>. QED BY <3>1, <3>2
  <2>3. flags' = flags \/ ~flags'.local
    BY <1>5, StateTypes DEF VideoUndo, FlagsType
  <2>4. Busy(t) /\ SenderHeld' = SenderHeld  BY <2>1 DEF Busy, At, SenderHeld
  <2>. QED BY <2>1, <2>2, <2>3, <2>4, HeldOn DEF FlagsInv, Busy, At
<1>6. CASE VideoUndoSender(t)
  <2>1. /\ UNCHANGED <<flags, inTable, media, request>> /\ th' = [th EXCEPT ![t] = Returned]
        /\ vs' = vs \/ ~vs'.active
    BY <1>6, StateTypes DEF VideoUndoSender, Return, disable, SenderType, videoVars, history
  <2>2. th'[t] = Returned /\ \A s \in Threads : s # t => th'[s] = th[s]
    BY <1>1, <2>1, StateTypes
  <2>3. ~Busy(t)' /\ (SenderHeld => SenderHeld')
    BY <2>1, <2>2 DEF Busy, Returned, SenderHeld
  <2>. QED BY <2>1, <2>2, <2>3, HeldOn DEF FlagsInv, Busy, At
<1>. QED BY <1>2, <1>3, <1>4, <1>5, <1>6

\* The peer's stanzas: an answer is the end of the request, and a stanza that
\* turns nothing on leaves it held.
LEMMA HeldStanza ==
  ASSUME IInv, FlagsInv, RecvStep
  PROVE  HeldSinceRequest'
<1>1. Recv \in Threads  BY StateTypes
<1>2. ASSUME NEW state \in Stanzas, OnVideoStanza(state) PROVE HeldSinceRequest'
  <2>1. CASE state = "enabled"
    <3>1. request' \notin {"asking", "start"}  BY <1>2, <2>1 DEF OnVideoStanza, Answered
    <3>. QED BY <3>1 DEF HeldSinceRequest
  <2>2. CASE state # "enabled"
    <3>1. /\ request' = request /\ inTable' = inTable /\ UNCHANGED <<vs, media>>
          /\ flags'.local => flags.local /\ flags'.gate = flags.gate
          /\ \/ th' = th
             \/ th' = [th EXCEPT ![Recv] = [pc |-> "apply", op |-> "disable", sender |-> videoTx]]
      BY <1>2, <2>2, StateTypes DEF OnVideoStanza, FlagsType, senderVars
    <3>2. \A s \in Threads : th'[s] = th[s] \/ th'[s].op = "disable"
      BY <1>1, <3>1, StateTypes
    <3>3. SenderHeld' = SenderHeld  BY <3>1 DEF SenderHeld
    <3>. QED BY <3>1, <3>2, <3>3, HeldOn DEF FlagsInv, Busy, At
  <2>. QED BY <2>1, <2>2
<1>3. CASE OnVideoAccept
  <2>1. request' \notin {"asking", "start"}  BY <1>3 DEF OnVideoAccept, Answered
  <2>. QED BY <2>1 DEF HeldSinceRequest
<1>4. CASE Announce
  <2>1. request' = request /\ At(Recv, "announce")  BY <1>4 DEF Announce, history
  <2>2. Busy(Recv) /\ th[Recv].op = "ungate"  BY <2>1 DEF Busy, At, FlagsInv, WhoActs
  <2>3. request \notin {"asking", "start"}  BY <1>1, <2>2 DEF FlagsInv, HeldSinceRequest
  <2>. QED BY <2>1, <2>3 DEF HeldSinceRequest
<1>5. CASE StanzaApply
  <2>1. /\ At(Recv, "apply") /\ th' = [th EXCEPT ![Recv] = Returned]
        /\ UNCHANGED <<flags, inTable, media, request>>
    BY <1>5 DEF StanzaApply, Return, videoVars, history
  <2>2. th'[Recv] = Returned /\ \A s \in Threads : s # Recv => th'[s] = th[s]
    BY <1>1, <2>1, StateTypes
  <2>3. Busy(Recv) /\ ~Busy(Recv)'  BY <2>1, <2>2 DEF Busy, At, Returned
  <2>4. ASSUME request \in {"asking", "start"} PROVE SenderHeld => SenderHeld'
    <3>1. th[Recv].op # "ungate"  BY <1>1, <2>3, <2>4 DEF FlagsInv, HeldSinceRequest
    <3>2. vs' = vs \/ ~vs'.active
      BY <1>5, <3>1, StateTypes DEF StanzaApply, disable, SenderType
    <3>. QED BY <2>1, <3>2 DEF SenderHeld
  <2>. QED BY <2>1, <2>2, <2>3, <2>4, HeldOn DEF FlagsInv, Busy, At
<1>. QED BY <1>2, <1>3, <1>4, <1>5 DEF RecvStep

\* Frames, the media goroutine and the end of the call: a sender that registers
\* takes over flags that are closed.
LEMMA HeldRest ==
  ASSUME IInv, FlagsInv,
         MediaStep \/ Finish \/ UNCHANGED vars
         \/ \E t \in Apps : FrameLookup(t) \/ \E kind \in {"idr", "delta"} : FrameSend(t, kind)
  PROVE  HeldSinceRequest'
<1>1. CASE \E t \in Apps : FrameLookup(t) \/ \E kind \in {"idr", "delta"} : FrameSend(t, kind)
  <2>1. PICK t \in Apps : FrameLookup(t) \/ \E kind \in {"idr", "delta"} : FrameSend(t, kind)
    BY <1>1
  <2>2. UNCHANGED <<flags, request, inTable, media>>
        /\ vs'.active = vs.active /\ vs'.gated = vs.gated
    BY <2>1, StateTypes
    DEF FrameLookup, FrameSend, videoVars, senderVars, history, SenderType
  <2>3. /\ \A s \in Threads : s # t => th'[s] = th[s]
        /\ ~Busy(t)'
    BY <2>1, StateTypes DEF FrameLookup, FrameSend, Return, Returned, Busy
  <2>4. SenderHeld' = SenderHeld  BY <2>2 DEF SenderHeld
  <2>. QED BY <2>2, <2>3, <2>4, HeldOn DEF FlagsInv, Busy, At
<1>2. CASE MediaStep \/ Finish \/ UNCHANGED vars
  <2>1. UNCHANGED <<flags, th, request>> /\ (inTable' => inTable)
    BY <1>2
    DEF MediaStep, Register, PeerWantsKeyframe, ChannelBreaks, DropChannel, Unregister,
        CloseChannel, Finish, vars, videoVars, senderVars, history
  <2>2. request \in {"asking", "start"} /\ SenderHeld => SenderHeld'
    <3>1. CASE Register
      <4>1. vs'.active = (inTable /\ flags.local) /\ vs'.gated = (inTable /\ flags.gate)
        BY <3>1 DEF Register
      <4>. QED BY <4>1, StateTypes DEF SenderHeld, FlagsInv, HeldSinceRequest
    <3>2. CASE ~Register
      <4>1. /\ vs'.active = vs.active /\ vs'.gated = vs.gated
            /\ media' = "loop" => media = "loop"
        BY <1>2, <3>2, StateTypes
        DEF MediaStep, PeerWantsKeyframe, ChannelBreaks, DropChannel, Unregister,
            CloseChannel, Finish, vars, senderVars, SenderType
      <4>. QED BY <4>1 DEF SenderHeld
    <3>. QED BY <3>1, <3>2
  <2>. QED BY <2>1, <2>2, HeldOn DEF FlagsInv, Busy, At
<1>. QED BY <1>1, <1>2

LEMMA HeldStep ==
  ASSUME IInv, FlagsInv, [Next]_vars
  PROVE  HeldSinceRequest'
<1>1. ASSUME NEW t \in Apps, AppStep(t) PROVE HeldSinceRequest'
  <2>1. CASE \E op \in AppOps : VideoBegin(t, op)  BY <2>1, HeldBegin
  <2>2. CASE VideoApply(t) \/ VideoSent(t) \/ VideoSendFailed(t) \/ VideoUndo(t)
             \/ VideoUndoSender(t)
    BY <2>2, HeldUnderWay
  <2>3. CASE FrameLookup(t) \/ \E kind \in {"idr", "delta"} : FrameSend(t, kind)
    BY <2>3, HeldRest
  <2>. QED BY <1>1, <2>1, <2>2, <2>3 DEF AppStep
<1>. QED BY <1>1, HeldStanza, HeldRest DEF Next

-----------------------------------------------------------------------------
(* Agreement of sender and flags (AloneOK).                                *)

\* An operation that begins while no other is under way need not know what the
\* ones before it left.
LEMMA AloneBegins ==
  ASSUME IInv, Quiet, inTable' = inTable, videoTx' = videoTx,
         NEW t \in Threads, NEW pc \in {"apply", "announce"}, NEW op,
         th' = [th EXCEPT ![t] = [pc |-> pc, op |-> op, sender |-> videoTx]],
         flags'.local <=> op \notin {"stop", "disable"},
         flags'.gate <=> op = "start"
  PROVE  AloneOK'
<1>1. /\ th'[t] = [pc |-> pc, op |-> op, sender |-> videoTx]
      /\ \A s \in Threads : s # t => ~Busy(s) /\ ~Busy(s)'
  BY StateTypes DEF Quiet, Busy
<1>2. OneOperation'  BY <1>1 DEF OneOperation
<1>3. Intended'
  <2>1. ASSUME NEW s \in Threads, Busy(s)' PROVE s = t  BY <1>1, <2>1
  <2>2. \A s \in Threads : At(s, "apply")' \/ At(s, "announce")' \/ At(s, "undoSender")' => s = t
    BY <2>1 DEF Busy, At
  <2>3. ~At(t, "undoSender")'  BY <1>1 DEF At
  <2>. QED BY <1>1, <2>1, <2>2, <2>3 DEF Intended
<1>4. FollowsUnlessPending'
  <2>1. videoTx' => Pending(t)'  BY <1>1 DEF Pending
  <2>. QED BY <2>1 DEF FollowsUnlessPending
<1>5. NoneMissed'
  <2>1. \A s \in Threads : MissesSender(s)' => s = t  BY <1>1 DEF MissesSender
  <2>. QED BY <1>1, <2>1 DEF NoneMissed
<1>. QED BY <1>2, <1>3, <1>4, <1>5 DEF AloneOK

\* A step of the only operation under way, after which it has changed the sender
\* it captured, or is still to do so.
LEMMA AloneMoves ==
  ASSUME IInv, AloneOK, UNCHANGED <<inTable, videoTx>>, NEW t \in Threads, Busy(t),
         \A s \in Threads : s # t => th'[s] = th[s],
         inTable /\ (At(t, "apply")' \/ At(t, "announce")') =>
           /\ flags'.local <=> th'[t].op \notin {"stop", "disable"}
           /\ flags'.gate <=> th'[t].op = "start",
         inTable /\ Busy(t)' /\ th'[t].op = "enable" => ~flags'.gate,
         inTable /\ At(t, "undoSender")' => ~flags'.local /\ ~flags'.gate,
         inTable /\ videoTx =>
           Pending(t)' \/ (vs'.active = flags'.local /\ vs'.gated = flags'.gate),
         MissesSender(t)' => MissesSender(t) /\ th'[t].sender = th[t].sender
  PROVE  AloneOK'
<1>1. \A s \in Threads : s # t => ~Busy(s) /\ ~Busy(s)'
  BY DEF AloneOK, OneOperation, Busy
<1>2. OneOperation'  BY <1>1 DEF OneOperation
<1>3. Intended'
  <2>1. \A s \in Threads : At(s, "apply")' \/ At(s, "announce")' \/ At(s, "undoSender")'
                           => Busy(s)'
    BY DEF Busy, At
  <2>. QED BY <1>1, <2>1 DEF Intended
<1>4. FollowsUnlessPending'  BY DEF FollowsUnlessPending
<1>5. NoneMissed'
  <2>1. \A s \in Threads : MissesSender(s)' => s = t  BY <1>1 DEF MissesSender
  <2>. QED BY <2>1 DEF NoneMissed, AloneOK
<1>. QED BY <1>2, <1>3, <1>4, <1>5 DEF AloneOK

LEMMA AloneUnderWay ==
  ASSUME IInv, FlagsInv, AloneOK, NEW t \in Apps,
         VideoApply(t) \/ VideoSent(t) \/ VideoSendFailed(t) \/ VideoUndo(t) \/ VideoUndoSender(t)
  PROVE  AloneOK'
<1>1. /\ t \in Threads /\ Busy(t) /\ th[t].op \in Operations
      /\ UNCHANGED <<inTable, videoTx>>
  <2>1. t \in Threads /\ Busy(t) /\ UNCHANGED <<inTable, videoTx>>
    BY StateTypes
    DEF VideoApply, VideoSent, VideoSendFailed, VideoUndo, VideoUndoSender, Busy, At,
        videoVars
  <2>. QED BY <2>1 DEF FlagsInv, WhoActs
<1>2. \A s \in Threads : Pending(s) => s = t
  BY <1>1 DEF AloneOK, OneOperation, Pending, Busy
<1>3. CASE VideoApply(t)
  <2>1. At(t, "apply") /\ th' = [th EXCEPT ![t].pc = "send"] /\ flags' = flags
    BY <1>3 DEF VideoApply, Goto, videoVars
  <2>2. /\ th'[t].pc = "send" /\ th'[t].op = th[t].op /\ th'[t].sender = th[t].sender
        /\ \A s \in Threads : s # t => th'[s] = th[s]
    BY <1>1, <2>1, StateTypes DEF ThreadType
  <2>3. ASSUME inTable, videoTx PROVE vs'.active = flags.local /\ vs'.gated = flags.gate
    <3>1. CASE th[t].sender
      <4>1. /\ vs'.active = (th[t].op \notin {"stop", "disable"})
            /\ vs'.gated = (th[t].op = "start")
        BY <1>1, <1>3, <3>1, StateTypes
        DEF VideoApply, enable, disable, SenderType, Operations
      <4>2. /\ flags.local <=> th[t].op \notin {"stop", "disable"}
            /\ flags.gate <=> th[t].op = "start"
        BY <1>1, <2>1, <2>3 DEF AloneOK, Intended
      <4>. QED BY <4>1, <4>2, StateTypes DEF FlagsType
    <3>2. CASE ~th[t].sender
      <4>1. vs' = vs  BY <1>3, <3>2 DEF VideoApply
      <4>2. \A s \in Threads : ~Pending(s)  BY <1>2, <3>2 DEF Pending
      <4>. QED BY <2>3, <4>1, <4>2 DEF AloneOK, FollowsUnlessPending
    <3>. QED BY <3>1, <3>2
  <2>4. /\ ~At(t, "apply")' /\ ~At(t, "announce")' /\ ~At(t, "undoSender")'
        /\ MissesSender(t)' => MissesSender(t)
    BY <1>1, <2>2 DEF At, MissesSender
  <2>5. inTable /\ th[t].op = "enable" => ~flags.gate
    BY <1>1 DEF AloneOK, Intended
  <2>. QED BY <1>1, <2>1, <2>2, <2>3, <2>4, <2>5, AloneMoves
<1>4. CASE VideoSent(t) \/ VideoSendFailed(t)
  <2>1. /\ At(t, "send") /\ flags' = flags /\ vs' = vs
        /\ th' = [th EXCEPT ![t] = Returned] \/ th' = [th EXCEPT ![t].pc = "undo"]
    BY <1>4 DEF VideoSent, VideoSendFailed, Return, Goto, videoVars, senderVars
  <2>2. /\ \/ th'[t] = Returned
           \/ th'[t].pc = "undo" /\ th'[t].op = th[t].op /\ th'[t].sender = th[t].sender
        /\ \A s \in Threads : s # t => th'[s] = th[s]
    BY <1>1, <2>1, StateTypes DEF ThreadType
  <2>3. inTable /\ videoTx => vs.active = flags.local /\ vs.gated = flags.gate
    <3>1. \A s \in Threads : ~Pending(s)  BY <1>2, <2>1 DEF Pending, At
    <3>. QED BY <3>1 DEF AloneOK, FollowsUnlessPending
  <2>4. /\ ~At(t, "apply")' /\ ~At(t, "announce")' /\ ~At(t, "undoSender")'
        /\ Busy(t)' => th'[t].op = th[t].op
        /\ MissesSender(t)' => MissesSender(t) /\ th'[t].sender = th[t].sender
    BY <1>1, <2>2 DEF At, Busy, MissesSender, Returned
  <2>5. inTable /\ th[t].op = "enable" => ~flags.gate
    BY <1>1 DEF AloneOK, Intended
  <2>. QED BY <1>1, <2>1, <2>2, <2>3, <2>4, <2>5, AloneMoves
<1>5. CASE VideoUndo(t)
  <2>1. /\ th'[t].pc = "undoSender" /\ th'[t].op = th[t].op
        /\ th'[t].sender = IF th[t].op = "enable" THEN th[t].sender ELSE inTable /\ videoTx
        /\ \A s \in Threads : s # t => th'[s] = th[s]
    <3>1. CASE th[t].op = "enable"
      BY <1>1, <1>5, <3>1, StateTypes DEF VideoUndo, Goto, ThreadType
    <3>2. CASE th[t].op # "enable"
      BY <1>1, <1>5, <3>2, StateTypes DEF VideoUndo, ThreadType
    <3>. QED BY <3>1, <3>2
  <2>2. inTable => ~flags'.local /\ ~flags'.gate
    <3>1. CASE th[t].op = "enable"
      <4>1. inTable => ~flags.gate  BY <1>1, <3>1 DEF AloneOK, Intended
      <4>. QED BY <1>5, <3>1, <4>1, StateTypes DEF VideoUndo, FlagsType
    <3>2. CASE th[t].op # "enable"
      BY <1>5, <3>2, StateTypes DEF VideoUndo, FlagsType
    <3>. QED BY <3>1, <3>2
  <2>3. inTable /\ videoTx => Pending(t)'
    <3>1. inTable /\ videoTx /\ th[t].op = "enable" => th[t].sender
      BY <1>1 DEF AloneOK, NoneMissed, MissesSender
    <3>. QED BY <2>1, <3>1 DEF Pending
  <2>4. /\ ~At(t, "apply")' /\ ~At(t, "announce")'
        /\ MissesSender(t)' => MissesSender(t) /\ th'[t].sender = th[t].sender
    BY <1>1, <2>1 DEF At, MissesSender
  <2>. QED BY <1>1, <2>1, <2>2, <2>3, <2>4, AloneMoves
<1>6. CASE VideoUndoSender(t)
  <2>1. /\ At(t, "undoSender") /\ flags' = flags /\ th' = [th EXCEPT ![t] = Returned]
    BY <1>6 DEF VideoUndoSender, Return, videoVars
  <2>2. th'[t] = Returned /\ \A s \in Threads : s # t => th'[s] = th[s]
    BY <1>1, <2>1, StateTypes
  <2>3. ASSUME inTable, videoTx PROVE vs'.active = flags.local /\ vs'.gated = flags.gate
    <3>1. CASE th[t].sender
      <4>1. ~vs'.active /\ ~vs'.gated /\ vs'.active \in BOOLEAN /\ vs'.gated \in BOOLEAN
        BY <1>6, <3>1, StateTypes DEF VideoUndoSender, disable, SenderType
      <4>2. ~flags.local /\ ~flags.gate  BY <1>1, <2>1, <2>3 DEF AloneOK, Intended
      <4>. QED BY <4>1, <4>2, StateTypes DEF FlagsType
    <3>2. CASE ~th[t].sender
      <4>1. vs' = vs  BY <1>6, <3>2 DEF VideoUndoSender
      <4>2. \A s \in Threads : ~Pending(s)  BY <1>2, <3>2 DEF Pending
      <4>. QED BY <2>3, <4>1, <4>2 DEF AloneOK, FollowsUnlessPending
    <3>. QED BY <3>1, <3>2
  <2>4. /\ ~Busy(t)' /\ ~At(t, "apply")' /\ ~At(t, "announce")' /\ ~At(t, "undoSender")'
        /\ ~MissesSender(t)'
    BY <2>2 DEF At, Busy, MissesSender, Returned
  <2>. QED BY <1>1, <2>1, <2>2, <2>3, <2>4, AloneMoves
<1>. QED BY <1>3, <1>4, <1>5, <1>6

LEMMA AloneHandler ==
  ASSUME IInv, FlagsInv, AloneOK, Announce \/ StanzaApply
  PROVE  AloneOK'
<1>1. /\ Recv \in Threads /\ Busy(Recv) /\ th[Recv].op \in {"ungate", "disable"}
      /\ UNCHANGED <<inTable, videoTx>>
  <2>1. Recv \in Threads /\ Busy(Recv) /\ UNCHANGED <<inTable, videoTx>>
    BY StateTypes DEF Announce, StanzaApply, Busy, At, videoVars
  <2>. QED BY <2>1 DEF FlagsInv, WhoActs
<1>2. \A s \in Threads : Pending(s) => s = Recv
  BY <1>1 DEF AloneOK, OneOperation, Pending, Busy
<1>3. CASE Announce
  <2>1. At(Recv, "announce") /\ vs' = vs  BY <1>3 DEF Announce, senderVars
  <2>2. th[Recv].op = "ungate" /\ (inTable => flags.local /\ ~flags.gate)
    BY <1>1, <2>1 DEF FlagsInv, WhoActs, AloneOK, Intended
  <2>3. /\ th'[Recv].pc = "apply" /\ th'[Recv].sender = th[Recv].sender
        /\ \A s \in Threads : s # Recv => th'[s] = th[s]
        /\ \/ th'[Recv].op = "ungate" /\ flags' = flags
           \/ th'[Recv].op = "disable" /\ (inTable => ~flags'.local /\ ~flags'.gate)
    <3>1. \/ th' = [th EXCEPT ![Recv].pc = "apply"] /\ flags' = flags
          \/ /\ th' = [th EXCEPT ![Recv].pc = "apply", ![Recv].op = "disable"]
             /\ inTable => ~flags'.local /\ ~flags'.gate
      BY <1>3, StateTypes DEF Announce, Goto, FlagsType
    <3>2. CASE th' = [th EXCEPT ![Recv].pc = "apply"] /\ flags' = flags
      BY <1>1, <2>2, <3>2, StateTypes DEF ThreadType
    <3>3. CASE /\ th' = [th EXCEPT ![Recv].pc = "apply", ![Recv].op = "disable"]
               /\ inTable => ~flags'.local /\ ~flags'.gate
      BY <1>1, <3>3, StateTypes DEF ThreadType
    <3>. QED BY <3>1, <3>2, <3>3
  <2>4. inTable /\ videoTx => Pending(Recv)'
    <3>1. inTable /\ videoTx => th[Recv].sender
      BY <1>1, <2>1 DEF AloneOK, NoneMissed, MissesSender
    <3>. QED BY <2>3, <3>1 DEF Pending
  <2>5. ~At(Recv, "announce")' /\ ~At(Recv, "undoSender")' /\ ~MissesSender(Recv)'
    BY <2>3 DEF At, MissesSender
  <2>. QED BY <1>1, <2>2, <2>3, <2>4, <2>5, AloneMoves
<1>4. CASE StanzaApply
  <2>1. At(Recv, "apply") /\ flags' = flags /\ th' = [th EXCEPT ![Recv] = Returned]
    BY <1>4 DEF StanzaApply, Return, videoVars
  <2>2. th'[Recv] = Returned /\ \A s \in Threads : s # Recv => th'[s] = th[s]
    BY <1>1, <2>1, StateTypes
  <2>3. ASSUME inTable, videoTx PROVE vs'.active = flags.local /\ vs'.gated = flags.gate
    <3>1. CASE th[Recv].sender
      <4>1. vs'.active = (th[Recv].op = "ungate") /\ vs'.gated = FALSE
        BY <1>1, <1>4, <3>1, StateTypes DEF StanzaApply, enable, disable, SenderType
      <4>2. (flags.local <=> th[Recv].op = "ungate") /\ ~flags.gate
        BY <1>1, <2>1, <2>3 DEF AloneOK, Intended
      <4>. QED BY <4>1, <4>2, StateTypes DEF FlagsType
    <3>2. CASE ~th[Recv].sender
      <4>1. vs' = vs  BY <1>4, <3>2 DEF StanzaApply
      <4>2. \A s \in Threads : ~Pending(s)  BY <1>2, <3>2 DEF Pending
      <4>. QED BY <2>3, <4>1, <4>2 DEF AloneOK, FollowsUnlessPending
    <3>. QED BY <3>1, <3>2
  <2>4. /\ ~Busy(Recv)' /\ ~At(Recv, "apply")' /\ ~At(Recv, "announce")'
        /\ ~At(Recv, "undoSender")' /\ ~MissesSender(Recv)'
    BY <2>2 DEF At, Busy, MissesSender, Returned
  <2>. QED BY <1>1, <2>1, <2>2, <2>3, <2>4, AloneMoves
<1>. QED BY <1>3, <1>4

\* Steps that leave every operation where it is.
LEMMA AloneRest ==
  ASSUME IInv, AloneOK,
         flags'.local = flags.local, flags'.gate = flags.gate, inTable' => inTable,
         \A t \in Threads : th'[t] = th[t] \/ (~Busy(t) /\ ~Busy(t)'),
         inTable' /\ videoTx' =>
           \/ videoTx /\ vs'.active = vs.active /\ vs'.gated = vs.gated
           \/ /\ vs'.active = flags.local /\ vs'.gated = flags.gate
              /\ \A t \in Threads : ~MissesSender(t)
  PROVE  AloneOK'
<1>1. \A t \in Threads : Busy(t)' => Busy(t) /\ th'[t] = th[t]
  BY DEF Busy
<1>2. \A t \in Threads :
        /\ At(t, "apply")' \/ At(t, "announce")' \/ At(t, "undoSender")' => Busy(t)'
        /\ Pending(t) => Busy(t) /\ (th'[t] = th[t] => Pending(t)')
        /\ MissesSender(t)' => Busy(t)' /\ (th'[t] = th[t] => MissesSender(t))
  BY DEF At, Busy, Pending, MissesSender
<1>3. OneOperation'  BY <1>1 DEF AloneOK, OneOperation
<1>4. Intended'
  <2> SUFFICES ASSUME NEW t \in Threads, inTable', Busy(t)'
               PROVE  /\ At(t, "apply")' \/ At(t, "announce")' =>
                           /\ flags'.local <=> th'[t].op \notin {"stop", "disable"}
                           /\ flags'.gate <=> th'[t].op = "start"
                      /\ th'[t].op = "enable" => ~flags'.gate
                      /\ At(t, "undoSender")' => ~flags'.local /\ ~flags'.gate
    BY <1>2 DEF Intended
  <2>. QED BY <1>1 DEF AloneOK, Intended, At
<1>5. FollowsUnlessPending'
  <2>1. (\A t \in Threads : ~Pending(t)') => \A t \in Threads : ~Pending(t)
    BY <1>2
  <2>. QED BY <2>1 DEF AloneOK, FollowsUnlessPending
<1>6. NoneMissed'  BY <1>1, <1>2 DEF AloneOK, NoneMissed
<1>. QED BY <1>3, <1>4, <1>5, <1>6 DEF AloneOK

LEMMA AloneStep ==
  ASSUME IInv, FlagsInv, [Next]_vars, alone'
  PROVE  AloneOK'
<1>1. ASSUME NEW t \in Apps, AppStep(t) PROVE AloneOK'
  <2>1. t \in Threads  BY StateTypes
  <2>2. ASSUME NEW op \in AppOps, VideoBegin(t, op) PROVE AloneOK'
    <3>1. op \in Operations  BY VideoAssumption
    <3>2. /\ flags'.local <=> op \notin {"stop", "disable"}
          /\ flags'.gate <=> op = "start"
      BY <2>2, <3>1, StateTypes DEF VideoBegin, FlagsAfter, FlagsType, Operations
    <3>3. /\ Quiet /\ inTable' = inTable /\ videoTx' = videoTx
          /\ th' = [th EXCEPT ![t] = [pc |-> "apply", op |-> op, sender |-> videoTx]]
      BY <2>2 DEF VideoBegin
    <3>. QED BY <2>1, <3>2, <3>3, AloneBegins
  <2>3. CASE VideoApply(t) \/ VideoSent(t) \/ VideoSendFailed(t) \/ VideoUndo(t)
             \/ VideoUndoSender(t)
    <3>1. alone' = alone
      BY <2>3
      DEF VideoApply, VideoSent, VideoSendFailed, VideoUndo, VideoUndoSender, history
    <3>. QED BY <2>3, <3>1, AloneUnderWay DEF FlagsInv
  <2>4. CASE FrameLookup(t) \/ \E kind \in {"idr", "delta"} : FrameSend(t, kind)
    <3>1. /\ UNCHANGED <<flags, inTable, videoTx, alone>>
          /\ vs'.active = vs.active /\ vs'.gated = vs.gated
      BY <2>4, StateTypes
      DEF FrameLookup, FrameSend, videoVars, senderVars, history, SenderType
    <3>2. \A s \in Threads : th'[s] = th[s] \/ (~Busy(s) /\ ~Busy(s)')
      <4>1. /\ th[t].pc \in {"idle", "frame"}
            /\ \/ th' = [th EXCEPT ![t] = [pc |-> "frame", op |-> "none", sender |-> TRUE]]
               \/ th' = [th EXCEPT ![t] = Returned]
        BY <2>4 DEF FrameLookup, FrameSend, Return, At
      <4>. QED BY <2>1, <4>1, StateTypes DEF Returned, Busy
    <3>. QED BY <3>1, <3>2, AloneRest DEF FlagsInv
  <2>. QED BY <1>1, <2>2, <2>3, <2>4 DEF AppStep
<1>2. ASSUME NEW state \in Stanzas, OnVideoStanza(state) PROVE AloneOK'
  <2>1. /\ inTable' = inTable /\ videoTx' = videoTx /\ vs' = vs
        /\ \/ th' = th /\ alone' = alone /\ flags'.local = flags.local /\ flags'.gate = flags.gate
           \/ /\ Quiet /\ flags'.local /\ ~flags'.gate
              /\ th' = [th EXCEPT ![Recv] = [pc |-> "apply", op |-> "ungate", sender |-> videoTx]]
           \/ /\ Quiet /\ ~flags'.local /\ ~flags'.gate
              /\ th' = [th EXCEPT ![Recv] = [pc |-> "apply", op |-> "disable", sender |-> videoTx]]
    <3>1. CASE state = "enabled" /\ flags.local /\ flags.gate
      BY <1>2, <3>1 DEF OnVideoStanza, senderVars
    <3>2. CASE state = "reject"
      BY <1>2, <3>2 DEF OnVideoStanza, senderVars
    <3>3. CASE ~(state = "enabled" /\ flags.local /\ flags.gate) /\ state # "reject"
      BY <1>2, <3>3, StateTypes DEF OnVideoStanza, senderVars, FlagsType
    <3>. QED BY <3>1, <3>2, <3>3
  <2>2. CASE th' = th /\ alone' = alone /\ flags'.local = flags.local /\ flags'.gate = flags.gate
    BY <2>1, <2>2, AloneRest DEF FlagsInv
  <2>3. CASE /\ Quiet /\ flags'.local /\ ~flags'.gate
             /\ th' = [th EXCEPT ![Recv] = [pc |-> "apply", op |-> "ungate", sender |-> videoTx]]
    <3>1. /\ flags'.local <=> "ungate" \notin {"stop", "disable"}
          /\ flags'.gate <=> "ungate" = "start"
      BY <2>3
    <3>. QED BY <2>1, <2>3, <3>1, StateTypes, AloneBegins
  <2>4. CASE /\ Quiet /\ ~flags'.local /\ ~flags'.gate
             /\ th' = [th EXCEPT ![Recv] = [pc |-> "apply", op |-> "disable", sender |-> videoTx]]
    <3>1. /\ flags'.local <=> "disable" \notin {"stop", "disable"}
          /\ flags'.gate <=> "disable" = "start"
      BY <2>4
    <3>. QED BY <2>1, <2>4, <3>1, StateTypes, AloneBegins
  <2>. QED BY <2>1, <2>2, <2>3, <2>4
<1>3. CASE OnVideoAccept
  <2>1. /\ Quiet /\ inTable' = inTable /\ videoTx' = videoTx
        /\ th' = [th EXCEPT ![Recv] = [pc |-> "announce", op |-> "ungate", sender |-> videoTx]]
        /\ flags'.local /\ ~flags'.gate
    BY <1>3, StateTypes DEF OnVideoAccept, FlagsType
  <2>2. /\ flags'.local <=> "ungate" \notin {"stop", "disable"}
        /\ flags'.gate <=> "ungate" = "start"
    BY <2>1
  <2>. QED BY <2>1, <2>2, StateTypes, AloneBegins
<1>4. CASE Announce \/ StanzaApply
  <2>1. alone' = alone  BY <1>4 DEF Announce, StanzaApply, history
  <2>. QED BY <1>4, <2>1, AloneHandler DEF FlagsInv
<1>5. CASE Register
  <2>1. /\ UNCHANGED <<inTable, flags, th>>
        /\ inTable => vs'.active = flags.local /\ vs'.gated = flags.gate
        /\ Quiet \/ (alone /\ \A t \in Threads : ~MissesSender(t))
    BY <1>5, StateTypes DEF Register, Registers, FlagsType
  <2>2. CASE Quiet
    <3>1. \A t \in Threads : ~Busy(t)'  BY <2>1, <2>2 DEF Quiet, Busy
    <3>2. \A t \in Threads : ~At(t, "apply")' /\ ~At(t, "announce")' /\ ~At(t, "undoSender")'
                              /\ ~MissesSender(t)'
      BY <3>1 DEF Busy, At, MissesSender
    <3>. QED BY <2>1, <3>1, <3>2
         DEF AloneOK, OneOperation, Intended, FollowsUnlessPending, NoneMissed
  <2>3. CASE alone /\ \A t \in Threads : ~MissesSender(t)
    BY <2>1, <2>3, AloneRest DEF FlagsInv
  <2>. QED BY <2>1, <2>2, <2>3
<1>6. CASE ~Register /\ (MediaStep \/ Finish \/ UNCHANGED vars)
  <2>1. /\ UNCHANGED <<flags, th, alone>> /\ (inTable' => inTable)
        /\ vs'.active = vs.active /\ vs'.gated = vs.gated
        /\ videoTx' => videoTx
    <3>1. CASE PeerWantsKeyframe
      BY <3>1, StateTypes DEF PeerWantsKeyframe, videoVars, SenderType
    <3>2. CASE DropChannel
      BY <3>2, StateTypes DEF DropChannel, videoVars, history, SenderType
    <3>3. CASE ChannelBreaks
      BY <3>3 DEF ChannelBreaks, videoVars, history
    <3>7. CASE CloseChannel
      BY <3>7 DEF CloseChannel, videoVars, history
    <3>4. CASE Finish
      BY <3>4 DEF Finish, senderVars, history
    <3>5. CASE UNCHANGED vars
      BY <3>5 DEF vars, videoVars, senderVars, history
    <3>6. CASE Unregister
      BY <3>6, StateTypes DEF Unregister, history
    <3>. QED BY <1>6, <3>1, <3>2, <3>3, <3>4, <3>5, <3>6, <3>7 DEF MediaStep
  <2>. QED BY <2>1, AloneRest DEF FlagsInv
<1>. QED BY <1>1, <1>2, <1>3, <1>4, <1>5, <1>6 DEF Next, RecvStep, MediaStep

LEMMA FlagsHold == Spec => [](IInv /\ FlagsInv)
<1>1. Init => FlagsInv
  <2> SUFFICES ASSUME Init PROVE FlagsInv  OBVIOUS
  <2>1. \A t \in Threads : th[t] = Returned  BY DEF Init
  <2>2. \A t \in Threads : /\ ~Busy(t) /\ ~MissesSender(t)
                            /\ ~At(t, "apply") /\ ~At(t, "announce") /\ ~At(t, "undoSender")
    BY <2>1 DEF Busy, At, MissesSender, Returned
  <2>3. OneOperation /\ Intended /\ NoneMissed /\ HeldSinceRequest
    BY <2>2 DEF Init, OneOperation, Intended, NoneMissed, HeldSinceRequest
  <2>4. Registered /\ FollowsUnlessPending /\ WhoActs
    BY <2>2 DEF Init, Registered, FollowsUnlessPending, WhoActs, Threads
  <2>. QED BY <2>3, <2>4 DEF FlagsInv, AloneOK
<1>2. IInv /\ FlagsInv /\ [Next]_vars => FlagsInv'
  <2> SUFFICES ASSUME IInv, FlagsInv, [Next]_vars PROVE FlagsInv'  OBVIOUS
  <2>1. Registered'  BY RegisteredStep DEF FlagsInv
  <2>2. WhoActs'  BY WhoActsStep DEF FlagsInv
  <2>3. alone' => AloneOK'  BY AloneStep
  <2>4. HeldSinceRequest'  BY HeldStep
  <2>. QED BY <2>1, <2>2, <2>3, <2>4 DEF FlagsInv
<1>. QED BY <1>1, <1>2, VideoInvariant, PTL DEF Spec

\* videoSender.enable, disable and its registration by runMedia, against every
\* interleaving: whatever overlapping operations left behind, after one that no
\* other overlapped the sender does what localVideo and videoGate say.
THEOREM SenderAgreesWithFlags == Spec => []SenderFollowsFlags
<1>1. FlagsInv => SenderFollowsFlags
  <2> SUFFICES ASSUME FlagsInv, Quiet, alone, inTable, videoTx
               PROVE  vs.active = flags.local /\ vs.gated = flags.gate
    BY DEF SenderFollowsFlags
  <2>1. \A t \in Threads : ~Pending(t)  BY DEF Quiet, Busy, Pending
  <2>. QED BY <2>1 DEF FlagsInv, AloneOK, FollowsUnlessPending
<1>. QED BY <1>1, FlagsHold, PTL

\* "Outbound video remains gated until the peer acknowledges the transition"
\* (StartVideo): once a request is out that no other attempt to turn video on
\* crossed, no frame passes the sender before the peer answers or the application
\* asks for something else, whatever else is interleaved.
THEOREM NoVideoBeforeAnswer == Spec => []GatedUntilAcknowledged
<1>1. IInv /\ FlagsInv => GatedUntilAcknowledged
  <2> SUFFICES ASSUME IInv, FlagsInv, request = "start", vs.ch PROVE Withheld("idr")
    BY DEF GatedUntilAcknowledged
  <2>1. media = "loop"  BY DEF IInv, ChannelOK
  <2>2. SenderHeld  BY DEF FlagsInv, HeldSinceRequest
  <2>. QED BY <2>1, <2>2 DEF SenderHeld, Withheld
<1>. QED BY <1>1, FlagsHold, PTL
=============================================================================
