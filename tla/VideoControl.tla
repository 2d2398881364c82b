---------------------------- MODULE VideoControl ----------------------------
(***************************************************************************)
(* Video of one call: the flags localVideo, remoteVideo and videoGate of   *)
(* the engineCall, under e.mu, and the videoSender that acts on them, with *)
(* its own lock (engine.go, engine_media.go).                              *)
(*                                                                         *)
(* Every operation changes the flags and captures m.videoTx in one         *)
(* critical section, enables or disables the captured sender in another,   *)
(* sends a stanza, and may undo what it did if that fails.  Two operations *)
(* can overlap anywhere in between: the application calls from any         *)
(* goroutine, the peer's stanzas arrive on whatsmeow's receive loop, and   *)
(* the media goroutine registers and clears the sender.                    *)
(*                                                                         *)
(* The module follows one engineCall and its one media goroutine; what a   *)
(* second engineCall under the same id does is in CallEngine.              *)
(***************************************************************************)
EXTENDS Naturals

CONSTANTS
  Apps,                 \* application goroutines
  Recv,                 \* the whatsmeow receive loop
  AppOps,               \* operations the application uses
  Stanzas,              \* video stanzas the peer sends
  StartsWithVideo       \* the call was placed or offered with video

\* StartVideo, AcceptVideo, StopVideo, SetVideoEnabled(true) and (false).
Operations == {"start", "accept", "stop", "enable", "disable"}

\* state=1; 0 and 6; 4; 5 and 8; 3 and 11.
PeerStates == {"enabled", "disabled", "accept", "reject", "request"}

ASSUME VideoAssumption ==
  /\ Recv \notin Apps
  /\ AppOps \subseteq Operations
  /\ Stanzas \subseteq PeerStates
  /\ StartsWithVideo \in BOOLEAN

Threads == Apps \cup {Recv}

VARIABLES
  inTable,              \* e.calls[callID] is this engineCall
  flags,                \* its localVideo, remoteVideo, videoGate
  videoTx,              \* its videoTx is set
  vs,                   \* the videoSender of the media goroutine
  media,                \* where the media goroutine is
  chan,                 \* the relay channel
  th,                   \* program counter and locals of every thread
  wire,                 \* the last frame that went out
  gap,                  \* a frame was withheld, or the peer asked for an IDR,
                        \* since the last IDR went out
  request,              \* the request or stop that is under way or was the last,
                        \* while nothing crossed it and nothing answered it
  alone                 \* no other operation overlapped the last one to change
                        \* the flags or the sender

videoVars == <<inTable, flags, videoTx>>
senderVars == <<vs, media, chan>>
history == <<wire, gap, request, alone>>
vars == <<videoVars, senderVars, th, history>>

Returned == [pc |-> "idle", op |-> "none", sender |-> FALSE]

\* A videoSender before runMedia creates it: it reaches no channel.
NoSender ==
  [active |-> FALSE, gated |-> FALSE, keyframeRequired |-> TRUE, ch |-> FALSE]

Init ==
  /\ inTable = TRUE
  /\ flags = [local |-> StartsWithVideo, remote |-> StartsWithVideo, gate |-> FALSE]
  /\ videoTx = FALSE
  /\ vs = NoSender
  /\ media = "setup"
  /\ chan = "open"
  /\ th = [t \in Threads |-> Returned]
  /\ wire = "none"
  /\ gap = TRUE
  /\ request = "none"
  /\ alone = TRUE

-----------------------------------------------------------------------------
At(t, label) == th[t].pc = label

Goto(t, label) == th' = [th EXCEPT ![t].pc = label]

Return(t) == th' = [th EXCEPT ![t] = Returned]

\* An operation is between its first and its last step.
Busy(t) == th[t].pc \notin {"idle", "frame"}

Quiet == \A t \in Threads : ~Busy(t)

-----------------------------------------------------------------------------
(* videoSender.                                                            *)

\* Faulty variant: lifting the gate is not a recovery.
enable_NoRecovery(sendGated) ==
  vs' = [vs EXCEPT !.active = TRUE, !.gated = sendGated,
                   !.keyframeRequired = @ \/ ~vs.active]

\* enable: a sender that was off, or is let through the gate, starts at an IDR.
enable(sendGated) ==
  vs' = [vs EXCEPT !.active = TRUE, !.gated = sendGated,
                   !.keyframeRequired = @ \/ ~vs.active \/ (vs.gated /\ ~sendGated)]

disable ==
  vs' = [vs EXCEPT !.active = FALSE, !.gated = FALSE, !.keyframeRequired = TRUE]

\* requestKeyframe, on an authenticated PLI or FIR.
PeerWantsKeyframe ==
  /\ media = "loop"
  /\ vs' = [vs EXCEPT !.keyframeRequired = TRUE]
  /\ gap' = TRUE
  /\ UNCHANGED <<videoVars, media, chan, th, wire, request, alone>>

-----------------------------------------------------------------------------
(* Frames of the application (sendVideoFrame, videoSender.send).           *)

\* The lookup: without a sender the frame is refused.
FrameLookup(t) ==
  /\ t \in Apps /\ At(t, "idle")
  /\ inTable /\ videoTx
  /\ th' = [th EXCEPT ![t] = [pc |-> "frame", op |-> "none", sender |-> TRUE]]
  /\ UNCHANGED <<videoVars, senderVars, history>>

\* protectAccessUnitLocked lets nothing through.
Withheld(kind) ==
  \/ ~vs.active
  \/ vs.gated
  \/ vs.keyframeRequired /\ kind = "delta"

\* send: the frame is withheld, or it goes to the channel and an IDR meets the
\* keyframe requirement whether or not the channel takes it.
FrameSend(t, kind) ==
  /\ At(t, "frame")
  /\ Return(t)
  /\ UNCHANGED <<videoVars, media, chan, request, alone>>
  /\ IF ~vs.ch THEN UNCHANGED <<vs, wire, gap>>
     ELSE IF Withheld(kind) THEN gap' = TRUE /\ UNCHANGED <<vs, wire>>
     ELSE /\ vs' = [vs EXCEPT !.keyframeRequired = @ /\ kind # "idr"]
          /\ IF chan # "open" THEN UNCHANGED <<wire, gap>>
             ELSE /\ wire' = IF kind = "delta" /\ gap THEN "orphan" ELSE kind
                  /\ gap' = (gap /\ kind # "idr")

-----------------------------------------------------------------------------
(* Operations of the application (transitionVideo, setVideoEnabled).       *)

FlagsAfter(op) ==
  CASE op = "start"              -> [flags EXCEPT !.local = TRUE, !.gate = TRUE]
    [] op \in {"accept", "enable"} -> [flags EXCEPT !.local = TRUE, !.gate = FALSE]
    [] op \in {"stop", "disable"}  -> [flags EXCEPT !.local = FALSE, !.gate = FALSE]

\* History: what is being asked for, unless another operation crosses it.  A
\* request may be crossed by what turns video off.
Asking(t, op) ==
  CASE op = "start" ->
         IF \A u \in Threads \ {t} : Busy(u) => th[u].op \in {"stop", "disable"}
         THEN "asking" ELSE "none"
    [] op \in {"accept", "enable"} -> "none"
    [] op \in {"stop", "disable"} ->
         IF request \in {"asking", "start"} THEN request
         ELSE IF \A u \in Apps \ {t} : ~Busy(u) THEN "stopping" ELSE "none"

\* The critical section: the flags change, videoTx is captured.  A call that
\* left the table is refused.
VideoBegin(t, op) ==
  /\ t \in Apps /\ At(t, "idle")
  /\ inTable
  /\ flags' = FlagsAfter(op)
  /\ request' = Asking(t, op)
  /\ alone' = Quiet
  /\ th' = [th EXCEPT ![t] = [pc |-> "apply", op |-> op, sender |-> videoTx]]
  /\ UNCHANGED <<inTable, videoTx, senderVars, wire, gap>>

\* The captured sender follows.
VideoApply(t) ==
  /\ At(t, "apply")
  /\ IF ~th[t].sender THEN UNCHANGED vs
     ELSE IF th[t].op \in {"stop", "disable"} THEN disable
     ELSE enable(th[t].op = "start")
  /\ Goto(t, "send")
  /\ UNCHANGED <<videoVars, media, chan, history>>

\* The stanza (two of them for an accept) goes out.
VideoSent(t) ==
  /\ At(t, "send")
  /\ Return(t)
  /\ request' = IF request = "asking" /\ th[t].op = "start" THEN "start"
                ELSE IF request = "stopping" /\ th[t].op \in {"stop", "disable"} THEN "stop"
                ELSE request
  /\ UNCHANGED <<videoVars, senderVars, wire, gap, alone>>

\* The send fails: an operation that turned video on undoes it.
VideoSendFailed(t) ==
  /\ At(t, "send")
  /\ IF th[t].op \in {"stop", "disable"} THEN Return(t) ELSE Goto(t, "undo")
  /\ UNCHANGED <<videoVars, senderVars, history>>

\* Faulty variant: the sender captured at the start is the one disabled.
VideoUndo_Captured(t) ==
  /\ At(t, "undo")
  /\ flags' = IF inTable THEN [flags EXCEPT !.local = FALSE, !.gate = FALSE] ELSE flags
  /\ Goto(t, "undoSender")
  /\ UNCHANGED <<inTable, videoTx, senderVars, history>>

\* The undo: transitionVideo captures videoTx again, setVideoEnabled keeps the
\* sender it captured at the start and leaves the gate.
VideoUndo(t) ==
  /\ At(t, "undo")
  /\ IF th[t].op = "enable"
     THEN /\ flags' = [flags EXCEPT !.local = @ /\ ~inTable]
          /\ Goto(t, "undoSender")
     ELSE /\ flags' = IF inTable THEN [flags EXCEPT !.local = FALSE, !.gate = FALSE]
                                 ELSE flags
          /\ th' = [th EXCEPT ![t].pc = "undoSender", ![t].sender = inTable /\ videoTx]
  /\ UNCHANGED <<inTable, videoTx, senderVars, history>>

VideoUndoSender(t) ==
  /\ At(t, "undoSender")
  /\ IF th[t].sender THEN disable ELSE UNCHANGED vs
  /\ Return(t)
  /\ UNCHANGED <<videoVars, media, chan, history>>

-----------------------------------------------------------------------------
(* Stanzas of the peer (onVideoStanza).                                    *)

\* History: the peer answered what was asked.
Answered == request' = IF request \in {"asking", "start"} THEN "none" ELSE request

\* The critical section for every state but accept.  The local keyframe
\* callback and the OnVideoState listener change nothing here.
OnVideoStanza(state) ==
  /\ At(Recv, "idle")
  /\ inTable
  /\ LET ungate == state = "enabled" /\ flags.local /\ flags.gate
         act == IF ungate THEN "ungate" ELSE IF state = "reject" THEN "disable" ELSE "none"
     IN /\ flags' = [local  |-> flags.local /\ state # "reject",
                     remote |-> (flags.remote \/ state = "enabled") /\ state # "disabled",
                     gate   |-> flags.gate /\ ~ungate /\ state # "reject"]
        /\ IF state = "enabled" THEN Answered ELSE UNCHANGED request
        /\ IF act = "none" THEN UNCHANGED <<th, alone>>
           ELSE /\ th' = [th EXCEPT ![Recv] = [pc |-> "apply", op |-> act, sender |-> videoTx]]
                /\ alone' = Quiet
  /\ UNCHANGED <<inTable, videoTx, senderVars, wire, gap>>

\* Accept: video is on at once, whatever was asked for; state 1 is announced.
OnVideoAccept ==
  /\ At(Recv, "idle")
  /\ inTable
  /\ flags' = [flags EXCEPT !.local = TRUE, !.gate = FALSE]
  /\ Answered
  /\ alone' = Quiet
  /\ th' = [th EXCEPT ![Recv] = [pc |-> "announce", op |-> "ungate", sender |-> videoTx]]
  /\ UNCHANGED <<inTable, videoTx, senderVars, wire, gap>>

\* The announcement goes out, or the flags are taken back.
Announce ==
  /\ At(Recv, "announce")
  /\ \/ Goto(Recv, "apply") /\ UNCHANGED flags
     \/ /\ flags' = IF inTable THEN [flags EXCEPT !.local = FALSE, !.gate = FALSE] ELSE flags
        /\ th' = [th EXCEPT ![Recv].pc = "apply", ![Recv].op = "disable"]
  /\ UNCHANGED <<inTable, videoTx, senderVars, history>>

\* Faulty variant: the handler keeps the sender for the next stanza.
StanzaApply_KeepSender ==
  /\ At(Recv, "apply")
  /\ IF ~th[Recv].sender THEN UNCHANGED vs
     ELSE IF th[Recv].op = "ungate" THEN enable(FALSE) ELSE disable
  /\ Goto(Recv, "idle")
  /\ UNCHANGED <<videoVars, media, chan, history>>

\* The sender captured by the critical section follows.
StanzaApply ==
  /\ At(Recv, "apply")
  /\ IF ~th[Recv].sender THEN UNCHANGED vs
     ELSE IF th[Recv].op = "ungate" THEN enable(FALSE) ELSE disable
  /\ Return(Recv)
  /\ UNCHANGED <<videoVars, media, chan, history>>

-----------------------------------------------------------------------------
(* The media goroutine and the end of the call.                            *)

\* History: the operations that act to their end on the sender they captured at
\* the start miss one that registers meanwhile (setVideoEnabled when its send
\* fails, onVideoStanza when its announcement does).
MissesSender(t) == Busy(t) /\ (th[t].op = "enable" \/ At(t, "announce"))

Registers ==
  alone' = (Quiet \/ (alone /\ \A t \in Threads : ~MissesSender(t)))

\* Faulty variant: the sender does not learn of a pending upgrade.
Register_Ungated ==
  /\ media = "setup" /\ media' = "loop"
  /\ vs' = [active |-> inTable /\ flags.local, gated |-> FALSE,
            keyframeRequired |-> TRUE, ch |-> TRUE]
  /\ videoTx' = inTable
  /\ Registers
  /\ UNCHANGED <<inTable, flags, chan, th, wire, gap, request>>

\* runMedia creates the sender and, in one critical section, lets it take over
\* the flags and registers it.
Register ==
  /\ media = "setup" /\ media' = "loop"
  /\ vs' = [active |-> inTable /\ flags.local, gated |-> inTable /\ flags.gate,
            keyframeRequired |-> TRUE, ch |-> TRUE]
  /\ videoTx' = inTable
  /\ Registers
  /\ UNCHANGED <<inTable, flags, chan, th, wire, gap, request>>

\* The transport breaks: sends fail from now on.
ChannelBreaks ==
  /\ chan = "open" /\ chan' = "broken"
  /\ UNCHANGED <<videoVars, vs, media, th, history>>

\* Faulty variant: the sender keeps the channel.
DropChannel_Keep ==
  /\ media = "loop" /\ media' = "clear"
  /\ UNCHANGED <<videoVars, vs, chan, th, history>>

\* The loop ends.  First the sender loses the channel, under its own lock;
DropChannel ==
  /\ media = "loop" /\ media' = "clear"
  /\ vs' = [vs EXCEPT !.ch = FALSE]
  /\ UNCHANGED <<videoVars, chan, th, history>>

\* then it is unregistered;
Unregister ==
  /\ media = "clear" /\ media' = "close"
  /\ videoTx' = (videoTx /\ ~inTable)
  /\ UNCHANGED <<inTable, flags, vs, chan, th, history>>

\* last, the channel is closed.
CloseChannel ==
  /\ media = "close" /\ media' = "stopped"
  /\ chan' = "closed"
  /\ UNCHANGED <<videoVars, vs, th, history>>

\* finishCall takes the engineCall out of the table.
Finish ==
  /\ inTable /\ inTable' = FALSE
  /\ UNCHANGED <<flags, videoTx, senderVars, th, history>>

-----------------------------------------------------------------------------
AppStep(t) ==
  \/ FrameLookup(t)
  \/ \E kind \in {"idr", "delta"} : FrameSend(t, kind)
  \/ \E op \in AppOps : VideoBegin(t, op)
  \/ VideoApply(t) \/ VideoSent(t) \/ VideoSendFailed(t)
  \/ VideoUndo(t) \/ VideoUndoSender(t)

RecvStep ==
  \/ \E state \in Stanzas \ {"accept"} : OnVideoStanza(state)
  \/ "accept" \in Stanzas /\ OnVideoAccept
  \/ Announce \/ StanzaApply

MediaStep ==
  \/ Register \/ PeerWantsKeyframe \/ ChannelBreaks
  \/ DropChannel \/ Unregister \/ CloseChannel

Next == (\E t \in Apps : AppStep(t)) \/ RecvStep \/ MediaStep \/ Finish

Spec == Init /\ [][Next]_vars

-----------------------------------------------------------------------------
(* Properties.                                                             *)

FlagsType == [local : BOOLEAN, remote : BOOLEAN, gate : BOOLEAN]
SenderType ==
  [active : BOOLEAN, gated : BOOLEAN, keyframeRequired : BOOLEAN, ch : BOOLEAN]
ThreadType ==
  [pc : {"idle", "frame", "apply", "send", "undo", "undoSender", "announce"},
   op : Operations \cup {"none", "ungate"}, sender : BOOLEAN]

\* Types; a thread that returned holds no sender it could use later.
TypeOK ==
  /\ inTable \in BOOLEAN
  /\ flags \in FlagsType
  /\ videoTx \in BOOLEAN
  /\ vs \in SenderType
  /\ media \in {"setup", "loop", "clear", "close", "stopped"}
  /\ chan \in {"open", "broken", "closed"}
  /\ th \in [Threads -> ThreadType]
  /\ \A t \in Threads : At(t, "idle") => ~th[t].sender
  /\ wire \in {"none", "idr", "delta", "orphan"}
  /\ gap \in BOOLEAN
  /\ request \in {"none", "asking", "start", "stopping", "stop"}
  /\ alone \in BOOLEAN

\* However starts, stops, gates and keyframe requests interleave, the peer
\* never gets a frame that refers to frames withheld from it: after each gap
\* (a disabled or gated sender, a PLI) the next frame on the wire is an IDR.
\* This is what enable's needsRecovery and keyframeRequired are for.
NoOrphanFrame == wire # "orphan"

\* The channel is closed only after the sender lost it: a late SendVideo never
\* writes to a closed channel (the deferred functions of runMedia).
NoSendAfterClose == chan = "closed" => ~vs.ch

\* Operations that overlap can reach the sender in another order than the flags
\* and leave it doing what the flags do not say (e.mu is left in between).  The
\* next operation that no other overlaps puts that right: when it is over, the
\* sender does what the flags say, whatever the ones before it left, whether the
\* sender was registered before, during or after it, and whether or not its
\* stanzas could be sent.
SenderFollowsFlags ==
  Quiet /\ alone /\ inTable /\ videoTx => vs.active = flags.local /\ vs.gated = flags.gate

\* "Outbound video remains gated until the peer acknowledges the transition
\* with state 4 or state 1" (StartVideo, livecall.go): once a request is out that
\* no other attempt to turn video on crossed, the sender lets nothing through
\* before the peer answers or the application asks for something else, whatever
\* stops and rejects cross it, and when the sender registers in the middle of it.
GatedUntilAcknowledged == request = "start" /\ vs.ch => Withheld("idr")

\* "StopVideo stops this client's outbound video" (livecall.go): after it
\* returned, and until the application asks for video again, none goes out.
StopVideoStops == request = "stop" /\ vs.ch => Withheld("idr")

\* The same gate from the other side: a sender is held at the gate only while
\* the "outbound upgrade is waiting for peer acceptance" (videoGate, engine.go).
GateLiftedOnceAcknowledged ==
  Quiet /\ inTable /\ videoTx /\ vs.active /\ vs.gated => flags.gate

-----------------------------------------------------------------------------
(* The inductive invariant behind the safety properties.                   *)

\* A sender that is off, or has withheld something, is due for an IDR, at the
\* latest when it is let through the gate.  (On a broken channel the IDR counts
\* as sent, but nothing follows it.)
KeyframeDue ==
  /\ gap /\ chan = "open" => vs.keyframeRequired \/ vs.gated
  /\ ~vs.active => vs.keyframeRequired

\* Where the media goroutine is says what the sender and the channel are.
ChannelOK ==
  /\ vs.ch <=> media = "loop"
  /\ chan = "closed" => media = "stopped"

IInv == TypeOK /\ KeyframeDue /\ ChannelOK /\ NoOrphanFrame

-----------------------------------------------------------------------------
(* The inductive invariants behind the other two.                          *)

\* While the call is there, videoTx is set as long as the media goroutine runs.
Registered == inTable => (videoTx <=> media \in {"loop", "clear"})

\* Who is under way with what.
WhoActs ==
  /\ Busy(Recv) => /\ th[Recv].pc \in {"apply", "announce"}
                   /\ th[Recv].op \in {"ungate", "disable"}
  /\ At(Recv, "announce") => th[Recv].op = "ungate"
  /\ \A t \in Apps : Busy(t) => th[t].op \in Operations /\ ~At(t, "announce")

OneOperation == \A s, t \in Threads : Busy(s) /\ Busy(t) => s = t

\* An operation on its own finds the flags as it set them.
Intended ==
  \A t \in Threads : inTable =>
    /\ At(t, "apply") \/ At(t, "announce") =>
         /\ flags.local <=> th[t].op \notin {"stop", "disable"}
         /\ flags.gate <=> th[t].op = "start"
    /\ Busy(t) /\ th[t].op = "enable" => ~flags.gate
    /\ At(t, "undoSender") => ~flags.local /\ ~flags.gate

\* An operation still has to change the sender it captured.
Pending(t) == th[t].pc \in {"apply", "undoSender", "announce"} /\ th[t].sender

\* Otherwise the sender does what the flags say: it does when it registers.
FollowsUnlessPending ==
  inTable /\ videoTx /\ (\A t \in Threads : ~Pending(t)) =>
    vs.active = flags.local /\ vs.gated = flags.gate

\* What an operation on its own captured is the sender there is.
NoneMissed ==
  inTable /\ videoTx => \A t \in Threads : MissesSender(t) => th[t].sender

AloneOK == OneOperation /\ Intended /\ FollowsUnlessPending /\ NoneMissed

\* A sender that is there lets nothing through.
SenderHeld == media = "loop" => ~vs.active \/ vs.gated

\* From a request to its answer nothing turns video on: the flags are closed for
\* a sender to come, nobody under way opens the sender there is, and the gate is
\* closed when the request goes out.
HeldSinceRequest ==
  request \in {"asking", "start"} =>
    /\ inTable => flags.gate \/ ~flags.local
    /\ \A t \in Threads : Busy(t) => th[t].op \in {"start", "stop", "disable"}
    /\ request = "start" => SenderHeld
    /\ request = "asking" =>
         \A t \in Threads : Busy(t) /\ th[t].op = "start" =>
           /\ \A u \in Threads : Busy(u) /\ th[u].op = "start" => u = t
           /\ At(t, "apply") => th[t].sender \/ SenderHeld
           /\ At(t, "send") => SenderHeld

FlagsInv == Registered /\ WhoActs /\ (alone => AloneOK) /\ HeldSinceRequest
=============================================================================
