---------------------------- MODULE MediaReceive ----------------------------
(***************************************************************************)
(* One RTP stream from end to end: a peer that runs the send side of this  *)
(* library, the relay, which loses, repeats and reorders packets, and the  *)
(* receive loop of runMedia with everything behind it (engine_media.go).   *)
(*                                                                         *)
(* The three kinds of stream share the pipeline and differ in what the     *)
(* loop does with the payload; a behaviour follows one of them.            *)
(***************************************************************************)
EXTENDS SrtpRoc, RtpStream, RtcpReception, AudioPlayout, H264Packet, AppData,
        FiniteSets

CONSTANTS
  Kinds,                \* of \{"audio", "video", "appdata"\}: the streams to follow
  Delay,                \* a packet is overtaken by fewer than Delay packets
  MaxPackets,           \* bound: packets sent
  MaxExtras,            \* bound: packets delivered twice, reports made and
                        \* writes of a sink that fail
  Lens,                 \* samples the decoder returns for a packet
  Bodies,               \* bytes of an access unit after its first
  MaxReactions          \* bound: reactions sent

\* A loop follows a known kind of stream; a decoded packet has a length; and a
\* timestamp does not come round before the sequence number does twice, with
\* the largest gap between (960 * 2^16 + 32000 against 2^32).
ASSUME StreamAssumption ==
  /\ Kinds \subseteq {"audio", "video", "appdata"}
  /\ Lens \subseteq Nat /\ Bodies \subseteq Nat /\ MaxReactions \in Nat
  /\ FrameLen * SeqSpace + MaxGap <= TsMod

\* A sink fails at its first, its second or none (9) of the writes of one push.
Failures == {1, 2, 9}

VARIABLES
  kind,                 \* the stream this behaviour follows
  peer,                 \* the sender: pipeline, sequencer, packets sent, and
                        \* the access unit under way with its unsent payloads
  app,                  \* its reactions, and the end of its media goroutine
  net,                  \* packets in flight
  extras,               \* how many of these there were
  rx,                   \* the receive pipeline of the stream
  high,                 \* index of the highest packet since the last key
  stats,                \* reception statistics of the stream
  play,                 \* audio: the playout buffer
  video,                \* video: the depacketizer and videoAU
  reactions,            \* appdata: lastTransactionID
  ended,                \* the loop has returned
  opened,               \* history: the key the last packet was opened with, and
                        \* whether what had been sent came out
  seen,                 \* history: true first and highest packet, and the
                        \* loss when the last report was made
  heard,                \* history: what the sink got since the last restart
  frame,                \* history: the access unit under way, and what the
                        \* last marker led to
  reported              \* history: reactions told to the application

sender == <<peer, app>>
loop == <<rx, high, stats, play, video, reactions, ended>>
history == <<opened, seen, heard, frame, reported>>
vars == <<kind, sender, net, extras, loop, history>>

\* The answering device has the key "peer"; runMedia may start with another one.
Keys == {"peer", "other"}

Stream(k) ==
  CASE k = "audio" -> NewRtpStream("peer", FrameLen, FALSE)
    [] k = "video" -> NewVideoRtpStream("peer", FrameLen)
    [] OTHER       -> [ssrc |-> "peer"]

Init ==
  /\ kind \in Kinds
  /\ peer = [pipe |-> NewSendPipe("peer"), stream |-> Stream(kind), sent |-> 0,
             unit |-> <<>>, rest |-> <<>>]
  /\ app = [tx |-> NewAppDataSender, close |-> "no"]
  /\ net = {} /\ extras = 0
  /\ rx \in {NewRecvPipe(k) : k \in Keys}
  /\ high = -1
  /\ stats = NewReception
  /\ play = NewPlayout
  /\ video = [depack |-> NewDepacketizer, au |-> <<>>]
  /\ reactions = 0
  /\ ended = FALSE
  /\ opened = [key |-> "other", same |-> FALSE]
  /\ seen = [first |-> -1, high |-> -1, lostBefore |-> 0]
  /\ heard = [first |-> -1, last |-> -1, samples |-> 0, ever |-> -1,
              disorder |-> FALSE, replay |-> FALSE, late |-> FALSE]
  /\ frame = [next |-> 0, whole |-> TRUE, checked |-> FALSE, out |-> <<>>,
              unit |-> <<>>, part |-> 0]
  /\ reported = [times |-> [r \in 1..MaxReactions |-> 0], due |-> {}]

-----------------------------------------------------------------------------
(* The sender.                                                             *)

\* A packet as it travels (wire, marker, timestamp) with its place in the
\* stream, what was sealed in it and the part of which unit it is.
Packet(header, payload, unit, part) ==
  [wire |-> ProtectedPacket(peer.pipe, header, payload),
   marker |-> header.marker, timestamp |-> header.timestamp,
   index |-> peer.sent, sent |-> payload, unit |-> unit, part |-> part]

MaySend(n) == peer.sent + n <= MaxPackets /\ ~ended

\* What one more packet does not overtake by Delay or more; the rest is lost.
Remaining == {p \in net : peer.sent + 1 - p.index <= Delay}

\* The peer's send loop.
SendAudio(class) ==
  LET header == AudioHeader(peer.stream, class, FALSE) IN
  /\ kind = "audio" /\ MaySend(1)
  /\ net' = Remaining \cup {Packet(header, <<peer.sent>>, <<>>, 0)}
  /\ peer' = [peer EXCEPT !.pipe = Protect(@, header, 1),
                          !.stream = NextAudio(@, class),
                          !.sent = @ + 1]
  /\ UNCHANGED <<kind, app, extras, loop, history>>

\* videoSender.send: one access unit, packed as one NAL unit.
BeginUnit(bytes) ==
  LET nalu == <<[type |-> 1, nri |-> 3]>> \o [i \in 1..bytes |-> <<peer.sent, i>>]
  IN /\ kind = "video" /\ peer.rest = <<>>
     /\ MaySend(Len(PackageH264NALU(nalu)))
     /\ peer' = [peer EXCEPT !.unit = nalu, !.rest = PackageH264NALU(nalu)]
     /\ UNCHANGED <<kind, net, app, extras, loop, history>>

\* One packet of the unit after the other is sealed and goes out.
SendVideo ==
  LET last   == Len(peer.rest) = 1
      header == VideoHeader(peer.stream, last, "delta")
      part   == Len(PackageH264NALU(peer.unit)) - Len(peer.rest) + 1
  IN /\ kind = "video" /\ peer.rest # <<>> /\ ~ended
     /\ net' = Remaining \cup {Packet(header, Head(peer.rest), peer.unit, part)}
     /\ peer' = [peer EXCEPT !.pipe = Protect(@, header, 1),
                             !.stream = NextVideo(@, last),
                             !.sent = @ + 1,
                             !.rest = Tail(@)]
     /\ UNCHANGED <<kind, app, extras, loop, history>>

\* sendReaction takes the lock, if the stream is still there.
BeginReaction ==
  /\ kind = "appdata" /\ Unlocked(app.tx) /\ app.tx.sendPacket
  /\ app.tx.transactionID < MaxReactions /\ peer.sent + Copies <= MaxPackets
  /\ app' = [app EXCEPT !.tx = Begin(@, "emoji")]
  /\ UNCHANGED <<kind, peer, net, extras, loop, history>>

\* One copy goes out, or the channel is down and sendReaction returns.
SendCopy(ok) ==
  LET header == CopyHeader(app.tx)
      payload == <<[id |-> app.tx.transactionID, emoji |-> app.tx.lock.emoji]>>
  IN /\ app.tx.lock.left > 0
     /\ app' = [app EXCEPT !.tx = NextCopy(@, ok)]
     /\ peer' = [peer EXCEPT !.pipe = Protect(@, header, 1), !.sent = @ + 1]
     /\ net' = Remaining \cup IF ok THEN {Packet(header, payload, <<>>, 0)} ELSE {}
     /\ UNCHANGED <<kind, extras, loop, history>>

\* The peer's media goroutine returns; the deferred close of the reactions
\* waits for the lock, and nothing goes out after it.
AskClose ==
  /\ kind = "appdata" /\ app.close = "no"
  /\ app' = [app EXCEPT !.close = "waiting"]
  /\ UNCHANGED <<kind, peer, net, extras, loop, history>>

DoClose ==
  /\ app.close = "waiting" /\ Unlocked(app.tx)
  /\ app' = [tx |-> CloseSender(app.tx), close |-> "done"]
  /\ UNCHANGED <<kind, peer, net, extras, loop, history>>

-----------------------------------------------------------------------------
(* The relay.                                                              *)

\* What the guess of the counter rests on: packets that get through are less
\* than half the sequence space apart, and the first one after a change of key
\* is from before the first wrap.
WithinReach(p) ==
  /\ IF rx.roc.initialized THEN Abs(p.index - high) < Half ELSE p.index + 1 < SeqSpace
  /\ seen.high # -1 => Abs(p.index - seen.high) < Half

\* The relay delivers p, and keeps it if it will deliver it again.
Arrives(p) ==
  /\ ~ended /\ WithinReach(p)
  /\ net' \in {net, net \ {p}}

Bounded(n) == extras + n <= MaxExtras /\ extras' = extras + n

Again(p) == IF p \in net' THEN 1 ELSE 0
Failing(fails) == IF fails \in 1..2 THEN 1 ELSE 0

-----------------------------------------------------------------------------
(* The receive loop.                                                       *)

\* rekeyPeer reaches the pipeline of this stream.
Rekey ==
  /\ rx.key # "peer" /\ ~ended
  /\ rx' = RekeyRecv(rx, "peer")
  /\ high' = -1
  /\ UNCHANGED <<kind, sender, net, extras, stats, play, video, reactions,
                 ended, history>>

\* The part of an iteration all kinds share.
Unprotected(p) ==
  LET u == Unprotect(rx, p.wire) IN
  /\ rx' = u.pipe
  /\ high' = Max({high, p.index})
  /\ opened' = [key |-> rx.key, same |-> u.payload = p.sent]

Observed(p) ==
  /\ stats' = Observe(stats, p.wire.ssrc, p.wire.seq)
  /\ seen' = [seen EXCEPT !.first = IF @ = -1 THEN p.index ELSE @,
                          !.high = Max({@, p.index})]

\* The sink's view: what it gets between two restarts has to be in order.
Taken(h, written) ==
  IF written = <<>> THEN h
  ELSE [h EXCEPT
         !.last = Last(written).index,
         !.samples = @ + SamplesIn(written),
         !.ever = Max({@, Last(written).index}),
         !.disorder = @ \/ \E i \in DOMAIN written :
           written[i].index <= IF i = 1 THEN h.last ELSE written[i - 1].index,
         !.replay = @ \/ \E i \in DOMAIN written : written[i].index <= h.ever]

Hears(written, restarted, p) ==
  LET fresh == IF restarted
                 THEN [heard EXCEPT !.first = p.index, !.last = -1, !.samples = 0]
                 ELSE [heard EXCEPT !.first = IF @ = -1 THEN p.index ELSE @]
  IN heard' = [Taken(fresh, written) EXCEPT !.late = @ \/ p.index <= seen.high]

\* An audio packet: decoded, whatever came out, and pushed to the playout;
\* the sink, if one is attached, fails at the write numbered fails.
ReceiveAudio(p, len, sink, fails) ==
  LET f == [timestamp |-> p.timestamp, len |-> len, index |-> p.index]
      r == Push(play, f, sink, fails)
  IN /\ kind = "audio" /\ Arrives(p) /\ Bounded(Again(p) + Failing(fails))
     /\ Unprotected(p) /\ Observed(p)
     /\ ~sink => fails = Max(Failures)
     /\ play' = r.buffer
     /\ Hears(r.written, play.pending # NoFrame /\ Restarts(play, p.timestamp), p)
     /\ UNCHANGED <<kind, sender, video, reactions, ended, frame, reported>>

\* Noise may look like the begin of a fragmented unit, among other things.
Garbled ==
  LET header == [type |-> 0, nri |-> 0] IN
  {Truncated, [form |-> "fua", header |-> header, start |-> TRUE, end |-> FALSE,
               body |-> << <<-1, 0>> >>]}

\* A video packet: NAL units are collected in videoAU, and handed to the sink
\* with the marker.
ReceiveVideo(p, garbled) ==
  LET payload == Unprotect(rx, p.wire).payload
      d  == Depacketize(video.depack, IF payload = Noise THEN garbled ELSE payload)
      au == video.au \o d.nalus
      emits == p.marker /\ au # <<>>
      whole == frame.whole /\ p.index = frame.next /\ payload # Noise
  IN /\ kind = "video" /\ Arrives(p) /\ Bounded(Again(p))
     /\ payload # Noise => garbled = Truncated
     /\ Unprotected(p) /\ Observed(p)
     /\ video' = [depack |-> d.depack, au |-> IF emits THEN <<>> ELSE au]
     /\ frame' = [next |-> p.index + 1,
                  whole |-> p.marker \/ whole,
                  checked |-> p.marker /\ whole,
                  out |-> IF emits THEN au ELSE <<>>,
                  unit |-> p.unit, part |-> p.part]
     /\ UNCHANGED <<kind, sender, play, reactions, ended, heard, reported>>

\* A reaction: noise does not decode, and nothing is reported.
ReceiveAppData(p) ==
  LET payload == Unprotect(rx, p.wire).payload
      r == IF payload = Noise THEN [last |-> reactions, report |-> <<>>]
           ELSE ReceiveReaction(reactions, payload)
      id == IF payload = Noise THEN 0 ELSE payload[1].id
  IN /\ kind = "appdata" /\ Arrives(p) /\ Bounded(Again(p))
     /\ Unprotected(p)
     /\ reactions' = r.last
     /\ reported' = [times |-> [i \in DOMAIN reported.times |->
                       reported.times[i] + Cardinality({k \in DOMAIN r.report : r.report[k].id = i})],
                     due |-> IF id > 0 /\ \A i \in reported.due : i < id
                               THEN reported.due \cup {id} ELSE reported.due]
     /\ UNCHANGED <<kind, sender, stats, play, video, ended, seen, heard, frame>>

\* The loop returns, and the playout is flushed.
EndLoop(sink, fails) ==
  LET r == Flush(play, sink, fails) IN
  /\ ~ended /\ ended' = TRUE
  /\ play' = r.buffer
  /\ heard' = Taken(heard, r.written)
  /\ Bounded(Failing(fails))
  /\ UNCHANGED <<kind, sender, net, rx, high, stats, video, reactions,
                 opened, seen, frame, reported>>

\* The report ticker.
MakeReport ==
  /\ stats.hasSsrc /\ ~ended
  /\ stats' = AfterReport(stats)
  /\ seen' = [seen EXCEPT !.lostBefore = Report(stats).cumulative]
  /\ stats' # stats
  /\ Bounded(1)
  /\ UNCHANGED <<kind, sender, net, rx, high, play, video, reactions, ended, opened,
                 heard, frame, reported>>

Next ==
  \/ \E class \in {"speech", "dtx"} : SendAudio(class)
  \/ \E bytes \in Bodies : BeginUnit(bytes)
  \/ SendVideo
  \/ BeginReaction
  \/ \E ok \in BOOLEAN : SendCopy(ok)
  \/ AskClose
  \/ DoClose
  \/ \E sink \in BOOLEAN, fails \in Failures : EndLoop(sink, fails)
  \/ Rekey
  \/ \E p \in net, len \in Lens, sink \in BOOLEAN, fails \in Failures :
       ReceiveAudio(p, len, sink, fails)
  \/ \E p \in net, garbled \in Garbled : ReceiveVideo(p, garbled)
  \/ \E p \in net : ReceiveAppData(p)
  \/ MakeReport

\* The sleep between copies ends, and a free lock is handed over.
Spec ==
  /\ Init /\ [][Next]_vars
  /\ WF_vars(\E ok \in BOOLEAN : SendCopy(ok))
  /\ SF_vars(DoClose)
-----------------------------------------------------------------------------
(* Properties.                                                             *)

\* RocTracker and RecvRocTracker agree on the index of every packet that gets
\* through, around wraps, losses, repeats and late packets: with the right key
\* the loop sees what was sealed.
DecryptsInStep == opened.key = "peer" => opened.same

\* RtcpReceptionStats: what the next report will say is true of the stream,
\* whatever was late or repeated: the highest number with its cycles, how many
\* packets there should be, and the loss since the last report.
ReportIsTrue ==
  stats.hasSsrc =>
    /\ Report(stats).highest = seen.high + 1
    /\ Expected(stats) = seen.high - seen.first + 1
    /\ (Expected(stats) - stats.expectedPrior) - (stats.received - stats.receivedPrior)
         = Report(stats).cumulative - seen.lostBefore

\* audioPlayoutBuffer: between two restarts the sink gets frames in the order
\* they were spoken, each once; it may hear one again only after a late packet
\* restarted the playout.
PlaysInOrder == ~heard.disorder /\ (heard.replay => heard.late)

\* alignAudioFrame: what was played and is waiting never lasts longer than
\* what the peer has spoken since the playout restarted, whatever the decoder
\* returned for each packet.
NeverAhead ==
  play.pending # NoFrame =>
    heard.samples + play.prefillSamples <= FrameLen * (play.pending.index - heard.first)

\* Depacketize and videoAU: an access unit whose packets arrive in order after
\* the end of another comes out as it was sent, whatever remained of earlier ones.
AccessUnitWhole == frame.checked => frame.out = <<frame.unit>>

\* appDataReceiver: a reaction that arrives before any newer one is reported
\* once, however many of its copies arrive; no other is reported.
ReactionsOnce ==
  \A id \in DOMAIN reported.times :
    reported.times[id] = IF id \in reported.due THEN 1 ELSE 0

\* appDataSender.close: the media goroutine gets the lock in the end, also when
\* reactions are being sent or cannot be sent.
CloseReturns == app.close = "waiting" ~> app.close = "done"
-----------------------------------------------------------------------------
(* The inductive invariants behind these properties.                       *)

\* How the n-th number of a stream travels, and what only the ends count.
Extends(n, roc, seq) == seq = n % SeqSpace /\ roc = (n \div SeqSpace) % RocMod

\* A counter that has come to the n-th number.
CountsTo(t, n) ==
  /\ DOMAIN t = {"roc", "seq", "initialized"} /\ t.initialized
  /\ Extends(n, t.roc, t.seq)

\* The number the sequencer gives the next packet.
NextNumber == IF kind = "appdata" THEN CopyHeader(app.tx).seq ELSE peer.stream.seq

\* The records have the fields they began with.
Shapes ==
  /\ kind \in {"audio", "video", "appdata"}
  /\ DOMAIN peer = {"pipe", "stream", "sent", "unit", "rest"}
  /\ DOMAIN peer.pipe = {"key", "roc", "packets", "octets", "timestamp"}
  /\ kind = "audio" => DOMAIN peer.stream = DOMAIN NewRtpStream("peer", FrameLen, FALSE)
  /\ kind = "video" => DOMAIN peer.stream = DOMAIN NewVideoRtpStream("peer", FrameLen)
  /\ DOMAIN app = {"tx", "close"}
  /\ DOMAIN app.tx = DOMAIN NewAppDataSender
  /\ DOMAIN app.tx.lock = DOMAIN Free
  /\ DOMAIN rx = {"key", "roc"}

\* The sender's counter and sequencer are where the number of packets says.
SenderCounts ==
  /\ peer.sent \in Nat /\ peer.pipe.key = "peer"
  /\ IF peer.sent = 0 THEN peer.pipe.roc = NewRoc ELSE CountsTo(peer.pipe.roc, peer.sent)
  /\ peer.stream.ssrc = "peer"
  /\ NextNumber = (peer.sent + 1) % SeqSpace
  /\ app.tx.lock.left > 0 => kind = "appdata"

\* Packets in flight carry the number of their place.
NetCounts ==
  \A p \in net :
    /\ p.index \in 0..peer.sent - 1
    /\ p.wire.key = "peer" /\ p.wire.ssrc = "peer" /\ p.wire.payload = p.sent
    /\ Extends(p.index + 1, p.wire.roc, p.wire.seq)

\* The receiver's counter is where the highest packet since the last key is.
LoopCounts ==
  IF high = -1 THEN rx.roc = NewRoc
  ELSE high \in Nat /\ CountsTo(rx.roc, high + 1)

StreamInv == Shapes /\ SenderCounts /\ NetCounts /\ LoopCounts /\ DecryptsInStep

\* The statistics before the first packet, and after it.
StatsInv ==
  /\ kind = "appdata" => ~stats.hasSsrc
  /\ IF ~stats.hasSsrc
       THEN /\ stats = NewReception /\ seen = [first |-> -1, high |-> -1, lostBefore |-> 0]
            /\ kind # "appdata" => high = -1
       ELSE /\ DOMAIN stats = DOMAIN NewReception /\ DOMAIN seen = {"first", "high", "lostBefore"}
            /\ stats.ssrc = "peer" /\ stats.received \in Nat
            /\ seen.first \in Nat /\ seen.high \in Nat
            /\ stats.base = seen.first + 1
            /\ stats.max = (seen.high + 1) % SeqSpace
            /\ stats.cycles + stats.max = seen.high + 1
            /\ stats.cycles \in Int /\ stats.expectedPrior \in Int /\ stats.receivedPrior \in Nat
            /\ stats.expectedPrior - stats.receivedPrior = seen.lostBefore

\* A reaction as its copies carry it.
Reaction == [id : 1..MaxReactions, emoji : {"emoji"}]

\* The last reaction reported is the newest of those that were due.
ReactionsInv ==
  /\ app.tx.transactionID \in 0..MaxReactions
  /\ app.tx.lock.left > 0 => app.tx.transactionID > 0 /\ app.tx.lock.emoji = "emoji"
  /\ kind = "appdata" => \A p \in net : \E r \in Reaction : p.sent = <<r>>
  /\ DOMAIN reported = {"times", "due"}
  /\ reported.times = [i \in 1..MaxReactions |-> IF i \in reported.due THEN 1 ELSE 0]
  /\ reported.due \subseteq 1..reactions
  /\ reactions \in {0} \cup (1..MaxReactions \cap reported.due)

\* A decoded packet in the playout.
Frames == [timestamp : Nat, len : Nat, index : Nat]

\* Spoken after lo and before hi, each after the one before it.
Ascends(frames, lo, hi) ==
  /\ \A i \in 1..Len(frames) : lo < frames[i].index /\ frames[i].index < hi
  /\ \A i, j \in 1..Len(frames) : i < j => frames[i].index < frames[j].index

\* Timestamps say when a packet was spoken.
Timed ==
  kind = "audio" =>
    /\ peer.stream.samplesPerPacket = FrameLen
    /\ peer.stream.timestamp = (FrameLen * peer.sent) % TsMod
    /\ \A p \in net : p.timestamp = (FrameLen * p.index) % TsMod

PlayShapes ==
  /\ DOMAIN play = DOMAIN NewPlayout
  /\ DOMAIN heard = {"first", "last", "samples", "ever", "disorder", "replay", "late"}
  /\ heard.last \in Int /\ heard.ever \in Int /\ heard.samples \in Nat
  /\ play.prefill \in Seq(Frames)
  /\ play.prefillSamples = SamplesIn(play.prefill)
  /\ play.started => play.prefill = <<>>

\* Before the first packet, and after the last.
NothingWaits ==
  \/ ended
  \/ /\ ~play.started /\ play.prefill = <<>>
     /\ heard.first = -1 /\ heard.last = -1 /\ heard.samples = 0 /\ heard.ever = -1

\* The pending frame is the newest but for late ones; what was collected lies
\* between what was played and it, and lasts no longer than it took to speak.
FrameWaits ==
  /\ play.pending \in Frames
  /\ play.pending.timestamp = (FrameLen * play.pending.index) % TsMod
  /\ seen.high \in Nat
  /\ play.pending.index <= seen.high /\ seen.high - play.pending.index < Half
  /\ heard.first \in Nat /\ heard.last < play.pending.index
  /\ Ascends(play.prefill, heard.last, play.pending.index)
  /\ ~heard.late => heard.ever < play.pending.index
                    /\ Ascends(play.prefill, heard.ever, play.pending.index)
  /\ heard.samples + play.prefillSamples <= FrameLen * (play.pending.index - heard.first)

PlayInv ==
  /\ Timed /\ PlayShapes /\ PlaysInOrder
  /\ kind # "audio" => play.pending = NoFrame
  /\ IF play.pending = NoFrame THEN NothingWaits ELSE FrameWaits

\* A unit larger than the depacketizer takes is dropped: these are not.
UnitsFit == \A bytes \in Bodies : bytes + 1 <= MaxReassembly

PartCount(unit) == Len(PackageH264NALU(unit))

\* A unit of the sender: a header and one of the bodies.
IsUnit(unit) ==
  /\ unit = [i \in 1..Len(unit) |-> unit[i]]
  /\ Len(unit) \in {n + 1 : n \in Bodies}

\* Parts of the unit under way that went out.
SentParts == PartCount(peer.unit) - Len(peer.rest)

\* What comes after the packet numbered i, in flight and at the sender.
Precedes(i, unit, part) ==
  /\ \A p \in net : p.index = i + 1 =>
       IF part = PartCount(unit) THEN p.part = 1 ELSE p.unit = unit /\ p.part = part + 1
  /\ i + 1 = peer.sent =>
       IF SentParts = 0 THEN part = PartCount(unit)
       ELSE unit = peer.unit /\ part = SentParts

\* The packets of a unit follow each other.
UnitsInOrder ==
  /\ peer.unit = <<>> \/ IsUnit(peer.unit)
  /\ SentParts \in 0..PartCount(peer.unit)
  /\ peer.rest = SubSeq(PackageH264NALU(peer.unit), SentParts + 1, PartCount(peer.unit))
  /\ \A p \in net :
       /\ IsUnit(p.unit) /\ p.part \in 1..PartCount(p.unit)
       /\ p.sent = PackageH264NALU(p.unit)[p.part]
       /\ p.marker <=> p.part = PartCount(p.unit)
       /\ Precedes(p.index, p.unit, p.part)
  /\ Precedes(frame.next - 1, frame.unit, frame.part)

\* In the middle of a unit that is whole so far the depacketizer has what came,
\* and nothing is left of earlier ones.
Reassembles ==
  /\ frame.next \in 0..peer.sent
  /\ IF frame.part = 0 THEN frame.unit = <<>>
     ELSE IsUnit(frame.unit) /\ frame.part \in 1..PartCount(frame.unit)
  /\ frame.whole =>
       /\ video.au = <<>>
       /\ frame.part # PartCount(frame.unit) =>
            /\ video.depack.fuActive
            /\ video.depack.fuBuf = <<Head(frame.unit)>>
                 \o SubSeq(Tail(frame.unit), 1, frame.part * FragSize)

UnitsInv ==
  /\ DOMAIN video = {"depack", "au"} /\ DOMAIN video.depack = DOMAIN NewDepacketizer
  /\ IF kind = "video" THEN UnitsInOrder /\ Reassembles ELSE ~frame.checked
  /\ AccessUnitWhole
=============================================================================
