---------------------------- MODULE MediaFormats ----------------------------
(***************************************************************************)
(* Everything a call says on the relay channel, byte by byte: what runMedia *)
(* (engine_media.go) sends to its peer and to the relay, what they send    *)
(* back, and what the receive loop, the relay or the peer reads in it.  A  *)
(* packet carries along what its sender meant by it.                       *)
(***************************************************************************)
EXTENDS StunPackets, SrtpRoc, CallPayloads

CONSTANTS
  Ssrc(_),              \* DeriveWasmParticipantSsrc of our participant, by slot
  PeerSsrc,             \* the peer's audio source
  Payloads,             \* MLow and Opus payloads to send
  Reports,              \* reception reports to send
  AccessUnits,          \* access units of a camera
  Aggregates,           \* NAL units that a peer sends together
  Emojis,               \* reactions; none takes a reaction back
  MaxPosts              \* bound: packets of a behaviour

VARIABLES
  ours,                 \* sequencers, pipelines and SRTCP indexes of runMedia
  readers,              \* receive loops of both ends, and their SFrame sessions
  mail,                 \* packets on the channel
  result,               \* what the last packet meant, and how it was read
  posts                 \* packets so far

wireVars == <<ours, readers, mail, result, posts>>

AudioSsrc == Ssrc(0)
VideoSsrc == Ssrc(2)
AppDataSsrc == Ssrc(6)

\* Keys of SRTCP and of the relay.
OurKey == DeriveE2eSrtcpKeys("call", "self")
PeerKey == DeriveE2eSrtcpKeys("call", "peer")
RelayKey == 3

\* One side's depacketizer, access unit under way and last reaction.
NewReader == [depack |-> NewDepacketizer, videoAU |-> <<>>, lastTransactionID |-> 0]

WireInit ==
  /\ ours = [audio |-> NewRtpStream(AudioSsrc, 2, FALSE), video |-> NewVideoRtpStream(VideoSsrc, 3),
             appData |-> NewAppDataSender, keyframeRequired |-> TRUE,
             audioPipe |-> NewSendPipe(DeriveE2eKeys("call", "self")),
             videoPipe |-> NewSendPipe(DeriveE2eKeys("call", "self")),
             audioIndex |-> 1, videoIndex |-> 1, sframe |-> NewSframeSession("self")]
  /\ readers = [us |-> NewReader, peer |-> NewReader]
  /\ mail = <<>> /\ posts = 0
  /\ result = [meant |-> [kind |-> "none"], read |-> [kind |-> "none"]]

-----------------------------------------------------------------------------
(* Reading.                                                                *)

\* External: the reports of a compound as a peer reads them (RFC 3550).
ReadPart(p) ==
  CASE At(p, 1) = 200 ->
         [ssrc |-> At(p, 4),
          stats |-> [timestamp |-> At(p, 16), packets |-> At(p, 20), octets |-> At(p, 24)],
          reports |-> IF At(p, 0) % 16 = 0 THEN <<>>
                      ELSE <<[ssrc |-> At(p, 28), fraction |-> At(p, 32), cumulative |-> At(p, 33),
                              highest |-> At(p, 36), jitter |-> At(p, 40),
                              lastSenderReport |-> At(p, 44), delay |-> At(p, 48)]>>]
    [] At(p, 1) = 202 -> [source |-> At(p, 4), length |-> At(p, 9)]
    [] OTHER -> [feedback |-> At(p, 1)]

ReadRtcp(data, key, videoSsrc) ==
  LET plain == UnprotectSrtcp(key, data)
      parts == Scan(LAMBDA x : TakeRtcp(x, 8), 8, [left |-> plain.rtcp, packets |-> <<>>]).packets
  IN IF Len(data) < 8 \/ Version(data) # 2 \/ ~plain.ok THEN [kind |-> "dropped"]
     ELSE [kind |-> "rtcp", index |-> plain.index, timing |-> SenderReportTimings(plain.rtcp),
           keyframe |-> RtcpRequestsKeyframe(plain.rtcp, videoSsrc),
           parts |-> [i \in DOMAIN parts |-> ReadPart(parts[i])]]

\* The depacketizer of the receive loop after a payload, and what came out.
Depacketized(reader, payload) == Depacketize(reader.depack, PayloadOf(payload))

\* videoAU with the NAL units of a payload.
Extended(reader, payload) ==
  LET out == Depacketized(reader, payload).nalus IN
  reader.videoAU \o AnnexB([i \in DOMAIN out |-> BytesOf(out[i])])

ReadRtp(data, reader) ==
  LET ByKind(r) == IF r = Refused THEN [kind |-> "dropped"] ELSE
       CASE r.header.kind = "video" ->
           [kind |-> "video", header |-> r.header,
            orientation |-> IF r.header.extension = NoExtension THEN 0
                            ELSE DisplayOrientation(r.header.extension.mediaFrameInfo),
            units |-> IF r.header.marker THEN SplitAnnexB(Extended(reader, r.payload)) ELSE <<>>]
         [] r.header.kind = "appdata" ->
           [kind |-> "appdata", header |-> r.header,
            report |-> ReceiveReaction(reader.lastTransactionID, decodeAppDataReactions(r.payload)).report]
         [] OTHER -> [kind |-> "rtp", header |-> r.header, payload |-> r.payload]
  IN IF RtpHeaderByteLength(data) = -1 THEN [kind |-> "dropped"] ELSE ByKind(OpenRtp(data))

\* The reader after a packet.
ReaderAfter(data, reader) ==
  LET ByKind(r) == IF r = Refused THEN reader ELSE
       CASE r.header.kind = "video" ->
           [reader EXCEPT !.depack = Depacketized(reader, r.payload).depack,
                          !.videoAU = IF r.header.marker THEN <<>> ELSE Extended(reader, r.payload)]
         [] r.header.kind = "appdata" ->
           [reader EXCEPT !.lastTransactionID = ReceiveReaction(@, decodeAppDataReactions(r.payload)).last]
         [] OTHER -> reader
  IN IF ClassifyRelayPacket(data) # "rtp" THEN reader ELSE ByKind(OpenRtp(data))

\* The receive loop: a binding request is answered, other STUN is not looked at.
ReadByLoop(data, reader, key, videoSsrc) ==
  CASE ClassifyRelayPacket(data) = "rtcp" -> ReadRtcp(data, key, videoSsrc)
    [] ClassifyRelayPacket(data) = "rtp" -> ReadRtp(data, reader)
    [] ClassifyRelayPacket(data) = "stun" /\ StunMessageType(data) = BindingRequest
         /\ Len(data) >= 20 -> [kind |-> "binding", tx |-> At(data, 8)]
    [] OTHER -> [kind |-> "dropped"]

\* External: a relay checks integrity and fingerprint over what is before them.
Covered(data, attrs, i, type, key) ==
  LET before == FlattenSeq([j \in 1..(i - 1) |-> StunAttr(attrs[j].type, attrs[j].value)]) IN
  attrs[i].type = type =>
    Head(attrs[i].value) = Digest(key, StunMessageType(data),
                                  Len(before) + 4 + Len(attrs[i].value), At(data, 8), before)

\* External: the streams a relay finds in an allocate request, as the places of
\* the three numbers in a descriptor.
TakeDescriptor(x) ==
  LET inner == SubSeq(x.left, 3, 2 + x.left[2])
      Of(tag) == LET at == {i \in 1..(Len(inner) - 1) : inner[i] = tag} IN
                 IF at = {} THEN 0 ELSE inner[Min(at) + 1]
  IN [left |-> SubSeq(x.left, 3 + x.left[2], Len(x.left)),
      streams |-> x.streams \cup {<<Of(8), Of(16), Of(24)>>}]

ReadStreams(value) == Scan(TakeDescriptor, 4, [left |-> value, streams |-> {}]).streams

ReadEndpoint(v) == [ipv4 |-> [i \in 1..4 |-> v[4 + i] ^^ XorCookie[i]], port |-> v[3] ^^ 8466]

\* External: what a relay makes of a packet of ours.
ReadByRelay(data) ==
  LET attrs == ParseStunAttributes(data)
      Value(type) == SelectSeq(attrs, LAMBDA a : a.type = type)[1].value
      sound == \A i \in DOMAIN attrs : /\ Covered(data, attrs, i, 8, RelayKey)
                                       /\ Covered(data, attrs, i, 32808, NoKey)
  IN IF ClassifyRelayPacket(data) # "stun" \/ At(data, 2) # Len(data) - 20 \/ ~sound
       THEN [kind |-> "dropped"]
     ELSE IF StunMessageType(data) # AllocateRequest
       THEN [kind |-> "stun", type |-> StunMessageType(data), tx |-> At(data, 8),
             attrs |-> [i \in DOMAIN attrs |-> attrs[i].type]]
     ELSE [kind |-> "allocate", token |-> Value(16384), streams |-> ReadStreams(Value(16420)),
           endpoint |-> ReadEndpoint(Value(22)), signed |-> Last(attrs).type = 8]

\* What the parsers of stun.go make of an answer.
ReadAnswer(data, tx) ==
  [kind |-> "answer", success |-> IsAllocateOrBindingSuccess(data),
   error |-> IF IsAllocateError(data) THEN ParseStunErrorCode(data) ELSE 0,
   pong |-> IsWhatsappPong(data, tx), attrs |-> Len(ParseStunAttributes(data))]

-----------------------------------------------------------------------------
(* Sending.                                                                *)

Transmit(packets) ==
  /\ mail = <<>> /\ posts < MaxPosts /\ posts' = posts + 1
  /\ mail' = packets
  /\ UNCHANGED <<readers, result>>

Dispatch(data, to, meant) == Transmit(<<[data |-> data, to |-> to, meant |-> meant]>>)

\* What the peer should find in an RTP header: no word of an audio extension.
HeaderMeant(h) ==
  [marker |-> h.marker, kind |-> h.kind, seq |-> h.seq, timestamp |-> h.timestamp, ssrc |-> h.ssrc,
   extension |-> IF h.kind = "video" THEN h.extension ELSE NoExtension]

RtpPacket(header, payload) == WithTag(EncodeRtpHeader(header) \o payload)

SendAudioPacket(payload) ==
  LET header == AudioHeader(ours.audio, PayloadClass(payload), FALSE) IN
  /\ Dispatch(RtpPacket(header, payload), "peer",
              [kind |-> "rtp", header |-> HeaderMeant(header), payload |-> payload])
  /\ ours' = [ours EXCEPT !.audio = NextAudio(@, PayloadClass(payload)),
                          !.audioPipe = Protect(@, header, Len(payload))]

\* An access unit, in as many packets as it takes; until one with an IDR, the
\* others are not sent.
SendAccessUnit(au, duration) ==
  LET Packet(header, payload, units) ==
        [data |-> RtpPacket(header, PayloadBytes(payload)), to |-> "peer",
         meant |-> [kind |-> "video", header |-> HeaderMeant(header), orientation |-> 0, units |-> units]]
      \* One more packet of what is sent so far, with the header the sequencer gives it.
      Add(x, header, payload, last) ==
        [video |-> NextVideo(x.video, last), pipe |-> Protect(x.pipe, header, Len(PayloadBytes(payload))),
         packets |-> Append(x.packets, Packet(header, payload, IF last THEN UnitsToSend(au) ELSE <<>>))]
      Start == [video |-> SetTimestampStride(ours.video, VideoRtpDurationSamples(duration, 3)),
                pipe |-> ours.videoPipe, packets |-> <<>>]
      Sequenced(payloads, info) ==
        FoldLeft(LAMBDA x, i : LET last == i = Len(payloads) IN
                   Add(x, VideoHeader(x.video, last, info), payloads[i], last),
                 Start, [i \in DOMAIN payloads |-> i])
      Send(x, idr) ==
        /\ ours.keyframeRequired => idr
        /\ Transmit(x.packets)
        /\ ours' = [ours EXCEPT !.video = x.video, !.videoPipe = x.pipe, !.keyframeRequired = @ /\ ~idr]
  IN /\ UnitsToSend(au) # <<>>
     /\ Send(Sequenced(PackageH264NALU(NaluOf(PackedAccessUnit(au))), IF AUHasIDR(au) THEN 32 ELSE 8),
             AUHasIDR(au))

\* A reaction: two of its copies, the second of which says nothing new.
SendReaction(emoji) ==
  LET begun == Begin(ours.appData, emoji)
      again == NextCopy(begun, TRUE)
      Copy(sender, report) ==
        LET header == [CopyHeader(sender) EXCEPT !.ssrc = AppDataSsrc] IN
        [data |-> RtpPacket(header, encodeAppDataReaction(begun.transactionID, emoji)), to |-> "peer",
         meant |-> [kind |-> "appdata", header |-> HeaderMeant(header), report |-> report]]
  IN /\ Transmit(<<Copy(begun, <<[id |-> begun.transactionID, emoji |-> emoji]>>), Copy(again, <<>>)>>)
     /\ ours' = [ours EXCEPT !.appData = NextCopy(again, FALSE)]

\* A frame for SframeSession.Decrypt at the other end.
SendSframe(plain) ==
  /\ Dispatch(SframeEncrypt(ours.sframe, plain), "sframe", [sframe |-> TRUE, plain |-> plain])
  /\ ours' = [ours EXCEPT !.sframe.txCounter = @ + 1]

StatsOf(pipe) == [timestamp |-> pipe.timestamp, packets |-> pipe.packets, octets |-> pipe.octets]

\* mediaSrtcpSender.senderReport.
PostReport(ssrc, pipe, index, reports, profile) ==
  LET now == 40 + posts IN
  Dispatch(ProtectSrtcp(OurKey, ssrc, index,
                    SenderReportWithSdes(ssrc, StatsOf(pipe), now, reports, profile)), "peer",
       [kind |-> "rtcp", index |-> index, timing |-> <<[ssrc |-> ssrc, at |-> now]>>,
        keyframe |-> FALSE,
        parts |-> <<[ssrc |-> ssrc, stats |-> StatsOf(pipe), reports |-> reports],
                    [source |-> ssrc, length |-> 18]>>])

SendAudioReport(reports) ==
  /\ PostReport(AudioSsrc, ours.audioPipe, ours.audioIndex, reports, FALSE)
  /\ ours' = [ours EXCEPT !.audioIndex = @ + 1]

\* The report of a video stream begins with its first packet.
SendVideoReport(reports) ==
  /\ ours.videoPipe.packets > 0
  /\ PostReport(VideoSsrc, ours.videoPipe, ours.videoIndex, reports, TRUE)
  /\ ours' = [ours EXCEPT !.videoIndex = @ + 1]

SendPing ==
  /\ Dispatch(Ping(posts), "relay",
          [kind |-> "stun", type |-> WhatsappPing, tx |-> posts, attrs |-> <<>>])
  /\ UNCHANGED ours

Token == <<5, 6, 7, 8, 9>>
RelayAddress == [ipv4 |-> <<10, 0, 255, 3>>, port |-> 3478]

\* DeriveWasmRelayStreamSsrcs: WasmRelayStreamSlotWords in order.
StreamSsrcs == LET slots == <<0, 1, 4, 2, 3, 5, 7, 8, 6>> IN [i \in 1..9 |-> Ssrc(slots[i])]

\* The sources of the three streams of the call stand where the relay expects
\* them, and a source of 0 is nobody's.
SendAllocate ==
  /\ Dispatch(AllocateWith(posts, Token, RelayAddress.ipv4, RelayAddress.port, StreamSsrcs, RelayKey), "relay",
          [kind |-> "allocate", token |-> Token, endpoint |-> RelayAddress, signed |-> TRUE,
           streams |-> {s \in {<<0, 0, Ssrc(0)>>, <<0, 1, Ssrc(1)>>, <<0, 2, Ssrc(4)>>,
                               <<1, 0, Ssrc(2)>>, <<1, 1, Ssrc(3)>>, <<1, 2, Ssrc(5)>>,
                               <<2, 0, Ssrc(7)>>, <<2, 1, Ssrc(8)>>, <<2, 2, Ssrc(6)>>} : s[3] # 0}])
  /\ UNCHANGED ours

-----------------------------------------------------------------------------
(* External: what comes from the peer and from the relay.                  *)

\* Picture loss, or a full intra request that lists its source, with or without
\* the bit that WhatsApp sets in the first byte.
Feedback(fmt, profile, media) ==
  IF fmt = 1
  THEN <<129 + 16 * Flag(profile), 206>> \o Field(2, 2) \o Field(PeerSsrc, 4) \o Field(media, 4)
  ELSE <<132 + 16 * Flag(profile), 206>> \o Field(4, 2) \o Field(PeerSsrc, 4) \o Field(0, 4)
         \o Field(media, 4) \o Field(0, 4)

PeerAsksKeyframe(fmt, profile, media) ==
  /\ Dispatch(ProtectSrtcp(PeerKey, PeerSsrc, 1,
            SenderReportWithSdes(PeerSsrc, StatsOf(NewSendPipe(PeerKey)), 40, <<>>, profile)
              \o Feedback(fmt, profile, media)), "us",
          [kind |-> "rtcp", index |-> 1, timing |-> <<[ssrc |-> PeerSsrc, at |-> 40]>>,
           keyframe |-> media = VideoSsrc,
           parts |-> <<[ssrc |-> PeerSsrc, stats |-> StatsOf(NewSendPipe(PeerKey)), reports |-> <<>>],
                       [source |-> PeerSsrc, length |-> 18], [feedback |-> 206]>>])
  /\ UNCHANGED ours

PeerHeader(kind, n) ==
  [marker |-> TRUE, kind |-> kind, seq |-> n, timestamp |-> n, ssrc |-> PeerSsrc,
   extension |-> [mediaFrameInfo |-> n % 4, frameNumber |-> NoFrameNumber, transportSequence |-> n]]

\* Small NAL units together in one packet, in any orientation.
PeerAggregates(units, n) ==
  /\ Dispatch(RtpPacket(PeerHeader("video", n),
                        PayloadBytes(PackageH264STAPA([i \in DOMAIN units |-> NaluOf(units[i])]))), "us",
              [kind |-> "video", header |-> HeaderMeant(PeerHeader("video", n)),
               orientation |-> CASE n % 4 = 1 -> 3 [] n % 4 = 3 -> 1 [] OTHER -> n % 4, units |-> units])
  /\ UNCHANGED ours

\* Reactions in one payload, each in a message after an unknown field; a number
\* of 0 spoils them all, and only one is reported.
PeerReacts(ids) ==
  LET message(id) == VarintField(5, 9) \o BytesField(1, <<24 + 5, 0, 0, 0, 0>> \o VarintField(1, id))
      payload == FlattenSeq([i \in DOMAIN ids |-> BytesField(1, message(ids[i]))]) \o BytesField(2, <<1>>)
      newer == SelectSeq(ids, LAMBDA id : id > readers.us.lastTransactionID)
      header == PeerHeader("appdata", 1)
  IN /\ Dispatch(RtpPacket(header, payload), "us",
            [kind |-> "appdata", header |-> HeaderMeant(header),
             report |-> IF 0 \in Range(ids) \/ newer = <<>> THEN <<>>
                        ELSE <<[id |-> newer[1], emoji |-> <<>>]>>])
     /\ UNCHANGED ours

\* A frame in the clear whose end looks like the header of SFrame, or does not.
PlainFrame(end) ==
  /\ Dispatch(Enciphered(Zeros(2 * GcmTagLen), SframeKey("none", "none"), "none", 0) \o end, "sframe", PlainOpus)
  /\ UNCHANGED ours

\* A stack with contributing sources and no extension.
PeerSendsPlainRtp(sources) ==
  /\ Dispatch(WithTag(<<128 + sources, 121>> \o Field(9, 2) \o Field(7, 4) \o Field(PeerSsrc, 4)
                    \o FlattenSeq([i \in 1..sources |-> Field(1, 4)]) \o <<80, 1>>), "us",
          [kind |-> "rtp", payload |-> <<80, 1>>,
           header |-> [marker |-> FALSE, kind |-> "audio", seq |-> 9, timestamp |-> 7,
                       ssrc |-> PeerSsrc, extension |-> NoExtension]])
  /\ UNCHANGED ours

RelayAsks ==
  /\ Dispatch(StunHeader(BindingRequest, 0, posts), "us", [kind |-> "binding", tx |-> posts])
  /\ UNCHANGED ours

RelayAnswers(type) ==
  LET software == StunAttr(32802, <<97, 98, 99>>)
      last == IF type = AllocateError THEN StunAttr(9, <<0, 0, 4, 86, 33>>) ELSE <<>>
  IN /\ Dispatch(EncodeStunRequest(type, posts, software \o last, NoKey, FALSE), "user",
             [kind |-> "answer", success |-> type \in {AllocateSuccess, BindingSuccess},
              error |-> IF type = AllocateError THEN 486 ELSE 0,
              pong |-> type = WhatsappPong, attrs |-> IF last = <<>> THEN 1 ELSE 2])
     /\ UNCHANGED ours

-----------------------------------------------------------------------------
Read(m) ==
  CASE m.to = "peer" -> ReadByLoop(m.data, readers.peer, OurKey, 0)
    [] m.to = "us" -> ReadByLoop(m.data, readers.us, PeerKey, VideoSsrc)
    [] m.to = "relay" -> ReadByRelay(m.data)
    [] m.to = "sframe" -> SframeDecrypt(NewSframeSession("peer"), m.data)
    [] OTHER -> ReadAnswer(m.data, posts - 1)

BindingAnswer(tx) ==
  [data |-> EncodeStunRequest(BindingSuccess, tx, <<>>, RelayKey, TRUE), to |-> "relay",
   meant |-> [kind |-> "stun", type |-> BindingSuccess, tx |-> tx, attrs |-> <<8, 32808>>]]

\* A packet arrives; the loop answers a binding request under its number, and a
\* keyframe request makes the sender wait for an IDR.
Arrive ==
  /\ mail # <<>>
  /\ LET Take(m, r, end) ==
           /\ result' = [meant |-> m.meant, read |-> r]
           /\ mail' = IF end = "us" /\ r.kind = "binding" THEN <<BindingAnswer(r.tx)>> ELSE Tail(mail)
           /\ readers' = IF end \in {"us", "peer"} THEN [readers EXCEPT ![end] = ReaderAfter(m.data, @)]
                         ELSE readers
           /\ ours' = IF end = "us" /\ r.kind = "rtcp" THEN [ours EXCEPT !.keyframeRequired = @ \/ r.keyframe]
                      ELSE ours
     IN Take(Head(mail), Read(Head(mail)), Head(mail).to)
  /\ UNCHANGED posts

-----------------------------------------------------------------------------
\* Every packet is told apart from the other kinds and read as it was meant,
\* whatever was sent before it: header lengths and extensions, compounds with
\* and without a reception block, keyframe requests with and without WhatsApp's
\* profile bit, and the lengths that integrity and fingerprint cover (rtp.go,
\* rtcp.go, e2e.go, stun.go, relay.go against the loop of runMedia).
ReadAsMeant == result.read = result.meant
=============================================================================
