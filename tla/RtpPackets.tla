----------------------------- MODULE RtpPackets -----------------------------
(***************************************************************************)
(* Packets of a call as they stand on the wire: RTP (rtp/rtp.go), compound *)
(* RTCP (rtp/rtcp.go) and its SRTCP envelope (srtp/e2e.go).  A packet is a *)
(* sequence of cells, one per byte.  A field of several bytes is its value *)
(* in the first cell and Rest in the others, so lengths and offsets are    *)
(* those of the code and a misread offset shows.                           *)
(***************************************************************************)
EXTENDS RtpStream, Sequences, SequencesExt, FiniteSetsExt

CONSTANTS
  TagLen,               \* warpMITagLen
  SrtcpTagLen,          \* SrtcpAuthTagLen
  IndexTop              \* 2^31: the bit over the SRTCP index

Rest == -1
Garbled == -2

Field(v, n) == <<v>> \o [i \in 1..(n - 1) |-> Rest]
Zeros(n) == [i \in 1..n |-> 0]

\* data[i], data[a:b] and data[a:].
At(data, i) == data[i + 1]
Slice(data, a, b) == SubSeq(data, a + 1, b)
From(data, a) == SubSeq(data, a + 1, Len(data))

Flag(b) == IF b THEN 1 ELSE 0
BitOf(b, i) == (b \div 2^i) % 2
Version(data) == At(data, 0) \div 64

\* A scan of a sequence from the front: Op takes at least unit cells off a scan,
\* and ends it by emptying what is left.
Scan(Op(_), unit, start) ==
  FoldLeft(LAMBDA x, i : IF x.left = <<>> THEN x ELSE Op(x), start,
           [i \in 1..(Len(start.left) \div unit + 1) |-> i])

-----------------------------------------------------------------------------
(* RTP.                                                                    *)

PayloadType(kind) == CASE kind = "audio" -> 120 [] kind = "video" -> 97 [] OTHER -> 119

\* WhatsappRtpExtensionProfile.
ExtensionProfile == 57022

\* Both audio words, DTX and piggyback, are 0x30010000.
AudioWord == <<48, 1, 0, 0>>

Elements(e) ==
  (IF e.frameNumber = NoFrameNumber THEN <<48, e.mediaFrameInfo>>
   ELSE <<50, e.mediaFrameInfo>> \o Field(e.frameNumber, 2))
  \o <<81>> \o Field(0, 2) \o <<97>> \o Field(0, 2) \o <<145>> \o Field(e.transportSequence, 2)

\* Faulty variant: the elements are not padded to words.
VideoExtension_NoPadding(e) == Elements(e)

\* VideoRtpExtension.encode.
VideoExtension(e) == LET els == Elements(e) IN els \o Zeros((4 - (Len(els) % 4)) % 4)

Extension(h) ==
  CASE h.kind = "video" -> VideoExtension(h.extension)
    [] h.kind = "audio" /\ h.extension # NoWord -> AudioWord
    [] OTHER -> <<>>

\* EncodeRtpHeader: with an extension header always, and perhaps nothing in it.
EncodeRtpHeader(h) ==
  <<144, 128 * Flag(h.marker) + PayloadType(h.kind)>> \o Field(h.seq, 2)
  \o Field(h.timestamp, 4) \o Field(h.ssrc, 4)
  \o Field(ExtensionProfile, 2) \o Field(Len(Extension(h)) \div 4, 2) \o Extension(h)

HasExtension(data) == BitOf(At(data, 0), 4) = 1

FixedLen(data) == 12 + 4 * (At(data, 0) % 16)

\* Where the extension ends; -1 where the packet ends before it does.
ExtensionEnd(data) ==
  LET fixed == FixedLen(data)
      words == At(data, fixed + 2)
  IN IF Len(data) < fixed + 4 \/ Len(data) < fixed + 4 + 4 * words THEN -1
     ELSE fixed + 4 + 4 * words

\* RtpHeaderByteLength; -1 for what is no RTP packet.
RtpHeaderByteLength(data) ==
  IF Len(data) < 12 \/ Version(data) # 2 \/ Len(data) < FixedLen(data) THEN -1
  ELSE IF HasExtension(data) THEN ExtensionEnd(data) ELSE FixedLen(data)

\* One element of the extension: an identifier and a length, then the value.
TakeElement(x) ==
  LET head == Head(x.left)  id == head \div 16  len == (head % 16) + 1
      value == SubSeq(x.left, 2, 1 + len)
      bad  == [x EXCEPT !.left = <<>>, !.ok = FALSE]
      next == [x EXCEPT !.left = SubSeq(@, 2 + len, Len(@)), !.seen = @ \cup {id}]
  IN IF head = 0 THEN [x EXCEPT !.left = Tail(@)]
     ELSE IF id = 15 \/ 1 + len > Len(x.left) THEN bad
     ELSE CASE id = 3 /\ len = 1 -> [next EXCEPT !.info = value[1]]
            [] id = 3 /\ len = 3 -> [next EXCEPT !.info = value[1], !.frame = value[2]]
            [] id \in {5, 6} /\ len = 2 -> next
            [] id = 9 /\ len = 2 -> [next EXCEPT !.transport = value[1]]
            [] id \in {3, 5, 6, 9} -> bad
            [] OTHER -> next

NoExtension == [mediaFrameInfo |-> -1, frameNumber |-> NoFrameNumber, transportSequence |-> -1]

\* ParseWhatsappVideoExtension.
ParseWhatsappVideoExtension(data) ==
  LET fixed == FixedLen(data)
      x == Scan(TakeElement, 1, [left |-> Slice(data, fixed + 4, ExtensionEnd(data)),
                              seen |-> {}, info |-> 0, frame |-> NoFrameNumber, transport |-> 0, ok |-> TRUE])
  IN IF ~HasExtension(data) \/ At(data, fixed) # ExtensionProfile THEN NoExtension
     ELSE IF ~x.ok \/ ~({3, 6, 9} \subseteq x.seen) THEN NoExtension
     ELSE [mediaFrameInfo |-> x.info, frameNumber |-> x.frame, transportSequence |-> x.transport]

\* classifyMediaPayload.
MediaPayload(pt) ==
  CASE pt = 119 -> "appdata" [] pt = 97 -> "video" [] pt \in {120, 121} -> "audio"
    [] OTHER -> "unknown"

\* ParseRtpHeader, of a packet whose header has a length.
ParseRtpHeader(data) ==
  [marker |-> At(data, 1) >= 128, kind |-> MediaPayload(At(data, 1) % 128),
   seq |-> At(data, 2), timestamp |-> At(data, 4), ssrc |-> At(data, 8),
   extension |-> ParseWhatsappVideoExtension(data)]

\* MediaPipeline on the wire: the tag is appended, and nobody looks at it.
WithTag(packet) == packet \o Field(Rest, TagLen)

Refused == [header |-> Garbled, payload |-> <<>>]

\* UnprotectAudio up to the cipher.
OpenRtp(data) ==
  LET bare == SubSeq(data, 1, Len(data) - TagLen)  len == RtpHeaderByteLength(bare) IN
  IF Len(data) < 12 + TagLen \/ len = -1 \/ Len(bare) <= len THEN Refused
  ELSE [header |-> ParseRtpHeader(bare), payload |-> From(bare, len)]

-----------------------------------------------------------------------------
(* Opus and MLow payloads told by their first byte and length.             *)

IsOpusDtxPayload(p) ==
  IF Len(p) = 1 THEN p[1] \in {16, 136, 144}
  ELSE Len(p) \in 2..15 /\ (p[1] \div 8 = 1 \/ (p[1] \div 16 = 3 /\ Len(p) <= 6))

\* The two fixed priming frames, by length and first byte.
IsOpusPrimingPayload(p) ==
  <<Len(p), p[1]>> \in {<<18, 18>>, <<5, 144>>}

PayloadClass(p) ==
  IF IsOpusDtxPayload(p) THEN "dtx" ELSE IF IsOpusPrimingPayload(p) THEN "priming" ELSE "speech"

-----------------------------------------------------------------------------
(* RTCP.                                                                   *)

\* BuildSenderReport; the profile bit and the report count share its first byte.
SenderReport(first, len, ssrc, stats, now) ==
  <<first, 200>> \o Field(len, 2) \o Field(ssrc, 4) \o Field(now, 4) \o Field(Rest, 4)
  \o Field(stats.timestamp, 4) \o Field(stats.packets, 4) \o Field(stats.octets, 4)

\* appendReceptionReport.
ReceptionBlock(r) ==
  Field(r.ssrc, 4) \o <<r.fraction>> \o Field(r.cumulative, 3) \o Field(r.highest, 4)
  \o Field(r.jitter, 4) \o Field(r.lastSenderReport, 4) \o Field(r.delay, 4)

\* BuildSourceDescription.
SourceDescription(ssrc, profile) ==
  <<129 + 16 * Flag(profile), 202>> \o Field(7, 2) \o Field(ssrc, 4)
  \o <<1, 18>> \o Field(Rest, 18) \o Zeros(4)

\* BuildSenderReportWithSdesAndReception, with at most one report.
SenderReportWithSdes(ssrc, stats, now, reports, profile) ==
  SenderReport(128 + 16 * Flag(profile) + Len(reports), IF reports = <<>> THEN 6 ELSE 18,
               ssrc, stats, now)
  \o (IF reports = <<>> THEN <<>> ELSE ReceptionBlock(reports[1]) \o Zeros(24))
  \o SourceDescription(ssrc, profile)

\* Cut the first packet of a compound; a length that overruns it ends the scan.
TakeRtcp(x, min) ==
  LET len == 4 * (At(x.left, 2) + 1) IN
  IF Len(x.left) < 4 \/ len < min \/ len > Len(x.left)
    THEN [x EXCEPT !.left = <<>>]
    ELSE [left |-> From(x.left, len), packets |-> Append(x.packets, Slice(x.left, 0, len))]

\* ParseSenderReportTiming: the first sender report of a compound.
SenderReportTimings(data) ==
  LET parts == Scan(LAMBDA x : TakeRtcp(x, 4), 4, [left |-> data, packets |-> <<>>]).packets
      found == SelectSeq(parts, LAMBDA p : At(p, 1) = 200 /\ Len(p) >= 28)
  IN IF found = <<>> THEN <<>> ELSE <<[ssrc |-> At(found[1], 4), at |-> At(found[1], 8)]>>

\* A PLI for the stream, or a FIR that names it or lists it.
AsksKeyframe(p, ssrc) ==
  LET raw == At(p, 0) % 32
      fmt == IF raw >= 16 THEN raw % 16 ELSE raw
      listed == {At(p, 12 + 8 * k) : k \in 0..((Len(p) - 12) \div 8 - 1)}
  IN At(p, 1) = 206 /\ Len(p) >= 12 /\
     \/ fmt \in {1, 4} /\ At(p, 8) = ssrc
     \/ fmt = 4 /\ ssrc \in listed

\* Faulty variant: the profile bit counts as part of the format.
RtcpRequestsKeyframe_RawFormat(data, ssrc) ==
  LET parts == Scan(LAMBDA x : TakeRtcp(x, 8), 8, [left |-> data, packets |-> <<>>]).packets IN
  \E i \in DOMAIN parts : At(parts[i], 0) % 32 < 16 /\ AsksKeyframe(parts[i], ssrc)

\* RtcpRequestsKeyframe: up to the first part that is not of version 2.
RtcpRequestsKeyframe(data, ssrc) ==
  LET parts == Scan(LAMBDA x : IF Version(x.left) # 2 THEN [x EXCEPT !.left = <<>>]
                               ELSE TakeRtcp(x, 8),
                    8, [left |-> data, packets |-> <<>>]).packets
  IN \E i \in DOMAIN parts : AsksKeyframe(parts[i], ssrc)

-----------------------------------------------------------------------------
(* SRTCP: all but the first eight bytes is enciphered under key, source and *)
(* index, and the tag covers everything.                                   *)

Enciphered(cells, key, ssrc, index) ==
  [i \in 1..Len(cells) |-> [key |-> key, ssrc |-> ssrc, index |-> index, cell |-> cells[i]]]

Deciphered(cells, key, ssrc, index) ==
  [i \in 1..Len(cells) |->
     IF cells[i].key = key /\ cells[i].ssrc = ssrc /\ cells[i].index = index
     THEN cells[i].cell ELSE Garbled]

\* ProtectSrtcp; the top bit of the index word says enciphered.
ProtectSrtcp(key, ssrc, index, rtcp) ==
  LET split == IF Len(rtcp) > 8 THEN 8 ELSE Len(rtcp) IN
  Slice(rtcp, 0, split) \o Enciphered(From(rtcp, split), key, ssrc, index)
  \o Field(IF index < IndexTop THEN index + IndexTop ELSE index, 4) \o Field(key, SrtcpTagLen)

NotAuthentic == [ok |-> FALSE, rtcp |-> <<>>, index |-> 0]

\* UnprotectSrtcp: the source is the one in the clear, the key the receiver's.
UnprotectSrtcp(key, packet) ==
  LET tag == Len(packet) - SrtcpTagLen
      index == At(packet, tag - 4) % IndexTop
  IN IF Len(packet) < 8 + 4 + SrtcpTagLen THEN NotAuthentic
     ELSE IF At(packet, tag) # key THEN NotAuthentic
     ELSE [ok |-> TRUE, index |-> index,
           rtcp |-> Slice(packet, 0, 8)
                    \o Deciphered(Slice(packet, 8, tag - 4), key, At(packet, 4), index)]
=============================================================================
