---------------------------- MODULE CallPayloads ----------------------------
(***************************************************************************)
(* What the packets of a call carry, byte by byte: access units of H.264   *)
(* (rtp/h264.go, protectAccessUnitLocked), reactions as nested protobuf    *)
(* messages (appdata.go), SFrame envelopes (srtp/sframe.go), and the keys  *)
(* of all of them (srtp/e2e.go).                                           *)
(***************************************************************************)
EXTENDS RtpPackets, H264Packet, AppData

CONSTANTS
  VarintBase,           \* 2^7: what fits in one byte of a varint
  GcmTagLen             \* gcmTagLen

ASSUME VarintAssumption == VarintBase \in Nat /\ VarintBase > 1

-----------------------------------------------------------------------------
(* Keys.  Key derivation is injective: a key is what it was derived from.  *)

OtherParty(party) == IF party = "self" THEN "peer" ELSE "self"

\* deriveSessionKeysFromMasterLabels: labels of the cipher, the tag and the salt.
DeriveE2eKeys(callKey, lid) == [master |-> <<callKey, lid>>, labels |-> <<0, 1, 2>>]

DeriveE2eSrtcpKeys(callKey, lid) == [master |-> <<callKey, lid>>, labels |-> <<3, 4, 5>>]

SframeKey(callKey, lid) == [master |-> <<callKey, lid>>, labels |-> <<"sframe">>]

-----------------------------------------------------------------------------
(* Access units in Annex B form.                                           *)

StartCode == <<0, 0, 0, 1>>

HasAt(data, i, code) == i + Len(code) <= Len(data) /\ Slice(data, i, i + Len(code)) = code

annexBStartCodeLen(data, i) ==
  CASE HasAt(data, i, StartCode) -> 4 [] HasAt(data, i, Tail(StartCode)) -> 3 [] OTHER -> 0

TrimZeros(s) == SubSeq(s, 1, Max({0} \cup {i \in DOMAIN s : s[i] # 0}))

\* SplitAnnexB: zeros before a start code belong to nobody.
SplitAnnexB(data) ==
  LET Starts(i) == annexBStartCodeLen(data, i) > 0
      First(i) == i + annexBStartCodeLen(data, i)
      Unit(codes, k) == IF k = Len(codes) THEN From(data, First(codes[k]))
                        ELSE TrimZeros(Slice(data, First(codes[k]), codes[k + 1]))
      Cut(codes) == SelectSeq([k \in DOMAIN codes |-> Unit(codes, k)], LAMBDA u : u # <<>>)
  IN Cut(SetToSortSeq({i \in 0..Len(data) : Starts(i) /\ (i > 0 => annexBStartCodeLen(data, i - 1) # 4)}, <))

NalType(unit) == unit[1] % 32

AUHasIDR(au) == \E u \in Range(SplitAnnexB(au)) : NalType(u) = 5

\* Access unit delimiters are not sent.
UnitsToSend(au) == SelectSeq(SplitAnnexB(au), LAMBDA u : NalType(u) # 9)

\* packedAccessUnit: the whole access unit, sent as if it were one NAL unit.
PackedAccessUnit(au) ==
  LET units == UnitsToSend(au) IN
  FlattenSeq([i \in DOMAIN units |-> (IF i = 1 THEN <<>> ELSE StartCode) \o units[i]])

\* Annex B again, as the receive loop puts it together.
AnnexB(units) == FlattenSeq([i \in DOMAIN units |-> StartCode \o units[i]])

\* NAL units of H264Packet: the header byte apart.
NaluOf(unit) == <<[type |-> NalType(unit), nri |-> unit[1] \div 32]>> \o Tail(unit)
BytesOf(nalu) == <<32 * nalu[1].nri + nalu[1].type>> \o Tail(nalu)

\* The payloads of H264Packet as bytes.
PayloadBytes(p) ==
  CASE p.form = "single" -> BytesOf(p.nalu)
    [] p.form = "fua" -> <<32 * p.header.nri + 28, 128 * Flag(p.start) + 64 * Flag(p.end) + p.header.type>>
                         \o p.body
    [] OTHER -> <<32 * p.nri + 24>>
                \o FlattenSeq([i \in DOMAIN p.units |->
                     <<Len(p.units[i]) \div 256, Len(p.units[i]) % 256>> \o BytesOf(p.units[i])])

\* Cut one unit off a STAP-A; a wrong length ends it.
TakeAggregated(x) ==
  LET size == 256 * x.left[1] + x.left[2] IN
  IF Len(x.left) < 2 THEN [x EXCEPT !.left = <<>>]
  ELSE IF size = 0 \/ size + 2 > Len(x.left) THEN [x EXCEPT !.left = <<>>]
  ELSE [left |-> SubSeq(x.left, 3 + size, Len(x.left)),
        units |-> Append(x.units, NaluOf(SubSeq(x.left, 3, 2 + size)))]

\* The form of a payload, told by its first byte.
PayloadOf(bytes) ==
  LET type == bytes[1] % 32 IN
  CASE bytes = <<>>   -> [form |-> "empty"]
    [] type \in 1..23 -> Single(NaluOf(bytes))
    [] type = 24      -> [form |-> "stap", units |-> Scan(TakeAggregated, 3, [left |-> Tail(bytes), units |-> <<>>]).units]
    [] type = 28 /\ Len(bytes) >= 2 ->
         [form |-> "fua", header |-> [type |-> bytes[2] % 32, nri |-> bytes[1] \div 32],
          start |-> BitOf(bytes[2], 7) = 1, end |-> BitOf(bytes[2], 6) = 1, body |-> SubSeq(bytes, 3, Len(bytes))]
    [] OTHER -> [form |-> "other"]

\* videoRtpDurationSamples, of a duration in hundredths of a sample.
VideoRtpDurationSamples(duration, default) ==
  LET samples == (duration + 50) \div 100 IN
  IF duration <= 0 \/ samples = 0 THEN default ELSE samples

\* DisplayOrientation: clockwise quarter turns from counter-clockwise ones.
DisplayOrientation(info) == (4 - (info % 4)) % 4

-----------------------------------------------------------------------------
(* Reactions.                                                              *)

\* A protobuf field of one byte, and one of several.
VarintField(num, v) == <<8 * num, v>>
BytesField(num, value) == <<(8 * num) + 2, Len(value)>> \o value

\* encodeAppDataReaction.
encodeAppDataReaction(id, emoji) ==
  BytesField(1, BytesField(1, VarintField(1, id) \o BytesField(2, emoji)))

\* One field off a message; one that overruns it, or of no known type, ends it.
TakeField(x) ==
  LET num == x.left[1] \div 8  type == x.left[1] % 8
      size == CASE type = 0 -> 1 [] type = 1 -> 8 [] type = 5 -> 4
                [] type = 2 /\ Len(x.left) > 1 -> 1 + x.left[2]
                [] OTHER -> Len(x.left)
  IN IF 1 + size > Len(x.left) THEN [x EXCEPT !.left = <<>>, !.ok = FALSE]
     ELSE [x EXCEPT !.left = SubSeq(@, 2 + size, Len(@)),
                    !.fields = Append(@, [num |-> num, type |-> type,
                        value |-> SubSeq(x.left, IF type = 2 THEN 3 ELSE 2, 1 + size)])]

Fields(message) == Scan(TakeField, 1, [left |-> message, fields |-> <<>>, ok |-> TRUE])

Picked(x, num, type) == SelectSeq(x.fields, LAMBDA f : f.num = num /\ f.type = type)

BadReaction == [id |-> 0, emoji |-> <<>>]

\* decodeReactionInfo: the last of each field counts, and 0 is no number.
decodeReactionInfo(message) ==
  LET Info(x, ids, emojis) ==
        IF ~x.ok \/ ids = <<>> THEN BadReaction
        ELSE [id |-> Last(ids).value[1], emoji |-> IF emojis = <<>> THEN <<>> ELSE Last(emojis).value]
      Picks(x) == Info(x, Picked(x, 1, 0), Picked(x, 2, 2))
  IN Picks(Fields(message))

\* decodeAppDataMessage: the first reaction in a message, if there is one.
decodeAppDataMessage(message) ==
  LET First(ok, infos) ==
        IF infos # <<>> THEN <<decodeReactionInfo(infos[1].value)>>
        ELSE IF ok THEN <<>> ELSE <<BadReaction>>
      Picks(x) == First(x.ok, Picked(x, 1, 2))
  IN Picks(Fields(message))

ReactionsIn(messages) ==
  FlattenSeq([i \in DOMAIN messages |-> decodeAppDataMessage(messages[i].value)])

\* Faulty variant: what is wrong in a payload is left out.
decodeAppDataReactions_Lenient(payload) ==
  SelectSeq(ReactionsIn(Picked(Fields(payload), 1, 2)), LAMBDA r : r.id # 0)

\* decodeAppDataReactions: one error drops the payload.
decodeAppDataReactions(payload) ==
  LET Sound(ok, found) == IF ~ok \/ \E r \in Range(found) : r.id = 0 THEN <<>> ELSE found
      Decoded(x) == Sound(x.ok, ReactionsIn(Picked(x, 1, 2)))
  IN Decoded(Fields(payload))

-----------------------------------------------------------------------------
(* SFrame.                                                                 *)

\* A number below VarintBase^2 as a varint.
Uvarint(v) == IF v < VarintBase THEN <<v>> ELSE <<VarintBase + (v % VarintBase), v \div VarintBase>>

\* Read a varint: its value, and the bytes it took; 0 bytes of one that does
\* not end.
ReadVarint(s) ==
  LET last == {i \in DOMAIN s : s[i] < VarintBase} IN
  IF last = {} THEN [value |-> 0, size |-> 0]
  ELSE [size |-> Min(last),
        value |-> FoldLeft(LAMBDA v, i : v + ((s[i] % VarintBase) * VarintBase^(i - 1)), 0,
                           [i \in 1..Min(last) |-> i])]

\* buildSframeHeader: at the end of a frame, its own length last.
buildSframeHeader(counter, keyID) ==
  LET h == Uvarint(counter) \o Uvarint(keyID) IN Append(h, Len(h) + 1)

\* parseSframeHeader; -1 where it is none.
parseSframeHeader(header) ==
  LET body == Front(header)  counter == ReadVarint(body) IN
  IF \/ Len(header) < 2 \/ Last(header) # Len(header) \/ counter.size = 0
     \/ ReadVarint(From(body, counter.size)).size = 0
  THEN -1 ELSE counter.value

\* gcmEncrypt under the nonce of a counter, the tag included.
Sealed128(key, counter, plain) == Enciphered(plain \o Field(Rest, GcmTagLen), key, "sframe", counter)

NewSframeSession(self) ==
  [encryptKey |-> SframeKey("call", OtherParty(self)), decryptKey |-> SframeKey("call", self), txCounter |-> 0]

\* SframeSession.Encrypt.
SframeEncrypt(session, plain) ==
  Sealed128(session.encryptKey, session.txCounter, plain) \o buildSframeHeader(session.txCounter, 0)

PlainOpus == [sframe |-> FALSE, plain |-> <<>>]

\* SframeSession.Decrypt: a frame is plain Opus unless everything fits.
SframeDecrypt(session, frame) ==
  LET start == Len(frame) - Last(frame)
      body == SubSeq(frame, 1, start)
      counter == parseSframeHeader(From(frame, start))
      open == Deciphered(body, session.decryptKey, "sframe", counter)
  IN IF Len(frame) < GcmTagLen + 3 THEN PlainOpus
     ELSE IF \/ Last(frame) \notin 3..Len(frame) \/ start < GcmTagLen + 1 THEN PlainOpus
     ELSE IF counter = -1 \/ Garbled \in Range(open) THEN PlainOpus
     ELSE [sframe |-> TRUE, plain |-> SubSeq(open, 1, start - GcmTagLen)]
=============================================================================
