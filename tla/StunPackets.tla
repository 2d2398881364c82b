---------------------------- MODULE StunPackets -----------------------------
(***************************************************************************)
(* STUN as the relay speaks it (stun/stun.go), in the cells of RtpPackets, *)
(* and the demultiplexer of relay/relay.go.                                *)
(***************************************************************************)
EXTENDS RtpPackets, Bitwise

BindingRequest == 1
AllocateRequest == 3
BindingSuccess == 257
BindingError == 273
AllocateSuccess == 259
AllocateError == 275
WhatsappPing == 2049
WhatsappPong == 2050

NoKey == 0

\* HMAC or CRC over a header and what follows it; the bytes count by number.
Digest(key, type, len, tx, body) ==
  (((key * 10 + tx) * 256 + len) * 256 + Len(body)) * 8 + (type % 8)

Word(v) == <<v \div 256, v % 256>>

StunAttr(type, value) ==
  Field(type, 2) \o Field(Len(value), 2) \o value \o Zeros((4 - (Len(value) % 4)) % 4)

StunHeader(type, len, tx) == Word(type) \o Field(len, 2) \o Field(Rest, 4) \o Field(tx, 12)

\* Faulty variant: the integrity covers a header that does not count itself.
EncodeStunRequest_ShortLength(type, tx, attrs, key, fingerprint) ==
  LET signed == IF key = NoKey THEN attrs
                ELSE attrs \o StunAttr(8, Field(Digest(key, type, Len(attrs), tx, attrs), 20))
      body == IF ~fingerprint THEN signed
              ELSE signed \o StunAttr(32808, Field(Digest(NoKey, type, Len(signed), tx, signed), 4))
  IN StunHeader(type, Len(body), tx) \o body

\* EncodeStunRequest: integrity and fingerprint each cover a header whose length
\* ends with the attribute they stand in.
EncodeStunRequest(type, tx, attrs, key, fingerprint) ==
  LET signed == IF key = NoKey THEN attrs
                ELSE attrs \o StunAttr(8, Field(Digest(key, type, Len(attrs) + 24, tx, attrs), 20))
      body == IF ~fingerprint THEN signed
              ELSE signed \o StunAttr(32808,
                     Field(Digest(NoKey, type, Len(signed) + 8, tx, signed), 4))
  IN StunHeader(type, Len(body), tx) \o body

\* BuildWhatsappPing.
Ping(tx) == StunHeader(WhatsappPing, 0, tx)

Varint(v) == Field(v, IF v < 128 THEN 1 ELSE IF v < 16384 THEN 2 ELSE 3)

\* CreateWasmStreamDescriptors: three participants with three layers each; a
\* stream without a source is left out.
StreamDescriptors(ssrcs) ==
  LET Number(tag, v) == IF v = 0 THEN <<>> ELSE <<tag, v>>
      Inner(i) == Number(8, (i - 1) \div 3) \o Number(16, (i - 1) % 3) \o <<24>> \o Varint(ssrcs[i])
  IN FlattenSeq([i \in 1..9 |-> IF ssrcs[i] = 0 THEN <<>> ELSE <<10, Len(Inner(i))>> \o Inner(i)])

XorCookie == <<33, 18, 164, 66>>

\* EncodeXorRelayEndpoint, and createWasmRelayEndpointAttr before it.
EndpointAttr(ipv4, port) ==
  Field(1, 2) \o Field(port ^^ 8466, 2) \o [i \in 1..4 |-> ipv4[i] ^^ XorCookie[i]]

\* BuildWasmStunAllocateRequestWithStreamSsrcs.
AllocateWith(tx, token, ipv4, port, ssrcs, key) ==
  EncodeStunRequest(AllocateRequest, tx,
    StunAttr(16384, token) \o StunAttr(16420, StreamDescriptors(ssrcs))
      \o StunAttr(22, EndpointAttr(ipv4, port)), key, FALSE)

-----------------------------------------------------------------------------
IsStunPacket(data) == Len(data) >= 2 /\ At(data, 0) \div 64 = 0

StunMessageType(data) == (At(data, 0) % 64) * 256 + At(data, 1)

IsAllocateOrBindingSuccess(data) ==
  /\ IsStunPacket(data) /\ Len(data) >= 20
  /\ StunMessageType(data) \in {AllocateSuccess, BindingSuccess}

IsAllocateError(data) == IsStunPacket(data) /\ StunMessageType(data) = AllocateError

IsWhatsappPong(data, tx) ==
  /\ IsStunPacket(data) /\ StunMessageType(data) = WhatsappPong
  /\ Len(data) >= 20 /\ At(data, 8) = tx

Padded(n) == n + ((4 - (n % 4)) % 4)

TakeAttr(x) ==
  LET len == At(x.left, 2) IN
  IF Len(x.left) < 4 \/ 4 + len > Len(x.left) THEN [x EXCEPT !.left = <<>>]
  ELSE [left |-> From(x.left, 4 + Padded(len)),
        attrs |-> Append(x.attrs, [type |-> At(x.left, 0), value |-> Slice(x.left, 4, 4 + len)])]

\* ParseStunAttributes: whatever follows the header, its length is not looked at.
ParseStunAttributes(data) ==
  IF ~IsStunPacket(data) \/ Len(data) < 20 THEN <<>>
  ELSE Scan(TakeAttr, 4, [left |-> From(data, 20), attrs |-> <<>>]).attrs

\* The loop of ParseStunErrorCode goes by the length in the header.
TakeErrorCode(x) ==
  LET len == At(x.left, 2) IN
  IF x.todo < 4 \/ Len(x.left) < 4 THEN [x EXCEPT !.left = <<>>]
  ELSE IF At(x.left, 0) = 9 /\ len >= 4 /\ Len(x.left) >= 8
    THEN [x EXCEPT !.left = <<>>, !.code = At(x.left, 6) * 100 + At(x.left, 7)]
  ELSE [x EXCEPT !.left = From(@, 4 + Padded(len)), !.todo = @ - 4 - Padded(len)]

\* ParseStunErrorCode: 0 where there is none.
ParseStunErrorCode(data) ==
  IF Len(data) < 20 THEN 0
  ELSE IF StunMessageType(data) \notin {AllocateError, BindingError} THEN 0
  ELSE Scan(TakeErrorCode, 4, [left |-> From(data, 20), code |-> 0,
                            todo |-> Min({At(data, 2), Len(data) - 20})]).code

-----------------------------------------------------------------------------
\* ClassifyRelayPacket.
ClassifyRelayPacket(data) ==
  IF Len(data) < 2 THEN "other"
  ELSE IF IsStunPacket(data) THEN "stun"
  ELSE IF At(data, 1) \in 192..223 THEN "rtcp"
  ELSE IF Version(data) = 2 THEN "rtp" ELSE "other"
=============================================================================
