------------------------------- MODULE Stanzas -------------------------------
(***************************************************************************)
(* The <call> stanzas of signaling/stanza.go and signaling/video.go, the   *)
(* <voip_settings> of signaling/voipsettings.go and the relay block that   *)
(* engine.go parses.  A node is a record; its attributes are pairs of a    *)
(* name and a value, its content a sequence.  What Go leaves nil is an     *)
(* empty sequence here, and an attribute that is a number stays one.       *)
(***************************************************************************)
EXTENDS Integers, Sequences, SequencesExt

CONSTANTS
  MaxRelayTokens,       \* maxRelayTokens
  LatencyBase           \* 0x2000000

NoAttrs == {}

Node(tag, attrs, kids, content) == [tag |-> tag, attrs |-> attrs, kids |-> kids, content |-> content]
Leaf(tag, attrs) == Node(tag, attrs, <<>>, <<>>)
Parent(tag, attrs, kids) == Node(tag, attrs, kids, <<>>)

\* A child that is there only under a condition, or only with content.
When(condition, node) == IF condition THEN <<node>> ELSE <<>>
Opt(tag, attrs, content) == When(content # <<>>, Node(tag, attrs, <<>>, content))

Has(n, key) == \E a \in n.attrs : a[1] = key
Values(n, key) == {a[2] : a \in {b \in n.attrs : b[1] = key}}
ValueOf(n, key) == CHOOSE value \in Values(n, key) : TRUE
Attr(n, key) == IF Has(n, key) THEN ValueOf(n, key) ELSE ""
\* attrUint, and Atoi of an attribute: 0 without it.
AttrNumber(n, key) == IF Has(n, key) THEN ValueOf(n, key) ELSE 0

WithAttr(n, key, value) == [n EXCEPT !.attrs = {<<key, value>>} \cup {a \in @ : a[1] # key}]

\* The first that was found.
FirstFound(found) ==
  LET some == {i \in DOMAIN found : found[i] # <<>>} IN IF some = {} THEN <<>> ELSE found[Min(some)]

Named(n, tag) == When(n.tag = tag, n)
Kids(n, tag) == FlattenSeq([i \in DOMAIN n.kids |-> Named(n.kids[i], tag)])
ChildByTag(n, tag) == FirstFound([i \in DOMAIN n.kids |-> Named(n.kids[i], tag)])

\* findChild and findRelay: the first such node at or under n, parents first.
\* What is searched nests two deep.
FindShallow(n, tag) == IF n.tag = tag THEN <<n>> ELSE ChildByTag(n, tag)
FindChild(n, tag) ==
  IF n.tag = tag THEN <<n>> ELSE FirstFound([i \in DOMAIN n.kids |-> FindShallow(n.kids[i], tag)])

-----------------------------------------------------------------------------
(* Builders.                                                               *)

CapabilityOffer == <<"offer">>
CapabilityVideoOffer == <<"video offer">>
CapabilityPreaccept == <<"preaccept">>

CallIDs(p) == {<<"call-id", p.callID>>, <<"call-creator", p.callCreator>>}

CallWrap(to, action) == Parent("call", {<<"to", to>>}, <<action>>)

AudioOpus(rate) == Leaf("audio", {<<"enc", "opus">>, <<"rate", rate>>})

Audio(rates) == [i \in DOMAIN rates |-> AudioOpus(rates[i])]

Screen(width, height) == {<<"screen_width", width>>, <<"screen_height", height>>}
VideoDecoder == {<<"dec", "H264">>, <<"device_orientation", 0>>}
VideoOfferNode == Leaf("video", {<<"enc", "h.264">>} \cup VideoDecoder \cup Screen(1920, 1080))
VideoAcceptNode == Leaf("video", VideoDecoder)
VideoPreacceptNode == Leaf("video", VideoDecoder \cup Screen(0, 0))

Capability(blob) == Opt("capability", {<<"ver", 1>>}, blob)
Encopt == Leaf("encopt", {<<"keygen", 2>>})

\* encNode of a key of one device.
EncNode(k) == Node("enc", {<<"v", 2>>, <<"type", k.encType>>, <<"count", 0>>}, <<>>, k.ciphertext)

DestinationTo(devices) ==
  Parent("destination", NoAttrs, [i \in DOMAIN devices |-> Leaf("to", {<<"jid", devices[i]>>})])

OfferCapability(video, capability) ==
  IF video /\ capability = CapabilityOffer THEN CapabilityVideoOffer ELSE capability

\* Faulty variant: the keys of all devices side by side.
OfferKeys_Inline(keys) == [i \in DOMAIN keys |-> EncNode(keys[i])]

\* One key inline, several under a destination each.
OfferKeys(keys) ==
  IF Len(keys) <= 1 THEN [i \in DOMAIN keys |-> EncNode(keys[i])]
  ELSE <<Parent("destination", NoAttrs,
                [i \in DOMAIN keys |-> Parent("to", {<<"jid", keys[i].device>>}, <<EncNode(keys[i])>>)])>>

BuildOffer(p) ==
  CallWrap(p.to, Parent("offer", CallIDs(p),
    Opt("privacy", NoAttrs, p.privacyToken) \o Audio(<<8000, 16000>>) \o When(p.video, VideoOfferNode)
      \o <<Leaf("net", {<<"medium", 3>>})>> \o Capability(OfferCapability(p.video, p.capability))
      \o OfferKeys(p.deviceKeys) \o <<Encopt>> \o Opt("device-identity", NoAttrs, p.deviceIdentity)))

BuildAccept(p) ==
  CallWrap(p.to, Parent("accept", CallIDs(p),
    Audio(p.audioRates) \o When(p.video, VideoAcceptNode) \o Opt("te", {<<"priority", 2>>}, p.relayTe)
      \o <<Leaf("net", {<<"medium", 2>>}), Encopt>> \o Capability(p.capability)
      \o When(p.metadata # NoAttrs, Leaf("metadata", p.metadata)) \o Opt("rte", NoAttrs, p.rte)
      \o Opt("voip_settings", {<<"uncompressed", 1>>}, p.voipSettings)))

BuildPreaccept(p) ==
  WithAttr(CallWrap(p.to, Parent("preaccept", CallIDs(p),
    Audio(p.audioRates) \o When(p.video, VideoPreacceptNode) \o <<Encopt>>
      \o Capability(IF p.video THEN CapabilityOffer ELSE CapabilityPreaccept))), "id", p.wrapperID)

\* Of message type 9 there is no protocol.
BuildTransport(p) ==
  CallWrap(p.to, Parent("transport",
    CallIDs(p) \cup IF p.messageType = 0 THEN NoAttrs ELSE {<<"transport-message-type", p.messageType>>},
    Opt("te", {<<"priority", 1>>}, p.relayTe)
      \o <<Leaf("net", IF p.messageType = 9 THEN {<<"medium", 2>>} ELSE {<<"medium", 2>>, <<"protocol", 0>>})>>))

EncodeLatency(rtt) == LatencyBase + rtt

BuildRelayLatency(p) ==
  CallWrap(p.to, Parent("relaylatency", CallIDs(p),
    <<Node("te", {<<"latency", EncodeLatency(p.latency)>>, <<"relay_name", p.relayName>>}, <<>>, p.address)>>
      \o When(p.devices # <<>>, DestinationTo(p.devices))))

BuildTerminate(p) ==
  CallWrap(p.to, Parent("terminate",
    CallIDs(p) \cup IF p.reason = "" THEN NoAttrs ELSE {<<"reason", p.reason>>},
    When(p.devices # <<>>, DestinationTo(p.devices))))

BuildMuteV2(p) == CallWrap(p.to, Leaf("mute_v2", CallIDs(p) \cup {<<"mute-state", p.state>>}))

BuildReject(p) == CallWrap(p.to, Leaf("reject", CallIDs(p)))

VideoStates == [disabled |-> 0, enabled |-> 1, upgradeRequest |-> 3, upgradeAccept |-> 4,
                upgradeReject |-> 5, stopped |-> 6, upgradeCancel |-> 8, upgradeRequestV2 |-> 11]

NoOrientation == -1

BuildVideoStateWithParams(p) ==
  LET dec == IF p.dec = "" THEN NoAttrs ELSE {<<"dec", p.dec>>}
      settings == IF p.state = VideoStates.upgradeRequestV2 THEN {<<"voip_settings", "video">>} ELSE NoAttrs
      turned == IF p.orientation = NoOrientation THEN NoAttrs ELSE {<<"device_orientation", p.orientation>>}
  IN WithAttr(CallWrap(p.to, Leaf("video", CallIDs(p) \cup {<<"state", p.state>>} \cup dec \cup settings \cup turned)),
              "id", p.wrapperID)

\* BuildVideoAck: to where the stanza came from, and on to the companion device
\* that spoke; nothing for a stanza without a number or a sender.
BuildVideoAck(call) ==
  LET from == Attr(call, "from")
      Keep(key) == IF Has(call, key) /\ (key = "participant" => Attr(call, key) # from)
                   THEN {<<key, Attr(call, key)>>} ELSE NoAttrs
  IN When(Has(call, "id") /\ Has(call, "from"),
          Leaf("ack", {<<"class", "call">>, <<"id", Attr(call, "id")>>, <<"to", from>>, <<"type", "video">>}
                      \cup Keep("participant") \cup Keep("recipient")))

-----------------------------------------------------------------------------
(* Readers.                                                                *)

OfferHasVideo(offer) == ChildByTag(offer, "video") # <<>>

\* ParseVoipSettings and selectAudioCodec: only the word false selects Opus, and
\* settings that cannot be read select nothing.
Malformed == [mlow |-> "malformed"]

SelectAudioCodec(content, before) ==
  CASE content = <<>> -> "mlow"
    [] content[1] = Malformed -> before
    [] OTHER -> IF content[1].mlow = "false" THEN "opus" ELSE "mlow"

\* applyVoipSettingsCodec.
ApplyVoipSettingsCodec(codec, n) ==
  LET found == FindChild(n, "voip_settings") IN
  IF found = <<>> THEN codec ELSE SelectAudioCodec(found[1].content, codec)

\* decodeLatency.
DecodeLatency(v) == IF v < LatencyBase THEN 0 ELSE v - LatencyBase

\* The probes of a relaylatency.
Probes(n) ==
  LET found == FindChild(n, "relaylatency") IN
  IF found = <<>> THEN <<>>
  ELSE LET tes == Kids(found[1], "te") IN
       [i \in DOMAIN tes |-> [latency |-> DecodeLatency(Attr(tes[i], "latency")),
                              relayName |-> Attr(tes[i], "relay_name"), address |-> tes[i].content]]

\* One token of parseIndexedTokens: at its number, or behind the others.
AddToken(tokens, n) ==
  LET id == IF Has(n, "id") THEN ValueOf(n, "id") ELSE Len(tokens)
      room == tokens \o [i \in 1..(id + 1 - Len(tokens)) |-> <<>>]
  IN IF n.content = <<>> \/ id >= MaxRelayTokens THEN tokens ELSE [room EXCEPT ![id + 1] = n.content]

\* One <te2> of parseRelayData; only addresses of six bytes are taken.
AddEndpoint(endpoints, n) ==
  IF Len(n.content) # 6 THEN endpoints
  ELSE Append(endpoints, [tokenID |-> AttrNumber(n, "token_id"), authTokenID |-> AttrNumber(n, "auth_token_id"),
                          isFNA |-> Attr(n, "is_fna") = "1", address |-> n.content])

NoRelay == [key |-> <<>>, tokens |-> <<>>, endpoints |-> <<>>]

ParseRelayData(n) ==
  [key |-> IF ChildByTag(n, "key") = <<>> THEN <<>> ELSE ChildByTag(n, "key")[1].content,
   tokens |-> FoldLeft(AddToken, <<>>, Kids(n, "token")),
   endpoints |-> FoldLeft(AddEndpoint, <<>>, Kids(n, "te2"))]

\* getMediaRelayEndpoint.
GetMediaRelayEndpoint(rd) ==
  LET Best(endpoints) == SelectSeq(endpoints, LAMBDA e : e.authTokenID # 0)
      Ranked(near) == Best(near) \o near \o rd.endpoints
      First(endpoints) == SubSeq(endpoints, 1, Min({1, Len(endpoints)}))
  IN First(Ranked(SelectSeq(rd.endpoints, LAMBDA e : ~e.isFNA)))

NoAllocation == [address |-> <<>>, token |-> <<>>, key |-> <<>>]

\* What connectAndAllocate says to whom: it needs an endpoint, its token and the key.
Allocation(rd) ==
  LET At(ep) ==
        IF \/ ep = <<>> \/ rd.key = <<>> THEN NoAllocation
        ELSE IF ep[1].tokenID >= Len(rd.tokens) THEN NoAllocation
        ELSE IF rd.tokens[ep[1].tokenID + 1] = <<>> THEN NoAllocation
        ELSE [address |-> ep[1].address, token |-> rd.tokens[ep[1].tokenID + 1], key |-> rd.key]
  IN At(GetMediaRelayEndpoint(rd))
=============================================================================
