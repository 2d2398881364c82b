------------------------------- MODULE Signals -------------------------------
(***************************************************************************)
(* Two ends of a call as their stanzas join them: the engine that places   *)
(* the call, the engines of the devices it rings, and the server between   *)
(* them.  A handler of engine.go is one step here: CallEngine and          *)
(* VideoControl interleave them, and RelayMedia has the rest of onAccept.  *)
(* A stanza carries along what its sender means by it.                     *)
(***************************************************************************)
EXTENDS Stanzas, FiniteSets

CONSTANTS
  Caller,               \* the device that places the call
  PeerUser,             \* whom it calls
  Devices,              \* the devices of that user, in a sequence
  Offers,               \* calls to place: with video, to how many devices, the
                        \* relay block and <voip_settings> they get and what each
                        \* stands for, and whether the offer brings the block
  Latencies,            \* latencies to report
  MaxSignals,           \* bound: what applications, callers and server do
  MaxWire               \* bound: stanzas on their way when they do it

Callees == Range(Devices)
Ends == {Caller} \cup Callees

ASSUME SignalsAssumption ==
  /\ Caller \notin Callees /\ PeerUser \notin Ends
  /\ Devices \in Seq(Callees) /\ IsInjective(Devices)
  /\ Latencies \subseteq Nat /\ LatencyBase \in Nat

VARIABLES
  ends,                 \* the engine's entry for the call, by device
  wire,                 \* stanzas on their way, in the order of the server
  taken,                \* what the last stanza meant, and what its handler took
  signals               \* stanzas that were not answers

signalVars == <<ends, wire, taken, signals>>

NoCall ==
  [phase |-> "none", callKey |-> <<>>, relay |-> NoRelay, selfLID |-> "", peerLID |-> "", creator |-> "",
   from |-> "", direction |-> "incoming", codec |-> "mlow", localVideo |-> FALSE, remoteVideo |-> FALSE,
   videoGate |-> FALSE, acceptPending |-> FALSE, media |-> <<>>]

SignalsInit ==
  /\ ends = [e \in Ends |-> NoCall] /\ wire = <<>> /\ signals = 0
  /\ taken = [means |-> <<>>, read |-> <<>>]

Live(e) == ends[e] # NoCall

-----------------------------------------------------------------------------
(* External: the server.                                                   *)

\* A stanza reaches every device of a user, or one device.
Receivers(node) == IF Attr(node, "to") = PeerUser THEN Devices ELSE <<Attr(node, "to")>>

Routed(sender, node, means) ==
  LET to == Receivers(node) IN
  [i \in DOMAIN to |-> [to |-> to[i], node |-> WithAttr(node, "from", sender), means |-> means]]

\* A video stanza of a device of the peer comes from the user, by way of it.
RoutedVideo(sender, node, means) ==
  LET to == Receivers(node) IN
  [i \in DOMAIN to |-> [to |-> to[i], means |-> means,
                   node |-> IF sender = Caller THEN WithAttr(node, "from", sender)
                            ELSE WithAttr(WithAttr(node, "from", PeerUser), "participant", sender)]]

\* The order that the comment of stanza.go says the server insists on.
OfferOrder == <<"privacy", "audio", "video", "net", "capability", "destination", "enc", "encopt", "device-identity">>

InOrder(offer) ==
  LET Rank(tag) == CHOOSE i \in DOMAIN OfferOrder : OfferOrder[i] = tag IN
  \A i \in 1..(Len(offer.kids) - 1) : Rank(offer.kids[i].tag) <= Rank(offer.kids[i + 1].tag)

\* The offer that a device gets: of the keys its own, and what the server adds.
OfferFor(offer, device, added) ==
  LET Own(dest) == dest.kids[CHOOSE i \in DOMAIN dest.kids : Attr(dest.kids[i], "jid") = device].kids
      Got(kid) == IF kid.tag = "destination" THEN Own(kid) ELSE <<kid>>
  IN [offer EXCEPT !.kids = FlattenSeq([i \in DOMAIN @ |-> Got(@[i])]) \o added]

AckNode(kids) == Parent("ack", {<<"class", "call">>, <<"type", "offer">>}, kids)
ErrorAck(code) ==
  WithAttr(AckNode(<<Leaf("error", {<<"call-id", "call">>})>>), "error", code)

-----------------------------------------------------------------------------
(* The engine.                                                             *)

Params(e) == [callID |-> "call", to |-> e.from, callCreator |-> e.creator]
TerminateParams(to, creator, reason, devices) ==
  [callID |-> "call", to |-> to, callCreator |-> creator, reason |-> reason, devices |-> devices]

\* What is taken from a stanza that is ignored.
Nothing == <<>>

\* finishCall of a live call reports why it ended.
Finished(e, reason) == [entry |-> NoCall, out |-> <<>>, read |-> IF e = NoCall THEN Nothing ELSE <<reason>>]

Ignored(e) == [entry |-> e, out |-> <<>>, read |-> Nothing]

\* maybeStartMedia, up to what runMedia goes by.
MaybeStartMedia(e) ==
  IF e.media # <<>> \/ e.callKey = <<>> \/ e.relay = NoRelay THEN e
  ELSE [e EXCEPT !.phase = "connecting",
                 !.media = <<[key |-> e.callKey, self |-> e.selfLID, peer |-> e.peerLID,
                              allocation |-> Allocation(e.relay)]>>]

\* decryptInboundCallKey: the first key of the offer must be ours.
DecryptInboundCallKey(offer, self) ==
  LET enc == ChildByTag(offer, "enc") IN
  IF enc = <<>> THEN <<>> ELSE IF enc[1].content[1].device # self THEN <<>> ELSE enc[1].content[1].key

\* What whatsmeow reports of a stanza: its sender, and the creator it names.
Creator(m) == Attr(m.node.kids[1], "call-creator")
Sender(m) == Attr(m.node, "from")

\* The call that an offer is about, and the preaccept.
Rung(e, m) ==
  LET offer == m.node.kids[1]
      key == DecryptInboundCallKey(offer, m.to)
      video == OfferHasVideo(offer)
      relay == FindChild(offer, "relay")
      entry == [e EXCEPT !.phase = "ringing", !.callKey = key, !.selfLID = m.to, !.creator = Creator(m),
                         !.peerLID = IF Creator(m) = "" THEN Sender(m) ELSE Creator(m),
                         !.from = Sender(m), !.direction = "incoming",
                         !.localVideo = video, !.remoteVideo = video,
                         !.relay = IF relay = <<>> THEN @ ELSE ParseRelayData(relay[1]),
                         !.codec = ApplyVoipSettingsCodec(@, offer)]
      preaccept == BuildPreaccept([callID |-> "call", to |-> Sender(m), callCreator |-> Creator(m),
                                   wrapperID |-> "r1", audioRates |-> <<16000>>, video |-> video])
  IN [entry |-> entry, out |-> Routed(m.to, preaccept, <<"prepared">>),
      read |-> <<[key |-> key, video |-> entry.localVideo, creator |-> entry.creator, from |-> entry.from,
                  codec |-> entry.codec, allocation |-> Allocation(entry.relay)]>>]

OnOffer(e, m) ==
  LET offer == m.node.kids[1] IN
  IF \/ Attr(offer, "is_call_ended") = "1" \/ Attr(offer, "terminate_reason") # ""
     \/ DecryptInboundCallKey(offer, m.to) = <<>>
  THEN Ignored(e) ELSE Rung(e, m)

OnPreAccept(e) ==
  [entry |-> IF e.direction = "outgoing" /\ e.phase = "calling" THEN [e EXCEPT !.phase = "ringing"] ELSE e,
   out |-> <<>>, read |-> IF e = NoCall THEN Nothing ELSE <<"prepared">>]

\* Faulty variant: the media stay keyed for the user that was called.
OnAccept_KeepsPeer(e, m) ==
  [entry |-> MaybeStartMedia([e EXCEPT !.from = Sender(m), !.codec = ApplyVoipSettingsCodec(@, m.node.kids[1]),
                                       !.phase = IF @ \in {"calling", "ringing"} THEN "connecting" ELSE @]),
   out |-> <<>>, read |-> <<[by |-> e.peerLID]>>]

\* onAccept, with the rekeying of running media.
OnAccept(e, m) ==
  LET accepted == [e EXCEPT !.from = Sender(m), !.peerLID = Sender(m),
                            !.codec = ApplyVoipSettingsCodec(@, m.node.kids[1]),
                            !.media = IF @ = <<>> THEN @ ELSE <<[@[1] EXCEPT !.peer = Sender(m)]>>,
                            !.phase = IF @ \in {"calling", "ringing"} THEN "connecting" ELSE @]
  IN IF e = NoCall \/ e.direction # "outgoing" THEN Ignored(e)
     ELSE [entry |-> MaybeStartMedia(accepted), out |-> <<>>, read |-> <<[by |-> accepted.peerLID]>>]

\* onRelay of a stanza or an ack.
OnRelay(e, node) ==
  LET relay == FindChild(node, "relay") IN
  IF relay = <<>> \/ e = NoCall THEN e ELSE MaybeStartMedia([e EXCEPT !.relay = ParseRelayData(relay[1])])

OnTransport(e, m) ==
  LET Took(entry) == [entry |-> entry, out |-> <<>>,
                      read |-> IF e = NoCall THEN Nothing ELSE <<Allocation(entry.relay)>>]
  IN Took(OnRelay(e, m.node.kids[1]))

\* onRelayLatency: the callee sends every probe back, which a caller does not read.
OnRelayLatency(e, m) ==
  LET Back(p) == Routed(m.to, BuildRelayLatency(
                     [callID |-> "call", to |-> Sender(m), callCreator |-> Creator(m), latency |-> p.latency,
                      relayName |-> p.relayName, address |-> p.address, devices |-> <<>>]), Nothing)
      Answered(probes) == [entry |-> OnRelay(e, m.node.kids[1]), read |-> probes,
                           out |-> FlattenSeq([i \in DOMAIN probes |-> Back(probes[i])])]
  IN IF e = NoCall \/ e.direction # "incoming" THEN Ignored(OnRelay(e, m.node.kids[1]))
     ELSE Answered(Probes(m.node.kids[1]))

\* onCallRaw on a mute_v2, with the accept that waited for it (sendAccept).
OnMuteV2(e, m) ==
  LET accept == BuildAccept([callID |-> "call", to |-> Sender(m), callCreator |-> Creator(m),
                             audioRates |-> <<16000>>, relayTe |-> <<>>, rte |-> <<>>, voipSettings |-> <<>>,
                             capability |-> <<>>, metadata |-> {<<"peer_abtest_bucket_id_list", "ids">>},
                             video |-> e.localVideo \/ e.remoteVideo])
  IN [entry |-> [e EXCEPT !.acceptPending = FALSE],
      out |-> IF e.acceptPending THEN Routed(m.to, WithAttr(accept, "id", "r2"), <<[by |-> m.to]>>) ELSE <<>>,
      read |-> IF e = NoCall THEN Nothing ELSE <<[muted |-> Attr(m.node.kids[1], "mute-state") = "1"]>>]

VideoStateNode(e, state, dec, orientation) ==
  BuildVideoStateWithParams([callID |-> "call", to |-> e.from, callCreator |-> e.creator, wrapperID |-> "v1",
                             state |-> state, dec |-> dec, orientation |-> orientation])

Means(sender, state, orientation) == <<[state |-> state, orientation |-> orientation, ack |-> sender]>>

SayVideo(sender, e, state, dec, orientation) ==
  RoutedVideo(sender, VideoStateNode(e, state, dec, orientation),
              Means(sender, state, IF orientation = NoOrientation THEN 0 ELSE orientation))

\* Whom the acknowledgement of a video stanza reaches.
AckReaches(acks) ==
  IF acks = <<>> THEN "nobody"
  ELSE IF Has(acks[1], "participant") THEN Attr(acks[1], "participant") ELSE Attr(acks[1], "to")

\* ackVideoStanza and onVideoStanza; an accepted upgrade is announced.
OnVideo(e, m) ==
  LET video == m.node.kids[1]
      state == AttrNumber(video, "state")
      entry == CASE state = VideoStates.enabled ->
                      [e EXCEPT !.remoteVideo = TRUE, !.videoGate = @ /\ ~e.localVideo]
                 [] state \in {VideoStates.disabled, VideoStates.stopped} -> [e EXCEPT !.remoteVideo = FALSE]
                 [] state = VideoStates.upgradeAccept -> [e EXCEPT !.localVideo = TRUE, !.videoGate = FALSE]
                 [] state \in {VideoStates.upgradeReject, VideoStates.upgradeCancel} ->
                      [e EXCEPT !.localVideo = FALSE, !.videoGate = FALSE]
                 [] OTHER -> e
  IN IF e = NoCall THEN Ignored(e)
     ELSE [entry |-> entry,
           out |-> IF state = VideoStates.upgradeAccept THEN SayVideo(m.to, e, VideoStates.enabled, "", 0) ELSE <<>>,
           read |-> Means(AckReaches(BuildVideoAck(m.node)), state, AttrNumber(video, "device_orientation"))]

\* onCallAck, of an offer.
OnCallAck(e, m) ==
  LET Took(entry) == [entry |-> entry, out |-> <<>>,
                      read |-> <<[codec |-> entry.codec, allocation |-> Allocation(entry.relay)]>>]
  IN IF Has(m.node, "error") THEN Finished(e, Attr(m.node, "error"))
     ELSE IF FindChild(m.node, "relay") = <<>> \/ e = NoCall THEN Ignored(e)
     ELSE Took(OnRelay([e EXCEPT !.codec = ApplyVoipSettingsCodec(@, m.node)], m.node))

Handled(e, m) ==
  LET tag == IF m.node.tag = "ack" THEN "ack" ELSE m.node.kids[1].tag IN
  CASE tag = "ack" -> OnCallAck(e, m)
    [] tag = "offer" -> OnOffer(e, m)
    [] tag = "preaccept" -> OnPreAccept(e)
    [] tag = "accept" -> OnAccept(e, m)
    [] tag = "transport" -> OnTransport(e, m)
    [] tag = "relaylatency" -> OnRelayLatency(e, m)
    [] tag = "mute_v2" -> OnMuteV2(e, m)
    [] tag = "video" -> OnVideo(e, m)
    [] tag = "reject" -> Finished(e, "rejected")
    [] OTHER -> Finished(e, Attr(m.node.kids[1], "reason"))

\* The next stanza is handled.  Nothing is expected of one that comes to an end
\* without the call.
Handle ==
  /\ wire # <<>>
  /\ LET m == Head(wire)
         late == ~Live(m.to) /\ m.node.kids[1].tag # "offer"
         Take(h) == /\ ends' = [ends EXCEPT ![m.to] = h.entry]
                    /\ wire' = Tail(wire) \o h.out
                    /\ taken' = [means |-> IF late THEN Nothing ELSE m.means, read |-> h.read]
     IN Take(Handled(ends[m.to], m))
  /\ UNCHANGED signals

-----------------------------------------------------------------------------
(* What applications, the caller's client and the server begin.            *)

Signal(end, entry, out) ==
  /\ signals < MaxSignals /\ Len(wire) <= MaxWire
  /\ signals' = signals + 1
  /\ ends' = [ends EXCEPT ![end] = entry]
  /\ wire' = wire \o out
  /\ UNCHANGED taken

\* A call to place says what its settings and its relay block stand for; a block
\* is flat, and settings are no part of it.
Understood(o) ==
  /\ o.count \in 1..Len(Devices) /\ o.video \in BOOLEAN /\ o.early \in BOOLEAN
  /\ \/ o.settings.nodes = <<>> /\ o.settings.codec = "mlow"
     \/ \E content \in {o.settings.nodes[1].content} :
          /\ o.settings.nodes = <<Node("voip_settings", NoAttrs, <<>>, content)>>
          /\ o.settings.codec = SelectAudioCodec(content, "mlow")
  /\ o.block.node.tag = "relay" /\ o.block.node.kids \in Seq(Range(o.block.node.kids))
  /\ \A kid \in Range(o.block.node.kids) : kid.kids = <<>> /\ kid.tag # "voip_settings"
  /\ Allocation(ParseRelayData(o.block.node)) = o.block.means

ASSUME OffersAssumption == \A o \in Offers : Understood(o)

EncType(device) == IF device = Devices[1] THEN "pkmsg" ELSE "msg"

\* placeCall, and what the server makes of the offer: relay block and settings
\* come in its ack, and with the offer itself or not.
PlaceCall(o) ==
  LET called == SubSeq(Devices, 1, o.count)
      Key(d) == [device |-> d, encType |-> EncType(d), ciphertext |-> <<[device |-> d, key |-> <<"key">>]>>]
      node == BuildOffer([callID |-> "call", to |-> PeerUser, callCreator |-> Caller,
                          deviceKeys |-> [i \in DOMAIN called |-> Key(called[i])],
                          privacyToken |-> IF o.early THEN <<"token">> ELSE <<>>, capability |-> CapabilityOffer,
                          deviceIdentity |-> <<"identity">>, video |-> o.video])
      added == o.settings.nodes \o When(o.early, o.block.node)
      Offered(d) == [to |-> d, node |-> WithAttr([node EXCEPT !.kids = <<OfferFor(@[1], d, added)>>], "from", Caller),
                     means |-> <<[key |-> <<"key">>, video |-> o.video, creator |-> Caller, from |-> Caller,
                                  codec |-> o.settings.codec,
                                  allocation |-> IF o.early THEN o.block.means ELSE NoAllocation]>>]
      ack == [to |-> Caller, node |-> AckNode(<<o.block.node>> \o o.settings.nodes),
              means |-> <<[codec |-> o.settings.codec, allocation |-> o.block.means]>>]
  IN /\ ends[Caller] = NoCall /\ signals = 0
     /\ Signal(Caller, [NoCall EXCEPT !.phase = "calling", !.callKey = <<"key">>, !.selfLID = Caller,
                                      !.peerLID = PeerUser, !.creator = Caller, !.from = PeerUser,
                                      !.direction = "outgoing", !.localVideo = o.video, !.remoteVideo = o.video],
               IF InOrder(node.kids[1]) THEN <<ack>> \o [i \in DOMAIN called |-> Offered(called[i])]
               ELSE <<[ack EXCEPT !.node = ErrorAck("439")]>>)

\* The server refuses a call it announced, or tells a device that it is over.
ServerRefuses ==
  /\ signals > 0
  /\ Signal(Caller, ends[Caller], <<[to |-> Caller, node |-> ErrorAck("403"), means |-> <<"403">>]>>)

ServerSaysOver(d) ==
  Signal(d, ends[d],
         <<[to |-> d, node |-> Parent("call", {<<"from", Caller>>}, <<Leaf("offer", {<<"is_call_ended", "1">>})>>),
            means |-> Nothing]>>)

\* A transport of the caller's client, to which the server adds the relay block
\* that the caller has.
CallerTransport(d, o) ==
  LET node == BuildTransport([callID |-> "call", to |-> d, callCreator |-> Caller, messageType |-> 9, relayTe |-> <<>>])
      Added(transport) == [transport EXCEPT !.kids = Append(@, o.block.node)]
  IN /\ Live(Caller) /\ ends[Caller].relay = ParseRelayData(o.block.node)
     /\ Signal(d, ends[d], Routed(Caller, [node EXCEPT !.kids = <<Added(@[1])>>], <<o.block.means>>))

\* The caller's client probes the relay, and mutes.
CallerProbes(latency) ==
  LET probe == [latency |-> latency, relayName |-> "gru", address |-> <<10, 0, 0, 1, 3478, -1>>] IN
  /\ Live(Caller)
  /\ Signal(Caller, ends[Caller], Routed(Caller, BuildRelayLatency(
       [callID |-> "call", to |-> ends[Caller].from, callCreator |-> Caller, latency |-> latency,
        relayName |-> probe.relayName, address |-> probe.address, devices |-> Devices]), <<probe>>))

CallerMutes(state) ==
  /\ Live(Caller)
  /\ Signal(Caller, ends[Caller], Routed(Caller, BuildMuteV2(
       [callID |-> "call", to |-> ends[Caller].from, callCreator |-> Caller, state |-> state]),
       <<[muted |-> state = "1"]>>))

Answer(d) ==
  /\ Live(d) /\ ends[d].phase = "ringing"
  /\ Signal(d, MaybeStartMedia([ends[d] EXCEPT !.acceptPending = TRUE, !.phase = "connecting"]), <<>>)

Reject(d) ==
  /\ Live(d) /\ ends[d].phase = "ringing"
  /\ Signal(d, NoCall, Routed(d, WithAttr(BuildReject(Params(ends[d])), "id", "n1"), <<"rejected">>))

Hangup(e) ==
  /\ Live(e)
  /\ Signal(e, NoCall, Routed(e, WithAttr(BuildTerminate(
       TerminateParams(ends[e].from, ends[e].creator, "", <<>>)), "id", "n2"), <<"">>))

\* The server ends the call at a device that did not take it.
TakenElsewhere(d) ==
  /\ Live(Caller) /\ ends[Caller].from \in Callees \ {d}
  /\ Signal(d, ends[d], Routed(Caller, BuildTerminate(
       TerminateParams(d, Caller, "accepted_elsewhere", <<d>>)), <<"accepted_elsewhere">>))

\* Video goes to a device, so not before the answer of one.
InCall(e) == Live(e) /\ ends[e].phase = "connecting" /\ ends[e].from # PeerUser

\* transitionVideo; an upgrade is accepted in two stanzas.
TransitionVideo(end, transition) ==
  LET e == ends[end]
      request == transition = VideoStates.upgradeRequestV2
      on == transition # VideoStates.stopped
  IN /\ InCall(end)
     /\ Signal(end, [e EXCEPT !.localVideo = on, !.videoGate = request],
          IF transition = VideoStates.upgradeAccept
          THEN SayVideo(end, e, transition, "H264,AV1", NoOrientation)
                 \o SayVideo(end, e, VideoStates.enabled, "", NoOrientation)
          ELSE SayVideo(end, e, transition, IF request THEN "H264" ELSE "", 0))

SetVideoEnabled(end, enabled) ==
  /\ InCall(end)
  /\ Signal(end, [ends[end] EXCEPT !.localVideo = enabled, !.videoGate = FALSE],
            IF enabled THEN SayVideo(end, ends[end], VideoStates.enabled, "H264", NoOrientation)
            ELSE SayVideo(end, ends[end], VideoStates.disabled, "", NoOrientation))

SetVideoOrientation(end, orientation) ==
  /\ InCall(end) /\ ends[end].localVideo
  /\ Signal(end, ends[end], SayVideo(end, ends[end], VideoStates.enabled, "", orientation))

-----------------------------------------------------------------------------
\* Every stanza is taken by the engine that handles it for what the engine, the
\* client or the server that built it meant: the key of the right device, video
\* and codec, the relay, its token and its latency, who answered, and whom a
\* typed video ack reaches (stanza.go and video.go against the handlers and the
\* relay parser of engine.go).
HandledAsMeant == taken.read = taken.means

\* Once the caller took the accept of a device, both ends go by the same key,
\* codec and creator, and their media know each other by the right names; with
\* media at both, both are at the same relay (placeCall and onOffer to onAccept
\* and maybeStartMedia, over one call).
EndsAgree ==
  \A d \in Callees :
    LET c == ends[Caller]  e == ends[d] IN
    c # NoCall /\ e # NoCall /\ c.from = d =>
      /\ c.callKey = e.callKey /\ c.codec = e.codec /\ c.creator = e.creator
      /\ c.peerLID = e.selfLID /\ e.peerLID = c.selfLID
      /\ c.media # <<>> /\ e.media # <<>> =>
           /\ c.media[1].peer = e.media[1].self /\ e.media[1].peer = c.media[1].self
           /\ c.media[1].allocation = e.media[1].allocation
=============================================================================
