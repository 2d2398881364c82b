--------------------------- MODULE SignalsProofs ---------------------------
(***************************************************************************)
(* Proofs about Signals: in one call, every stanza is taken for what its   *)
(* sender meant by it, and the two ends agree on key, names and codec, for *)
(* any devices, calls, relay blocks, settings and latencies.               *)
(*                                                                         *)
(* Says(m, o) is what is true of a stanza on its way when o is the call:   *)
(* one predicate for each kind of stanza, of what its reader finds in it.  *)
(* A builder's stanza says what it means (the lemmas ...Speaks), a handler *)
(* that gets such a stanza takes just that and answers in the same way     *)
(* (Takes...), and OneCall, which joins ends and wire, goes on (...Keeps). *)
(***************************************************************************)
EXTENDS FormatsProofs, Signals

\* The steps of Signals, without the other layers of Formats.
SignalsNext ==
  \/ Handle
  \/ \E o \in Offers : PlaceCall(o)
  \/ ServerRefuses
  \/ \E d \in Callees : ServerSaysOver(d)
  \/ \E d \in Callees, o \in Offers : CallerTransport(d, o)
  \/ \E latency \in Latencies : CallerProbes(latency)
  \/ \E state \in {"0", "1"} : CallerMutes(state)
  \/ \E d \in Callees : Answer(d)
  \/ \E d \in Callees : Reject(d)
  \/ \E d \in Callees : TakenElsewhere(d)
  \/ \E e \in Ends : Hangup(e)
  \/ \E e \in Ends : \E t \in {VideoStates.upgradeRequestV2, VideoStates.upgradeAccept, VideoStates.stopped} :
       TransitionVideo(e, t)
  \/ \E e \in Ends, on \in BOOLEAN : SetVideoEnabled(e, on)
  \/ \E e \in Ends, o \in {3} : SetVideoOrientation(e, o)

SignalsSpec == SignalsInit /\ [][SignalsNext]_signalVars

-----------------------------------------------------------------------------
(* Searching a node for a tag.                                             *)

\* The first of several finds, when all that is found is the same.
LEMMA FoundAmong ==
  ASSUME NEW n \in Nat, NEW f, DOMAIN f = 1..n, NEW v, \A i \in 1..n : f[i] \in {<<>>, v}
  PROVE  FirstFound(f) = IF \E i \in 1..n : f[i] = v THEN v ELSE <<>>
<1> DEFINE some == {i \in DOMAIN f : f[i] # <<>>}
<1>1. CASE some = {}
  <2>1. FirstFound(f) = <<>>  BY <1>1 DEF FirstFound
  <2>. QED BY <1>1, <2>1
<1>2. CASE some # {}
  <2>1. some \in SUBSET Nat  OBVIOUS
  <2>2. Min(some) \in some
    <3> HIDE DEF some
    <3>. QED BY <1>2, <2>1, LeastOf
  <2>3. FirstFound(f) = f[Min(some)]  BY <1>2 DEF FirstFound
  <2> DEFINE i == Min(some)
  <2> HIDE DEF i
  <2>4. i \in some /\ FirstFound(f) = f[i]  BY <2>2, <2>3 DEF i
  <2>5. i \in 1..n /\ f[i] = v  BY <2>4
  <2>. QED BY <2>4, <2>5
<1>. QED BY <1>1, <1>2

\* A leaf has no children to find.
LEMMA LeafHasNone ==
  ASSUME NEW k, k.kids = <<>>, NEW tag
  PROVE  ChildByTag(k, tag) = <<>> /\ FindShallow(k, tag) = Named(k, tag)
<1> DEFINE f == [i \in DOMAIN k.kids |-> Named(k.kids[i], tag)]
<1>1. DOMAIN f = 1..0 /\ 0 \in Nat  OBVIOUS
<1>2. FirstFound(f) = <<>>
  <2> HIDE DEF f
  <2>. QED BY <1>1, FoundAmong
<1>3. ChildByTag(k, tag) = <<>>  BY <1>2 DEF ChildByTag
<1>. QED BY <1>3 DEF FindShallow, Named, When

\* childByTag finds v, when v is the only child of that tag.
LEMMA ChildAmong ==
  ASSUME NEW V, NEW n, n.kids \in Seq(V), NEW tag, NEW v,
         \A i \in DOMAIN n.kids : Named(n.kids[i], tag) \in {<<>>, v}
  PROVE  ChildByTag(n, tag) = IF \E i \in DOMAIN n.kids : Named(n.kids[i], tag) = v THEN v ELSE <<>>
<1> DEFINE f == [i \in DOMAIN n.kids |-> Named(n.kids[i], tag)]
<1>1. Len(n.kids) \in Nat /\ DOMAIN n.kids = 1..Len(n.kids)  OBVIOUS
<1>2. DOMAIN f = 1..Len(n.kids) /\ \A i \in 1..Len(n.kids) : f[i] = Named(n.kids[i], tag)  BY <1>1
<1>5. \A i \in 1..Len(n.kids) : f[i] \in {<<>>, v}  BY <1>1, <1>2
<1>3. FirstFound(f) = IF \E i \in 1..Len(n.kids) : f[i] = v THEN v ELSE <<>>
  <2>1. PICK m \in Nat : m = Len(n.kids) /\ DOMAIN f = 1..m  BY <1>1, <1>2
  <2> HIDE DEF f
  <2>2. FirstFound(f) = IF \E i \in 1..m : f[i] = v THEN v ELSE <<>>  BY <1>5, <2>1, FoundAmong
  <2>. QED BY <2>1, <2>2
<1>4. FirstFound(f) = ChildByTag(n, tag)  BY DEF ChildByTag
<1> HIDE DEF f
<1>. QED BY <1>1, <1>2, <1>3, <1>4

\* findChild finds v, when v is all that its children and theirs have of that tag.
LEMMA FoundBelow ==
  ASSUME NEW V, NEW n, n.kids \in Seq(V), NEW tag, n.tag # tag, NEW v,
         \A i \in DOMAIN n.kids : FindShallow(n.kids[i], tag) \in {<<>>, v}
  PROVE  FindChild(n, tag) = IF \E i \in DOMAIN n.kids : FindShallow(n.kids[i], tag) = v THEN v ELSE <<>>
<1> DEFINE f == [i \in DOMAIN n.kids |-> FindShallow(n.kids[i], tag)]
<1>1. Len(n.kids) \in Nat /\ DOMAIN n.kids = 1..Len(n.kids)  OBVIOUS
<1>2. DOMAIN f = 1..Len(n.kids) /\ \A i \in 1..Len(n.kids) : f[i] = FindShallow(n.kids[i], tag)  BY <1>1
<1>5. \A i \in 1..Len(n.kids) : f[i] \in {<<>>, v}  BY <1>1, <1>2
<1>3. FirstFound(f) = IF \E i \in 1..Len(n.kids) : f[i] = v THEN v ELSE <<>>
  <2> HIDE DEF f
  <2>. QED BY <1>1, <1>2, <1>5, FoundAmong
<1>4. FirstFound(f) = FindChild(n, tag)  BY DEF FindChild
<1> HIDE DEF f
<1>. QED BY <1>1, <1>2, <1>3, <1>4

-----------------------------------------------------------------------------
(* Nodes and their attributes.                                             *)

\* A node has a tag, attributes, children and content.
IsNode(n) == DOMAIN n = {"tag", "attrs", "kids", "content"}

\* The parts of a node as it is built.
LEMMA NodeParts ==
  ASSUME NEW tag, NEW attrs, NEW kids, NEW content
  PROVE  /\ IsNode(Node(tag, attrs, kids, content))
         /\ Node(tag, attrs, kids, content).tag = tag /\ Node(tag, attrs, kids, content).attrs = attrs
         /\ Node(tag, attrs, kids, content).kids = kids /\ Node(tag, attrs, kids, content).content = content
BY DEF Node, IsNode

\* The value of an attribute that has one.
LEMMA ValueIs ==
  ASSUME NEW n, NEW key, NEW value, <<key, value>> \in n.attrs, \A a \in n.attrs : a[1] = key => a[2] = value
  PROVE  Has(n, key) /\ ValueOf(n, key) = value /\ Attr(n, key) = value /\ AttrNumber(n, key) = value
<1>1. Has(n, key)  BY DEF Has
<1>2. Values(n, key) = {value}
  <2>1. value \in Values(n, key)
    <3>1. <<key, value>>[1] = key /\ <<key, value>>[2] = value  OBVIOUS
    <3>. QED BY <3>1 DEF Values
  <2>2. \A x \in Values(n, key) : x = value  BY DEF Values
  <2>. QED BY <2>1, <2>2
<1>3. ValueOf(n, key) = value  BY <1>2 DEF ValueOf
<1>. QED BY <1>1, <1>3 DEF Attr, AttrNumber

\* An attribute that is not there reads as empty, and as zero.
LEMMA NoValue ==
  ASSUME NEW n, NEW key, \A a \in n.attrs : a[1] # key
  PROVE  ~Has(n, key) /\ Attr(n, key) = "" /\ AttrNumber(n, key) = 0
BY DEF Has, Attr, AttrNumber

\* The same of a node as it is built.
LEMMA AttrOf ==
  ASSUME NEW tag, NEW attrs, NEW kids, NEW content, NEW key, NEW value,
         <<key, value>> \in attrs, \A a \in attrs : a[1] = key => a[2] = value
  PROVE  Attr(Node(tag, attrs, kids, content), key) = value /\ AttrNumber(Node(tag, attrs, kids, content), key) = value
<1> DEFINE n == Node(tag, attrs, kids, content)
<1>1. n.attrs = attrs  BY NodeParts
<1> HIDE DEF n
<1>2. <<key, value>> \in n.attrs /\ \A a \in n.attrs : a[1] = key => a[2] = value  BY <1>1
<1>. QED BY <1>2, ValueIs DEF n

\* Setting one attribute leaves the others and the children alone.
LEMMA WithAttrIs ==
  ASSUME NEW n, NEW key, NEW value, IsNode(n)
  PROVE  LET w == WithAttr(n, key, value) IN
         /\ IsNode(w) /\ w.tag = n.tag /\ w.kids = n.kids /\ w.content = n.content
         /\ Has(w, key) /\ Attr(w, key) = value
         /\ \A k : k # key => (Has(w, k) <=> Has(n, k)) /\ Attr(w, k) = Attr(n, k)
<1> DEFINE w == WithAttr(n, key, value)
<1>1. /\ IsNode(w) /\ w.attrs = {<<key, value>>} \cup {a \in n.attrs : a[1] # key}
      /\ w.tag = n.tag /\ w.kids = n.kids /\ w.content = n.content
  BY DEF WithAttr, IsNode
<1> HIDE DEF w
<1>2. Has(w, key) /\ Attr(w, key) = value
  <2>1. <<key, value>> \in w.attrs /\ \A a \in w.attrs : a[1] = key => a[2] = value  BY <1>1
  <2>. QED BY <2>1, ValueIs
<1>3. ASSUME NEW k, k # key PROVE (Has(w, k) <=> Has(n, k)) /\ Attr(w, k) = Attr(n, k)
  <2>1. \A a : a[1] = k => (a \in w.attrs <=> a \in n.attrs)  BY <1>1, <1>3
  <2>2. Has(w, k) <=> Has(n, k)  BY <2>1 DEF Has
  <2>3. ValueOf(w, k) = ValueOf(n, k)
    <3>1. {b \in w.attrs : b[1] = k} = {b \in n.attrs : b[1] = k}  BY <2>1
    <3>2. Values(w, k) = Values(n, k)  BY <3>1 DEF Values
    <3>. QED BY <3>2 DEF ValueOf
  <2>. QED BY <2>2, <2>3 DEF Attr
<1>. QED BY <1>1, <1>2, <1>3 DEF w

-----------------------------------------------------------------------------
(* What a stanza on its way says, in the call of the offer o.              *)

\* The relay block of a call, as it is parsed, and the action of a stanza.
Block(o) == ParseRelayData(o.block.node)
Action(m) == m.node.kids[1]

Is(m, tag) == m.to \in Ends /\ IsNode(m.node) /\ m.node.tag = "call" /\ Action(m).tag = tag

\* The ack of the offer brings the relay block and the settings of the call.
SaysAck(m, o) ==
  /\ m.to = Caller /\ m.node.tag = "ack" /\ ~Has(m.node, "error") /\ Action(m).tag # "offer" /\ Understood(o)
  /\ FindChild(m.node, "relay") = <<o.block.node>> /\ FindChild(m.node, "voip_settings") = o.settings.nodes
  /\ m.means = <<[codec |-> o.settings.codec, allocation |-> o.block.means]>>

\* An error ack, with its code.
SaysError(m) ==
  /\ m.to = Caller /\ m.node.tag = "ack" /\ Has(m.node, "error") /\ Action(m).tag # "offer"
  /\ m.means = <<Attr(m.node, "error")>>

\* The offer: a key that the device can decrypt, and what it may bring with it.
SaysOffer(m, o) ==
  /\ Is(m, "offer") /\ m.to \in Callees /\ Understood(o)
  /\ Attr(Action(m), "is_call_ended") # "1" /\ Attr(Action(m), "terminate_reason") = ""
  /\ DecryptInboundCallKey(Action(m), m.to) = <<"key">> /\ OfferHasVideo(Action(m)) = o.video
  /\ Creator(m) = Caller /\ Sender(m) = Caller
  /\ FindChild(Action(m), "relay") = When(o.early, o.block.node)
  /\ FindChild(Action(m), "voip_settings") = o.settings.nodes
  /\ m.means = <<[key |-> <<"key">>, video |-> o.video, creator |-> Caller, from |-> Caller,
                  codec |-> o.settings.codec, allocation |-> IF o.early THEN o.block.means ELSE NoAllocation]>>

\* An offer of a call that is over.
SaysOver(m) == Is(m, "offer") /\ Attr(Action(m), "is_call_ended") = "1" /\ m.means = Nothing

\* Stanzas of the callee: preaccept and accept.
SaysPrepared(m) == Is(m, "preaccept") /\ m.means = <<"prepared">>

SaysAccept(m) ==
  /\ Is(m, "accept") /\ m.to = Caller /\ Sender(m) \in Callees /\ m.means = <<[by |-> Sender(m)]>>
  /\ FindChild(Action(m), "voip_settings") = <<>>

\* A transport with a relay block, of the call or one that does not parse.
SaysTransport(m, o) ==
  /\ Is(m, "transport")
  /\ \E node \in Range(FindChild(Action(m), "relay")) :
       /\ FindChild(Action(m), "relay") = <<node>> /\ ParseRelayData(node) \in {NoRelay, Block(o)}
       /\ m.means = <<Allocation(ParseRelayData(node))>>

\* A relaylatency of the caller, and the probe that a device reads from it.
SaysProbe(m) ==
  /\ Is(m, "relaylatency") /\ m.to # Caller /\ Sender(m) = Caller /\ FindChild(Action(m), "relay") = <<>>
  /\ \E p \in Range(m.means) : p.latency \in Nat /\ m.means = <<p>>
       /\ p = [latency |-> p.latency, relayName |-> p.relayName, address |-> p.address]
  /\ Probes(Action(m)) = m.means

\* A probe that a device sent back.
SaysEcho(m) ==
  /\ Is(m, "relaylatency") /\ m.to = Caller /\ FindChild(Action(m), "relay") = <<>> /\ m.means = Nothing

\* A mute_v2.
SaysMute(m) ==
  /\ Is(m, "mute_v2") /\ Sender(m) = Caller
  /\ m.means = <<[muted |-> Attr(Action(m), "mute-state") = "1"]>>

\* A video stanza, and whom the ack of it reaches.
SaysVideo(m) ==
  /\ Is(m, "video")
  /\ m.means = Means(AckReaches(BuildVideoAck(m.node)), AttrNumber(Action(m), "state"),
                     AttrNumber(Action(m), "device_orientation"))

\* The ends of a call.
SaysReject(m) == Is(m, "reject") /\ m.means = <<"rejected">>

SaysTerminate(m) == Is(m, "terminate") /\ m.means = <<Attr(Action(m), "reason")>>

\* A stanza says what its sender means, in the call of the offer o.
Says(m, o) ==
  \/ SaysAck(m, o) \/ SaysError(m) \/ SaysOffer(m, o) \/ SaysOver(m) \/ SaysPrepared(m) \/ SaysAccept(m)
  \/ SaysTransport(m, o) \/ SaysProbe(m) \/ SaysEcho(m) \/ SaysMute(m) \/ SaysVideo(m) \/ SaysReject(m)
  \/ SaysTerminate(m)

\* Only the offer of a live call makes an entry.
Rings(m) == m.node.tag = "call" /\ Action(m).tag = "offer" /\ m.means # Nothing

\* Stanzas that all say what they mean, and ring nobody.
Speaks(out, o) == \E V : out \in Seq(V) /\ \A m \in V : Says(m, o) /\ ~Rings(m)

\* What the engine of a device keeps of the call.
KeepsCall(d, e, o) ==
  /\ DOMAIN e = DOMAIN NoCall
  /\ e.callKey = <<"key">> /\ e.selfLID = d /\ e.creator = Caller /\ e.relay \in {NoRelay, Block(o)}
  /\ \/ e.media = <<>>
     \/ e.media = <<[key |-> <<"key">>, self |-> d, peer |-> e.peerLID, allocation |-> Allocation(Block(o))]>>
  /\ IF d = Caller
     THEN /\ e.direction = "outgoing" /\ e.acceptPending = FALSE /\ e.codec \in {"mlow", o.settings.codec}
          /\ e.from \in {PeerUser} \cup Callees /\ e.peerLID = e.from
     ELSE /\ e.direction = "incoming" /\ e.codec = o.settings.codec /\ e.from = Caller /\ e.peerLID = Caller

\* What handlers find, and when they drop what they get.
Entry(d, e, o) == e = NoCall \/ KeepsCall(d, e, o)

Late(m, e) == e = NoCall /\ Action(m).tag # "offer"

\* What a handler does with a stanza and the entry it finds.
HandledWell(h, m, e, o) ==
  /\ Entry(m.to, h.entry, o) /\ Speaks(h.out, o)
  /\ h.read = IF Late(m, e) THEN Nothing ELSE m.means
  /\ e = NoCall /\ ~Rings(m) => h.entry = NoCall
  /\ e # NoCall /\ e.codec = o.settings.codec => h.entry = NoCall \/ h.entry.codec = o.settings.codec

\* Silence says nothing wrong.
LEMMA SpeaksNothing == ASSUME NEW o PROVE Speaks(<<>>, o)
<1> DEFINE V == {}
<1>1. <<>> \in Seq(V) /\ \A m \in V : Says(m, o) /\ ~Rings(m)  OBVIOUS
<1> HIDE DEF V
<1>. QED BY <1>1, Zenon DEF Speaks

\* maybeStartMedia keeps what an entry has but for phase and media.
LEMMA MaybeStartMediaKeeps ==
  ASSUME NEW d, NEW e, NEW o, KeepsCall(d, e, o)
  PROVE  KeepsCall(d, MaybeStartMedia(e), o) /\ MaybeStartMedia(e).codec = e.codec
         /\ MaybeStartMedia(e).relay = e.relay /\ MaybeStartMedia(e).peerLID = e.peerLID
         /\ MaybeStartMedia(e).from = e.from
<1>1. CASE e.media # <<>> \/ e.callKey = <<>> \/ e.relay = NoRelay
  BY <1>1 DEF MaybeStartMedia
<1>2. CASE ~(e.media # <<>> \/ e.callKey = <<>> \/ e.relay = NoRelay)
  <2> DEFINE media == <<[key |-> e.callKey, self |-> e.selfLID, peer |-> e.peerLID,
                         allocation |-> Allocation(e.relay)]>>
             f == [e EXCEPT !.phase = "connecting", !.media = media]
  <2>1. MaybeStartMedia(e) = f  BY <1>2 DEF MaybeStartMedia
  <2>2. media = <<[key |-> <<"key">>, self |-> d, peer |-> e.peerLID, allocation |-> Allocation(Block(o))]>>
    BY <1>2 DEF KeepsCall
  <2> HIDE DEF media
  <2>3. DOMAIN e = DOMAIN NoCall  BY DEF KeepsCall
  <2>4. /\ DOMAIN f = DOMAIN NoCall /\ f.media = media /\ f.callKey = e.callKey /\ f.selfLID = e.selfLID
        /\ f.creator = e.creator /\ f.relay = e.relay /\ f.direction = e.direction /\ f.peerLID = e.peerLID
        /\ f.acceptPending = e.acceptPending /\ f.codec = e.codec /\ f.from = e.from
    BY <2>3 DEF NoCall
  <2> HIDE DEF f
  <2>5. KeepsCall(d, f, o)  BY <2>2, <2>4 DEF KeepsCall
  <2>. QED BY <2>1, <2>4, <2>5
<1>. QED BY <1>1, <1>2
\* A stanza of a call is no ack.
LEMMA CallTag ==
  ASSUME NEW m, NEW tag, Is(m, tag)
  PROVE  m.node.tag = "call" /\ Action(m).tag = tag /\ m.node.kids[1] = Action(m)
BY DEF Is, Action

\* onReject, onTerminate, an error ack and an offer that is over end the call.
LEMMA EndsCall ==
  ASSUME NEW m, NEW e, NEW o, Entry(m.to, e, o),
         SaysError(m) \/ SaysReject(m) \/ SaysTerminate(m) \/ SaysOver(m)
  PROVE  HandledWell(Handled(e, m), m, e, o)
<1>1. Speaks(<<>>, o)  BY SpeaksNothing
<1>2. CASE SaysError(m) \/ SaysReject(m) \/ SaysTerminate(m)
  <2> DEFINE reason == m.means[1]
  <2>1. Handled(e, m) = Finished(e, reason) /\ m.means = <<reason>> /\ Action(m).tag # "offer"
    <3>1. CASE SaysError(m)
      <4>1. Handled(e, m) = OnCallAck(e, m)  BY <3>1 DEF SaysError, Handled
      <4>. QED BY <3>1, <4>1 DEF SaysError, OnCallAck
    <3>2. CASE SaysReject(m)  BY <3>2, CallTag DEF SaysReject, Handled
    <3>3. CASE SaysTerminate(m)  BY <3>3, CallTag DEF SaysTerminate, Handled, Action
    <3>. QED BY <1>2, <3>1, <3>2, <3>3
  <2> HIDE DEF reason
  <2>2. /\ Finished(e, reason).entry = NoCall /\ Finished(e, reason).out = <<>>
        /\ Finished(e, reason).read = IF e = NoCall THEN Nothing ELSE <<reason>>
    BY DEF Finished
  <2>. QED BY <1>1, <2>1, <2>2 DEF HandledWell, Entry, Late
<1>3. CASE SaysOver(m)
  <2>1. Handled(e, m) = OnOffer(e, m)  BY <1>3, CallTag DEF SaysOver, Handled
  <2>2. OnOffer(e, m) = Ignored(e)  BY <1>3 DEF SaysOver, OnOffer, Action
  <2>3. Ignored(e).entry = e /\ Ignored(e).out = <<>> /\ Ignored(e).read = Nothing  BY DEF Ignored
  <2>4. m.means = Nothing /\ Action(m).tag = "offer"  BY <1>3, CallTag DEF SaysOver
  <2>. QED BY <1>1, <2>1, <2>2, <2>3, <2>4 DEF HandledWell, Entry, Rings
<1>. QED BY <1>2, <1>3

\* An entry of which phase, video and a pending accept may have changed.
SameCall(f, e) ==
  /\ DOMAIN f = DOMAIN NoCall /\ f.callKey = e.callKey /\ f.selfLID = e.selfLID /\ f.media = e.media
  /\ f.creator = e.creator /\ f.relay = e.relay /\ f.direction = e.direction /\ f.peerLID = e.peerLID
  /\ f.codec = e.codec /\ f.from = e.from /\ f.acceptPending \in {e.acceptPending, FALSE}

\* Such an entry is kept as before.
LEMMA SameCallKeeps ==
  ASSUME NEW d, NEW e, NEW f, NEW o, KeepsCall(d, e, o), SameCall(f, e)
  PROVE  KeepsCall(d, f, o)
BY DEF KeepsCall, SameCall

\* onPreAccept.
LEMMA TakesPrepared ==
  ASSUME NEW m, NEW e, NEW o, Entry(m.to, e, o), SaysPrepared(m)
  PROVE  HandledWell(Handled(e, m), m, e, o)
<1>1. Speaks(<<>>, o)  BY SpeaksNothing
<1>2. Handled(e, m) = OnPreAccept(e) /\ Action(m).tag # "offer" /\ m.means = <<"prepared">>
  BY CallTag DEF SaysPrepared, Handled
<1> DEFINE h == OnPreAccept(e)
           f == [e EXCEPT !.phase = "ringing"]
<1>3. h.out = <<>> /\ h.read = IF e = NoCall THEN Nothing ELSE <<"prepared">>  BY DEF OnPreAccept
<1>4. h.entry = IF e.direction = "outgoing" /\ e.phase = "calling" THEN f ELSE e  BY DEF OnPreAccept
<1>5. CASE e = NoCall
  <2>1. e.direction = "incoming"  BY <1>5 DEF NoCall
  <2>2. h.entry = NoCall
    <3> HIDE DEF h, f
    <3>. QED BY <1>4, <1>5, <2>1
  <2> HIDE DEF h
  <2>. QED BY <1>1, <1>2, <1>3, <1>5, <2>2 DEF HandledWell, Late, Entry, h
<1>6. CASE e # NoCall
  <2>1. KeepsCall(m.to, e, o)  BY <1>6 DEF Entry
  <2>2. SameCall(f, e)
    <3>1. DOMAIN e = DOMAIN NoCall  BY <2>1 DEF KeepsCall
    <3>. QED BY <3>1 DEF NoCall, SameCall
  <2>3. KeepsCall(m.to, f, o) /\ f.codec = e.codec
    <3> HIDE DEF f
    <3>. QED BY <2>1, <2>2, SameCallKeeps DEF SameCall
  <2>4. KeepsCall(m.to, h.entry, o) /\ h.entry.codec = e.codec
    <3> HIDE DEF h, f
    <3>. QED BY <1>4, <2>1, <2>3
  <2> HIDE DEF h
  <2>. QED BY <1>1, <1>2, <1>3, <1>6, <2>4 DEF HandledWell, Late, Entry, h
<1>. QED BY <1>5, <1>6

\* selectAudioCodec chooses once.
LEMMA CodecSettles ==
  ASSUME NEW o, Understood(o), NEW node, FindChild(node, "voip_settings") = o.settings.nodes,
         NEW codec \in {"mlow", o.settings.codec}
  PROVE  ApplyVoipSettingsCodec(codec, node) = o.settings.codec
<1>1. CASE o.settings.nodes = <<>> /\ o.settings.codec = "mlow"
  BY <1>1 DEF ApplyVoipSettingsCodec
<1>2. ASSUME NEW content, o.settings.nodes = <<Node("voip_settings", NoAttrs, <<>>, content)>>,
             o.settings.codec = SelectAudioCodec(content, "mlow")
      PROVE  ApplyVoipSettingsCodec(codec, node) = o.settings.codec
  <2>1. o.settings.nodes # <<>> /\ o.settings.nodes[1].content = content  BY <1>2, NodeParts
  <2>2. ApplyVoipSettingsCodec(codec, node) = SelectAudioCodec(content, codec)
    BY <2>1 DEF ApplyVoipSettingsCodec
  <2>. QED BY <1>2, <2>2 DEF SelectAudioCodec
<1>. QED BY <1>1, <1>2 DEF Understood

\* onCallAck: the caller has the relay, and the codec of the call from then on.
LEMMA TakesAck ==
  ASSUME NEW m, NEW e, NEW o, Entry(m.to, e, o), SaysAck(m, o)
  PROVE  /\ HandledWell(Handled(e, m), m, e, o)
         /\ Handled(e, m).entry = NoCall \/ Handled(e, m).entry.codec = o.settings.codec
<1>1. Speaks(<<>>, o)  BY SpeaksNothing
<1>2. Handled(e, m) = OnCallAck(e, m) /\ Action(m).tag # "offer" /\ m.to = Caller /\ Understood(o)
      /\ ~Has(m.node, "error") /\ FindChild(m.node, "relay") = <<o.block.node>>
      /\ m.means = <<[codec |-> o.settings.codec, allocation |-> o.block.means]>>
  BY DEF SaysAck, Handled
<1>3. CASE e = NoCall
  <2>1. OnCallAck(e, m) = Ignored(e)  BY <1>2, <1>3 DEF OnCallAck
  <2>2. Ignored(e).entry = NoCall /\ Ignored(e).out = <<>> /\ Ignored(e).read = Nothing  BY <1>3 DEF Ignored
  <2>. QED BY <1>1, <1>2, <1>3, <2>1, <2>2 DEF HandledWell, Late, Entry
<1>4. CASE e # NoCall
  <2> DEFINE codec == ApplyVoipSettingsCodec(e.codec, m.node)
             f == [e EXCEPT !.codec = codec]
             g == [f EXCEPT !.relay = Block(o)]
             entry == OnRelay(f, m.node)
  <2>1. KeepsCall(m.to, e, o) /\ DOMAIN e = DOMAIN NoCall  BY <1>4 DEF Entry, KeepsCall
  <2>2. codec = o.settings.codec
    <3>1. e.codec \in {"mlow", o.settings.codec}  BY <1>2, <2>1 DEF KeepsCall
    <3>. QED BY <1>2, <3>1, CodecSettles DEF SaysAck
  <2> HIDE DEF codec
  <2>3. f # NoCall
    <3>1. f.callKey = <<"key">>  BY <2>1 DEF KeepsCall, NoCall
    <3>2. NoCall.callKey = <<>>  BY DEF NoCall
    <3> HIDE DEF f
    <3>. QED BY <3>1, <3>2
  <2>4. entry = MaybeStartMedia(g)
    <3>1. <<o.block.node>> # <<>> /\ <<o.block.node>>[1] = o.block.node  OBVIOUS
    <3> HIDE DEF f
    <3>. QED BY <1>2, <2>3, <3>1 DEF OnRelay, Block
  <2>5. KeepsCall(Caller, g, o) /\ g.codec = o.settings.codec /\ g.relay = Block(o)
    <3>1. /\ DOMAIN g = DOMAIN NoCall /\ g.callKey = e.callKey /\ g.selfLID = e.selfLID /\ g.media = e.media
          /\ g.creator = e.creator /\ g.relay = Block(o) /\ g.direction = e.direction /\ g.peerLID = e.peerLID
          /\ g.acceptPending = e.acceptPending /\ g.codec = codec /\ g.from = e.from
      BY <2>1 DEF NoCall
    <3> HIDE DEF g
    <3>. QED BY <1>2, <2>1, <2>2, <3>1 DEF KeepsCall
  <2> HIDE DEF g
  <2>6. KeepsCall(Caller, entry, o) /\ entry.codec = o.settings.codec /\ entry.relay = Block(o)
    <3> HIDE DEF entry
    <3>. QED BY <2>4, <2>5, MaybeStartMediaKeeps
  <2>7. OnCallAck(e, m) = [entry |-> entry, out |-> <<>>,
                           read |-> <<[codec |-> entry.codec, allocation |-> Allocation(entry.relay)]>>]
    BY <1>2, <1>4 DEF OnCallAck, codec
  <2> HIDE DEF entry
  <2>8. Allocation(Block(o)) = o.block.means  BY <1>2 DEF Understood, Block
  <2> DEFINE h == OnCallAck(e, m)
  <2>9. h.entry = entry /\ h.out = <<>> /\ h.read = m.means  BY <1>2, <2>6, <2>7, <2>8
  <2> HIDE DEF h
  <2>10. HandledWell(h, m, e, o)  BY <1>1, <1>2, <1>4, <2>6, <2>9 DEF HandledWell, Late, Entry
  <2>. QED BY <1>2, <2>6, <2>9, <2>10 DEF h
<1>. QED BY <1>3, <1>4

-----------------------------------------------------------------------------
(* Stanzas that are built and routed.                                      *)

\* What callWrap makes, also when the server adds to it.
Wrapped(n, to, action) == IsNode(n) /\ n.tag = "call" /\ n.kids[1] = action /\ Attr(n, "to") = to

\* callWrap.
LEMMA CallWrapIs ==
  ASSUME NEW to, NEW action
  PROVE  Wrapped(CallWrap(to, action), to, action)
<1> DEFINE n == CallWrap(to, action)
<1>1. IsNode(n) /\ n.tag = "call" /\ n.kids = <<action>> /\ n.attrs = {<<"to", to>>}
  BY NodeParts DEF CallWrap, Parent
<1> HIDE DEF n
<1>2. <<"to", to>> \in n.attrs /\ \A a \in n.attrs : a[1] = "to" => a[2] = to  BY <1>1
<1>3. Attr(n, "to") = to  BY <1>2, ValueIs
<1>. QED BY <1>1, <1>3 DEF Wrapped, n

\* Attributes other than to leave it so.
LEMMA WrappedKeeps ==
  ASSUME NEW n, NEW to, NEW action, Wrapped(n, to, action), NEW key, key # "to", NEW value
  PROVE  Wrapped(WithAttr(n, key, value), to, action)
<1>1. IsNode(n)  BY DEF Wrapped
<1>. QED BY <1>1, WithAttrIs DEF Wrapped

\* A stanza as the server passes it on.
PassedOn(m, sender, n, means) ==
  m.to \in Ends /\ m.node = WithAttr(n, "from", sender) /\ m.means = means

\* The receiver finds the action as it was sent, and the sender.
LEMMA PassedOnIs ==
  ASSUME NEW m, NEW sender, NEW n, NEW means, NEW to, NEW action, Wrapped(n, to, action), PassedOn(m, sender, n, means)
  PROVE  /\ Is(m, action.tag) /\ Action(m) = action /\ Sender(m) = sender /\ m.means = means
         /\ \A k : k # "from" => Attr(m.node, k) = Attr(n, k) /\ (Has(m.node, k) <=> Has(n, k))
<1>1. IsNode(n)  BY DEF Wrapped
<1>. QED BY <1>1, WithAttrIs DEF Wrapped, PassedOn, Is, Action, Sender

\* Whom the server passes on to what goes to a user, or a device.
Reaches(to, d) == IF to = PeerUser THEN d \in Callees ELSE d = to

\* One node for every receiver.
Sent(n, node, means) == [i \in DOMAIN Receivers(n) |-> [to |-> Receivers(n)[i], node |-> node, means |-> means]]

\* What says what it means to every receiver does so on the wire.
LEMMA SentSpeaks ==
  ASSUME NEW n, NEW node, NEW means, NEW o, NEW to \in Ends \cup {PeerUser}, Attr(n, "to") = to,
         \A m : m.to \in Ends /\ Reaches(to, m.to) /\ m.node = node /\ m.means = means
                  => Says(m, o) /\ ~Rings(m)
  PROVE  Speaks(Sent(n, node, means), o)
<1> DEFINE R == IF to = PeerUser THEN Callees ELSE {to}
           V == {[to |-> t, node |-> node, means |-> means] : t \in R}
           list == Receivers(n)
           out == [i \in DOMAIN list |-> [to |-> list[i], node |-> node, means |-> means]]
<1>1. list \in Seq(R)
  <2>1. Devices \in Seq(Callees)  BY SignalsAssumption
  <2>2. <<to>> \in Seq({to})  OBVIOUS
  <2>. QED BY <2>1, <2>2 DEF Receivers
<1>2. out \in Seq(V)
  <2> HIDE DEF R, list
  <2>1. Len(list) \in Nat /\ DOMAIN list = 1..Len(list) /\ \A i \in 1..Len(list) : list[i] \in R  BY <1>1
  <2>2. \A i \in 1..Len(list) : [to |-> list[i], node |-> node, means |-> means] \in V  BY <2>1
  <2> HIDE DEF V
  <2>3. out \in [1..Len(list) -> V]  BY <2>1, <2>2
  <2> HIDE DEF out
  <2>. QED BY <2>1, <2>3, SeqDef
<1>3. ASSUME NEW m \in V PROVE Says(m, o) /\ ~Rings(m)
  <2>1. PICK t \in R : m = [to |-> t, node |-> node, means |-> means]  OBVIOUS
  <2>2. m.to = t /\ m.node = node /\ m.means = means  BY <2>1
  <2>3. t \in Ends /\ Reaches(to, t)  BY DEF Ends, Reaches
  <2>. QED BY <2>2, <2>3
<1> HIDE DEF V, out
<1>4. Speaks(out, o)  BY <1>2, <1>3 DEF Speaks
<1>. QED BY <1>4 DEF out, Sent

\* The same of a stanza that is passed on.
LEMMA RoutedSpeaks ==
  ASSUME NEW sender, NEW n, NEW means, NEW o, NEW to \in Ends \cup {PeerUser}, NEW action, Wrapped(n, to, action),
         \A m : PassedOn(m, sender, n, means) /\ Reaches(to, m.to) => Says(m, o) /\ ~Rings(m)
  PROVE  Speaks(Routed(sender, n, means), o)
<1>1. Attr(n, "to") = to  BY DEF Wrapped
<1> DEFINE node == WithAttr(n, "from", sender)
<1>2. \A m : m.to \in Ends /\ Reaches(to, m.to) /\ m.node = node /\ m.means = means => Says(m, o) /\ ~Rings(m)
  BY DEF PassedOn
<1>3. Speaks(Sent(n, node, means), o)
  <2> HIDE DEF node
  <2>. QED BY <1>1, <1>2, SentSpeaks
<1>. QED BY <1>3 DEF Routed, Sent

\* buildPreaccept.
LEMMA PreacceptSpeaks ==
  ASSUME NEW o, NEW p, p.to \in Ends, NEW sender
  PROVE  Speaks(Routed(sender, BuildPreaccept(p), <<"prepared">>), o)
<1> PICK action : BuildPreaccept(p) = WithAttr(CallWrap(p.to, action), "id", p.wrapperID) /\ action.tag = "preaccept"
  BY NodeParts DEF BuildPreaccept, Parent
<1> DEFINE n == BuildPreaccept(p)
<1>1. Wrapped(n, p.to, action)  BY CallWrapIs, WrappedKeeps
<1> HIDE DEF n
<1>2. ASSUME NEW m, PassedOn(m, sender, n, <<"prepared">>) PROVE Says(m, o) /\ ~Rings(m)
  <2>1. Is(m, "preaccept") /\ m.means = <<"prepared">>  BY <1>1, <1>2, PassedOnIs
  <2>. QED BY <2>1, CallTag DEF Says, SaysPrepared, Rings
<1>. QED BY <1>1, <1>2, RoutedSpeaks DEF n

\* onOffer of a device with no call: the entry has key, names, relay and codec of
\* the offer, and the device answers with a preaccept.
LEMMA TakesOffer ==
  ASSUME NEW m, NEW o, SaysOffer(m, o)
  PROVE  HandledWell(Handled(NoCall, m), m, NoCall, o)
<1>1. Handled(NoCall, m) = OnOffer(NoCall, m)  BY CallTag DEF SaysOffer, Handled
<1> DEFINE offer == Action(m)
           key == DecryptInboundCallKey(offer, m.to)
           video == OfferHasVideo(offer)
           relay == FindChild(offer, "relay")
           codec == ApplyVoipSettingsCodec("mlow", offer)
           block == IF relay = <<>> THEN NoRelay ELSE ParseRelayData(relay[1])
           f == [NoCall EXCEPT !.phase = "ringing", !.callKey = key, !.selfLID = m.to, !.creator = Creator(m),
                          !.peerLID = IF Creator(m) = "" THEN Sender(m) ELSE Creator(m),
                          !.from = Sender(m), !.direction = "incoming",
                          !.localVideo = video, !.remoteVideo = video,
                          !.relay = IF relay = <<>> THEN @ ELSE ParseRelayData(relay[1]),
                          !.codec = ApplyVoipSettingsCodec(@, offer)]
           p == [callID |-> "call", to |-> Sender(m), callCreator |-> Creator(m),
                 wrapperID |-> "r1", audioRates |-> << 16000 >>, video |-> video]
           out == Routed(m.to, BuildPreaccept(p), <<"prepared">>)
           h == OnOffer(NoCall, m)
<1>0. /\ m.node.kids[1] = offer /\ Attr(offer, "is_call_ended") # "1" /\ Attr(offer, "terminate_reason") = ""
      /\ key = <<"key">> /\ video = o.video /\ Creator(m) = Caller /\ Sender(m) = Caller
  BY DEF SaysOffer, Action
<1>2. /\ h.entry = f /\ h.out = out
      /\ h.read = <<[key |-> key, video |-> f.localVideo, creator |-> f.creator, from |-> f.from,
                     codec |-> f.codec, allocation |-> Allocation(f.relay)]>>
  <2>1. h = Rung(NoCall, m)
    <3>1. <<"key">> # <<>>  OBVIOUS
    <3> HIDE DEF offer
    <3>. QED BY <1>0, <3>1 DEF OnOffer
  <2>2. Rung(NoCall, m) =
          [entry |-> f, out |-> out,
           read |-> <<[key |-> key, video |-> f.localVideo, creator |-> f.creator, from |-> f.from,
                       codec |-> f.codec, allocation |-> Allocation(f.relay)]>>]
    BY DEF Rung, Action
  <2> HIDE DEF f, out, h
  <2>. QED BY <2>1, <2>2
<1>3. /\ DOMAIN f = DOMAIN NoCall /\ f.callKey = <<"key">> /\ f.selfLID = m.to /\ f.media = <<>>
      /\ f.creator = Caller /\ f.relay = block /\ f.direction = "incoming" /\ f.peerLID = Caller
      /\ f.codec = codec /\ f.from = Caller /\ f.localVideo = o.video
  <2> HIDE DEF key, video, offer
  <2>. QED BY <1>0 DEF NoCall
<1> HIDE DEF f, h
<1>4. codec = o.settings.codec  BY CodecSettles DEF SaysOffer
<1>5. block = IF o.early THEN Block(o) ELSE NoRelay
  <2>1. relay = IF o.early THEN <<o.block.node>> ELSE <<>>  BY DEF SaysOffer, When
  <2>. QED BY <2>1 DEF Block
<1>6. Allocation(block) = IF o.early THEN o.block.means ELSE NoAllocation
  <2>1. Allocation(Block(o)) = o.block.means  BY DEF SaysOffer, Understood, Block
  <2>2. Allocation(NoRelay) = NoAllocation  BY DEF Allocation, NoRelay
  <2>. QED BY <1>5, <2>1, <2>2
<1>7. m.to # Caller  BY SignalsAssumption DEF SaysOffer
<1>8. KeepsCall(m.to, f, o)  BY <1>3, <1>4, <1>5, <1>7 DEF KeepsCall
<1>9. Speaks(out, o)
  <2>1. p.to \in Ends  BY <1>0 DEF Ends
  <2> HIDE DEF p
  <2>. QED BY <2>1, PreacceptSpeaks
<1>10. h.read = m.means
  <2>1. /\ f.localVideo = o.video /\ f.creator = Caller /\ f.from = Caller /\ f.codec = o.settings.codec
        /\ Allocation(f.relay) = IF o.early THEN o.block.means ELSE NoAllocation
    BY <1>3, <1>4, <1>6
  <2> HIDE DEF block, codec, out, key, video
  <2>. QED BY <1>0, <1>2, <2>1 DEF SaysOffer
<1>11. Action(m).tag = "offer" /\ Rings(m)
  <2> HIDE DEF offer, key, video, relay, codec, block, f, p, out, h
  <2>1. Is(m, "offer") /\ m.means # <<>>
    <3>1. PICK x : m.means = <<x>>  BY DEF SaysOffer
    <3>2. <<x>> # <<>>  OBVIOUS
    <3>3. Is(m, "offer")  BY DEF SaysOffer
    <3>. QED BY <3>1, <3>2, <3>3
  <2>. QED BY <2>1, CallTag DEF Rings, Nothing
<1>. QED BY <1>1, <1>2, <1>8, <1>9, <1>10, <1>11 DEF HandledWell, Late, Entry, h
\* onAccept: the caller learns who answered; the codec was settled by the ack.
LEMMA TakesAccept ==
  ASSUME NEW m, NEW e, NEW o, Entry(m.to, e, o), SaysAccept(m)
  PROVE  HandledWell(Handled(e, m), m, e, o)
<1>1. Speaks(<<>>, o)  BY SpeaksNothing
<1>2. Handled(e, m) = OnAccept(e, m) /\ Action(m).tag # "offer" /\ m.to = Caller /\ Sender(m) \in Callees
      /\ m.means = <<[by |-> Sender(m)]>>
  BY CallTag DEF SaysAccept, Handled
<1>3. CASE e = NoCall
  <2>1. OnAccept(e, m) = Ignored(e)  BY <1>3 DEF OnAccept
  <2>2. Ignored(e).entry = NoCall /\ Ignored(e).out = <<>> /\ Ignored(e).read = Nothing  BY <1>3 DEF Ignored
  <2>. QED BY <1>1, <1>2, <1>3, <2>1, <2>2 DEF HandledWell, Late, Entry
<1>4. CASE e # NoCall
  <2> DEFINE from == Sender(m)
             f == [e EXCEPT !.from = Sender(m), !.peerLID = Sender(m),
                            !.codec = ApplyVoipSettingsCodec(@, m.node.kids[1]),
                            !.media = IF @ = <<>> THEN @ ELSE <<[@[1] EXCEPT !.peer = Sender(m)]>>,
                            !.phase = IF @ \in {"calling", "ringing"} THEN "connecting" ELSE @]
             h == OnAccept(e, m)
  <2>1. KeepsCall(Caller, e, o) /\ DOMAIN e = DOMAIN NoCall /\ e.direction = "outgoing"
    BY <1>2, <1>4 DEF Entry, KeepsCall
  <2>2. h = [entry |-> MaybeStartMedia(f), out |-> <<>>, read |-> <<[by |-> f.peerLID]>>]
    BY <1>4, <2>1 DEF OnAccept
  <2>3. ApplyVoipSettingsCodec(e.codec, m.node.kids[1]) = e.codec
    BY DEF SaysAccept, Action, ApplyVoipSettingsCodec
  <2>4. /\ DOMAIN f = DOMAIN NoCall /\ f.callKey = e.callKey /\ f.selfLID = e.selfLID
        /\ f.media = IF e.media = <<>> THEN <<>> ELSE <<[e.media[1] EXCEPT !.peer = from]>>
        /\ f.creator = e.creator /\ f.relay = e.relay /\ f.direction = e.direction /\ f.peerLID = from
        /\ f.acceptPending = e.acceptPending /\ f.codec = e.codec /\ f.from = from
    BY <2>1, <2>3 DEF NoCall
  <2> HIDE DEF f
  <2>5. \/ f.media = <<>>
        \/ f.media = <<[key |-> <<"key">>, self |-> Caller, peer |-> from, allocation |-> Allocation(Block(o))]>>
    <3>1. CASE e.media = <<>>  BY <2>4, <3>1
    <3>2. CASE e.media # <<>>
      <4> DEFINE media == [key |-> <<"key">>, self |-> Caller, peer |-> e.peerLID, allocation |-> Allocation(Block(o))]
      <4>1. e.media = <<media>>  BY <2>1, <3>2 DEF KeepsCall
      <4>2. e.media[1] = media  BY <4>1
      <4>. QED BY <2>4, <3>2, <4>2
    <3>. QED BY <3>1, <3>2
  <2>6. KeepsCall(Caller, f, o)
    <3> HIDE DEF from
    <3>1. from \in Callees  BY <1>2 DEF from
    <3>. QED BY <2>1, <2>4, <2>5, <3>1 DEF KeepsCall
  <2>7. KeepsCall(Caller, h.entry, o) /\ h.entry.codec = e.codec
    <3>1. h.entry = MaybeStartMedia(f)  BY <2>2
    <3>. QED BY <2>4, <2>6, <3>1, MaybeStartMediaKeeps
  <2>8. h.out = <<>> /\ h.read = m.means  BY <1>2, <2>2, <2>4
  <2> HIDE DEF h, from
  <2>. QED BY <1>1, <1>2, <1>4, <2>7, <2>8 DEF HandledWell, Late, Entry, h
<1>. QED BY <1>3, <1>4

\* onRelay, of either end.
LEMMA TakesTransport ==
  ASSUME NEW m, NEW e, NEW o, Entry(m.to, e, o), SaysTransport(m, o)
  PROVE  HandledWell(Handled(e, m), m, e, o)
<1>1. Speaks(<<>>, o)  BY SpeaksNothing
<1>2. Handled(e, m) = OnTransport(e, m) /\ Action(m).tag # "offer"
  BY CallTag DEF SaysTransport, Handled
<1> DEFINE entry == OnRelay(e, m.node.kids[1])
           h == OnTransport(e, m)
<1>3. /\ h.entry = entry /\ h.out = <<>>
      /\ h.read = IF e = NoCall THEN Nothing ELSE <<Allocation(entry.relay)>>
  <2> HIDE DEF entry
  <2>. QED BY DEF OnTransport, entry
<1>4. PICK node : /\ FindChild(m.node.kids[1], "relay") = <<node>> /\ ParseRelayData(node) \in {NoRelay, Block(o)}
                  /\ m.means = <<Allocation(ParseRelayData(node))>>
  BY DEF SaysTransport, Action
<1>5. CASE e = NoCall
  <2>1. entry = NoCall  BY <1>5 DEF OnRelay
  <2> HIDE DEF entry, h
  <2>. QED BY <1>1, <1>2, <1>3, <1>5, <2>1 DEF HandledWell, Late, Entry, h
<1>6. CASE e # NoCall
  <2> DEFINE g == [e EXCEPT !.relay = ParseRelayData(node)]
  <2>1. KeepsCall(m.to, e, o) /\ DOMAIN e = DOMAIN NoCall  BY <1>6 DEF Entry, KeepsCall
  <2>2. entry = MaybeStartMedia(g)
    <3>1. <<node>> # <<>> /\ <<node>>[1] = node  OBVIOUS
    <3>. QED BY <1>4, <1>6, <3>1 DEF OnRelay
  <2>3. /\ DOMAIN g = DOMAIN NoCall /\ g.callKey = e.callKey /\ g.selfLID = e.selfLID /\ g.media = e.media
        /\ g.creator = e.creator /\ g.relay = ParseRelayData(node) /\ g.direction = e.direction
        /\ g.peerLID = e.peerLID /\ g.acceptPending = e.acceptPending /\ g.codec = e.codec /\ g.from = e.from
    BY <2>1 DEF NoCall
  <2> HIDE DEF g
  <2>4. KeepsCall(m.to, g, o)  BY <1>4, <2>1, <2>3 DEF KeepsCall
  <2>5. KeepsCall(m.to, entry, o) /\ entry.codec = e.codec /\ entry.relay = ParseRelayData(node)
    <3> HIDE DEF entry
    <3>. QED BY <2>2, <2>3, <2>4, MaybeStartMediaKeeps
  <2> HIDE DEF entry, h
  <2>. QED BY <1>1, <1>2, <1>3, <1>4, <1>6, <2>5 DEF HandledWell, Late, Entry, h
<1>. QED BY <1>5, <1>6

-----------------------------------------------------------------------------
(* Nodes that do not have a tag.                                           *)

\* A sequence of leaves with other tags.
Lacks(s, tags) == s \in Seq(Range(s)) /\ \A k \in Range(s) : k.kids = <<>> /\ k.tag \notin tags

\* What a concatenation holds.
LEMMA RangeOfConcat ==
  ASSUME NEW V, NEW s \in Seq(V), NEW W, NEW t \in Seq(W)
  PROVE  s \o t \in Seq(Range(s) \cup Range(t)) /\ Range(s \o t) = Range(s) \cup Range(t)
<1> DEFINE U == Range(s) \cup Range(t)
<1>1. s \in Seq(U) /\ t \in Seq(U)
  <2>1. s \in Seq(Range(s)) /\ t \in Seq(Range(t))
    <3>1. /\ Len(s) \in Nat /\ s \in [1..Len(s) -> Range(s)] /\ Len(t) \in Nat /\ t \in [1..Len(t) -> Range(t)]
      BY DEF Range
    <3>. QED BY <3>1, SeqDef
  <2>. QED BY <2>1, SeqMonotonic
<1>2. s \o t \in Seq(U) /\ Len(s \o t) = Len(s) + Len(t)
      /\ \A i \in 1..Len(s) + Len(t) : (s \o t)[i] = IF i <= Len(s) THEN s[i] ELSE t[i - Len(s)]
  <2> HIDE DEF U
  <2>. QED BY <1>1, ConcatProperties
<1>3. Range(s \o t) = U
  <2>1. Len(s) \in Nat /\ Len(t) \in Nat /\ DOMAIN (s \o t) = 1..Len(s) + Len(t)
        /\ DOMAIN s = 1..Len(s) /\ DOMAIN t = 1..Len(t)
    BY <1>1, <1>2
  <2>2. ASSUME NEW x \in Range(s \o t) PROVE x \in U  BY <1>2, <2>1 DEF Range
  <2>3. ASSUME NEW x \in Range(s) PROVE x \in Range(s \o t)
    <3>1. PICK i \in 1..Len(s) : x = s[i]  BY <2>1 DEF Range
    <3>2. i \in 1..Len(s) + Len(t) /\ (s \o t)[i] = x  BY <1>2, <2>1, <3>1
    <3>. QED BY <2>1, <3>2 DEF Range
  <2>4. ASSUME NEW x \in Range(t) PROVE x \in Range(s \o t)
    <3>1. PICK i \in 1..Len(t) : x = t[i]  BY <2>1 DEF Range
    <3>2. i + Len(s) \in 1..Len(s) + Len(t) /\ ~(i + Len(s) <= Len(s)) /\ i + Len(s) - Len(s) = i  BY <2>1
    <3>3. (s \o t)[i + Len(s)] = x  BY <1>2, <3>1, <3>2
    <3>. QED BY <2>1, <3>2, <3>3 DEF Range
  <2>. QED BY <2>2, <2>3, <2>4
<1>. QED BY <1>2, <1>3

\* Such sequences joined, of one leaf, of none, and of a leaf that may be there.
LEMMA LacksConcat ==
  ASSUME NEW s, NEW t, NEW tags, Lacks(s, tags), Lacks(t, tags)
  PROVE  Lacks(s \o t, tags)
<1>1. s \in Seq(Range(s)) /\ t \in Seq(Range(t))  BY DEF Lacks
<1>2. s \o t \in Seq(Range(s \o t)) /\ Range(s \o t) = Range(s) \cup Range(t)  BY <1>1, RangeOfConcat
<1>. QED BY <1>2 DEF Lacks

LEMMA LacksOne ==
  ASSUME NEW k, k.kids = <<>>, NEW tags, k.tag \notin tags
  PROVE  Lacks(<<k>>, tags)
<1>1. Range(<<k>>) = {k}  BY DEF Range
<1>2. <<k>> \in Seq({k})  OBVIOUS
<1>. QED BY <1>1, <1>2 DEF Lacks

LEMMA LacksNone ==
  ASSUME NEW tags PROVE Lacks(<<>>, tags)
<1>1. Range(<<>>) = {}  BY DEF Range
<1>. QED BY <1>1 DEF Lacks

LEMMA LacksWhen ==
  ASSUME NEW condition, NEW k, k.kids = <<>>, NEW tags, k.tag \notin tags
  PROVE  Lacks(When(condition, k), tags)
BY LacksOne, LacksNone, Zenon DEF When

LEMMA LacksOpt ==
  ASSUME NEW tag, NEW attrs, NEW content, NEW tags, tag \notin tags
  PROVE  Lacks(Opt(tag, attrs, content), tags)
<1>1. Node(tag, attrs, <<>>, content).kids = <<>> /\ Node(tag, attrs, <<>>, content).tag = tag  BY NodeParts
<1>. QED BY <1>1, LacksWhen DEF Opt

\* Neither findChild nor childByTag finds a tag that the children lack.
LEMMA NotFound ==
  ASSUME NEW n, NEW tags, Lacks(n.kids, tags), NEW tag \in tags
  PROVE  ChildByTag(n, tag) = <<>> /\ (n.tag # tag => FindChild(n, tag) = <<>>)
<1>1. n.kids \in Seq(Range(n.kids))  BY DEF Lacks
<1>2. ASSUME NEW i \in DOMAIN n.kids
      PROVE  Named(n.kids[i], tag) = <<>> /\ FindShallow(n.kids[i], tag) = <<>>
  <2>1. n.kids[i] \in Range(n.kids)  BY DEF Range
  <2>2. n.kids[i].kids = <<>> /\ n.kids[i].tag # tag  BY <2>1 DEF Lacks
  <2>3. Named(n.kids[i], tag) = <<>>  BY <2>2 DEF Named, When
  <2>. QED BY <2>2, <2>3, LeafHasNone
<1> DEFINE none == <<>>
<1>3. ChildByTag(n, tag) = none
  <2>1. \A i \in DOMAIN n.kids : Named(n.kids[i], tag) \in {<<>>, none}  BY <1>2
  <2> HIDE DEF none
  <2>2. ChildByTag(n, tag) = IF \E i \in DOMAIN n.kids : Named(n.kids[i], tag) = none THEN none ELSE <<>>
    BY <1>1, <2>1, ChildAmong
  <2>. QED BY <2>2 DEF none
<1>4. ASSUME n.tag # tag PROVE FindChild(n, tag) = none
  <2>1. \A i \in DOMAIN n.kids : FindShallow(n.kids[i], tag) \in {<<>>, none}  BY <1>2
  <2> HIDE DEF none
  <2>2. FindChild(n, tag) = IF \E i \in DOMAIN n.kids : FindShallow(n.kids[i], tag) = none THEN none ELSE <<>>
    BY <1>1, <1>4, <2>1, FoundBelow
  <2>. QED BY <2>2 DEF none
<1>. QED BY <1>3, <1>4
LEMMA PairIs ==
  ASSUME NEW a, NEW b
  PROVE  <<a>> \o <<b>> = <<a, b>> /\ Append(<<a>>, b) = <<a, b>>
<1> DEFINE V == {a, b}
<1>1. <<a>> \in Seq(V) /\ b \in V /\ <<a, b>> \in Seq(V) /\ Len(<<a>>) = 1 /\ Len(<<a, b>>) = 2
      /\ <<a>>[1] = a /\ <<a, b>>[1] = a /\ <<a, b>>[2] = b
  OBVIOUS
<1> DEFINE s == <<a>>
           t == <<a, b>>
           u == Append(s, b)
<1> HIDE DEF V, s, t
<1>2. s \in Seq(V) /\ Len(s) = 1 /\ s[1] = a /\ t \in Seq(V) /\ Len(t) = 2 /\ t[1] = a /\ t[2] = b  BY <1>1 DEF s, t
<1>3. u \in Seq(V) /\ Len(u) = 2 /\ u[1] = a /\ u[2] = b
  <2>1. u \in Seq(V) /\ Len(u) = Len(s) + 1 /\ u[Len(s) + 1] = b /\ \A i \in 1..Len(s) : u[i] = s[i]
    BY <1>1, <1>2, AppendProperties
  <2> HIDE DEF u
  <2>. QED BY <1>2, <2>1
<1>4. u = t
  <2> HIDE DEF u
  <2>1. \A i \in 1..Len(u) : u[i] = t[i]  BY <1>2, <1>3
  <2>. QED BY <1>2, <1>3, <2>1, SeqEqual
<1>5. s \o <<b>> = u  BY <1>1, <1>2, AppendIsConcat
<1>. QED BY <1>4, <1>5 DEF s, t

\* The parts of a node that has children.
LEMMA ParentIs ==
  ASSUME NEW tag, NEW attrs, NEW kids
  PROVE  /\ IsNode(Parent(tag, attrs, kids)) /\ Parent(tag, attrs, kids).tag = tag
         /\ Parent(tag, attrs, kids).kids = kids /\ Parent(tag, attrs, kids).attrs = attrs
BY NodeParts DEF Parent

\* Pairs, and a sequence of one sequence.
LEMMA TwoElements ==
  ASSUME NEW a, NEW b
  PROVE  /\ DOMAIN <<a, b>> = 1..2 /\ <<a, b>>[1] = a /\ <<a, b>>[2] = b
         /\ <<a, b>> = [i \in 1..2 |-> IF i = 1 THEN a ELSE b]
OBVIOUS

LEMMA FlattenOne ==
  ASSUME NEW V, NEW s \in Seq(V)
  PROVE  FlattenSeq(<<s>>) = s
<1>1. FlattenSeq(<<>>) = <<>>  BY DEF FlattenSeq
<1>2. <<>> \in Seq(Seq(V)) /\ Append(<<>>, s) = <<s>>  OBVIOUS
<1>3. FlattenSeq(Append(<<>>, s)) = FlattenSeq(<<>>) \o s  BY <1>2, FlattenAppend
<1>4. <<>> \o s = s  BY ConcatEmptySeq
<1>. QED BY <1>1, <1>2, <1>3, <1>4

\* The tree of a relaylatency: a probe, and whom it is for.
LEMMA ProbeTree ==
  ASSUME NEW p, p.devices \in Seq(Ends), p.latency \in Nat,
         NEW te, te.tag = "te", te.kids = <<>>, te.content = p.address,
         Attr(te, "latency") = EncodeLatency(p.latency), Attr(te, "relay_name") = p.relayName,
         NEW action, action.tag = "relaylatency",
         action.kids = <<te>> \o When(p.devices # <<>>, DestinationTo(p.devices))
  PROVE  /\ FindChild(action, "relay") = <<>>
         /\ Probes(action) = <<[latency |-> p.latency, relayName |-> p.relayName, address |-> p.address]>>
<1> DEFINE dest == DestinationTo(p.devices)
<1>1. te.kids = <<>> /\ te.tag = "te" /\ te.content = p.address  OBVIOUS
<1>2. dest.tag = "destination" /\ ChildByTag(dest, "relay") = <<>>
  <2> DEFINE kids == [i \in DOMAIN p.devices |-> Leaf("to", {<<"jid", p.devices[i]>>})]
  <2>1. dest.tag = "destination" /\ dest.kids = kids  BY NodeParts DEF DestinationTo, Parent
  <2>2. Lacks(kids, {"relay"})
    <3>1. Len(p.devices) \in Nat /\ DOMAIN p.devices = 1..Len(p.devices)  OBVIOUS
    <3>2. \A i \in DOMAIN kids : kids[i].kids = <<>> /\ kids[i].tag = "to"  BY NodeParts DEF Leaf
    <3>3. kids \in [1..Len(p.devices) -> Range(kids)]  BY <3>1 DEF Range
    <3>4. kids \in Seq(Range(kids))
      <4> HIDE DEF kids
      <4>. QED BY <3>1, <3>3, SeqDef
    <3>5. \A k \in Range(kids) : k.kids = <<>> /\ k.tag \notin {"relay"}
      <4> HIDE DEF kids
      <4>. QED BY <3>2 DEF Range
    <3> HIDE DEF kids
    <3>. QED BY <3>4, <3>5 DEF Lacks
  <2> HIDE DEF kids, dest
  <2>. QED BY <2>1, <2>2, NotFound
<1> HIDE DEF dest
<1>3. action.kids = IF p.devices = <<>> THEN <<te>> ELSE <<te, dest>>
  <2>1. <<te>> \o <<dest>> = <<te, dest>>  BY PairIs
  <2>2. <<te>> \in Seq({te})  OBVIOUS
  <2>3. <<te>> \o <<>> = <<te>>  BY <2>2, ConcatEmptySeq
  <2>. QED BY <2>1, <2>3 DEF When, dest
<1> DEFINE V == {te, dest}
<1>4. action.kids \in Seq(V)
  <2>1. <<te>> \in Seq(V) /\ <<te, dest>> \in Seq(V)  OBVIOUS
  <2>. QED BY <1>3, <2>1
<1>5. \A i \in DOMAIN action.kids : action.kids[i] \in {te, dest}
  <2>1. \A i \in DOMAIN action.kids : action.kids[i] \in V
    <3> HIDE DEF V
    <3>. QED BY <1>4, ElementOfSeq
  <2>. QED BY <2>1
<1>6. FindChild(action, "relay") = <<>>
  <2> DEFINE none == <<>>
  <2>1. FindShallow(te, "relay") = none  BY <1>1, LeafHasNone DEF Named, When
  <2>2. FindShallow(dest, "relay") = none  BY <1>2 DEF FindShallow
  <2>3. \A i \in DOMAIN action.kids : FindShallow(action.kids[i], "relay") \in {<<>>, none}  BY <1>5, <2>1, <2>2
  <2> HIDE DEF none
  <2>4. FindChild(action, "relay") = IF \E i \in DOMAIN action.kids : FindShallow(action.kids[i], "relay") = none THEN none ELSE <<>>
    BY <1>4, <2>3, FoundBelow
  <2>. QED BY <2>4 DEF none
<1>7. Kids(action, "te") = <<te>>
  <2>1. Named(te, "te") = <<te>> /\ Named(dest, "te") = <<>>  BY <1>1, <1>2 DEF Named, When
  <2> DEFINE found == [i \in DOMAIN action.kids |-> Named(action.kids[i], "te")]
  <2>2. CASE p.devices = <<>>
    <3>1. found = <<<<te>>>>  BY <1>3, <2>1, <2>2
    <3>2. <<te>> \in Seq({te})  OBVIOUS
    <3>. QED BY <3>1, <3>2, FlattenOne DEF Kids
  <2>3. CASE p.devices # <<>>
    <3>1. found = <<<<te>>, <<>>>>
      <4>1. action.kids = <<te, dest>>  BY <1>3, <2>3
      <4>2. DOMAIN <<te, dest>> = 1..2 /\ <<te, dest>>[1] = te /\ <<te, dest>>[2] = dest  BY TwoElements
      <4>3. DOMAIN action.kids = 1..2 /\ action.kids[1] = te /\ action.kids[2] = dest  BY <4>1, <4>2, Zenon
      <4>4. found = [i \in 1..2 |-> IF i = 1 THEN <<te>> ELSE <<>>]  BY <2>1, <4>3
      <4> HIDE DEF found
      <4>. QED BY <4>4, TwoElements
    <3>2. <<te>> \in Seq({te}) /\ <<>> \in Seq({te}) /\ <<<<te>>>> \in Seq(Seq({te}))
          /\ Append(<<<<te>>>>, <<>>) = <<<<te>>, <<>>>>
      <4>1. <<te>> \in Seq({te}) /\ <<>> \in Seq({te})  OBVIOUS
      <4> DEFINE S == Seq({te})
      <4> HIDE DEF S
      <4>2. \A x \in S : <<x>> \in Seq(S)  OBVIOUS
      <4>3. <<te>> \in S  BY <4>1 DEF S
      <4>. QED BY <4>1, <4>2, <4>3, PairIs DEF S
    <3>3. FlattenSeq(Append(<<<<te>>>>, <<>>)) = FlattenSeq(<<<<te>>>>) \o <<>>  BY <3>2, FlattenAppend
    <3>4. FlattenSeq(<<<<te>>>>) = <<te>> /\ <<te>> \o <<>> = <<te>>  BY <3>2, FlattenOne, ConcatEmptySeq
    <3>. QED BY <3>1, <3>2, <3>3, <3>4 DEF Kids
  <2>. QED BY <2>2, <2>3
<1>8. Attr(te, "latency") = EncodeLatency(p.latency) /\ Attr(te, "relay_name") = p.relayName  OBVIOUS
<1>9. DecodeLatency(EncodeLatency(p.latency)) = p.latency
  BY SignalsAssumption DEF DecodeLatency, EncodeLatency
<1>10. FindChild(action, "relaylatency") = <<action>>  BY DEF FindChild
<1>11. Probes(action) = [i \in DOMAIN <<te>> |-> [latency |-> DecodeLatency(Attr(<<te>>[i], "latency")),
                              relayName |-> Attr(<<te>>[i], "relay_name"), address |-> <<te>>[i].content]]
  <2>1. <<action>> # <<>> /\ <<action>>[1] = action  OBVIOUS
  <2>. QED BY <1>7, <1>10, <2>1 DEF Probes
<1>12. Probes(action) = <<[latency |-> p.latency, relayName |-> p.relayName, address |-> p.address]>>
  <2>1. DOMAIN <<te>> = 1..1 /\ <<te>>[1] = te  OBVIOUS
  <2> DEFINE probe == [latency |-> p.latency, relayName |-> p.relayName, address |-> p.address]
  <2>2. [latency |-> DecodeLatency(Attr(te, "latency")), relayName |-> Attr(te, "relay_name"), address |-> te.content]
        = probe
    BY <1>1, <1>8, <1>9
  <2> HIDE DEF probe
  <2>3. Probes(action) = [i \in 1..1 |-> probe]  BY <1>11, <2>1, <2>2
  <2>4. Probes(action) = <<probe>>  BY <2>3
  <2>. QED BY <2>4 DEF probe
<1>. QED BY <1>6, <1>12

\* buildRelayLatency: what it wraps, and the probe that is in it.
LEMMA ProbeIs ==
  ASSUME NEW p, p.devices \in Seq(Ends), p.latency \in Nat,
         NEW probe, probe = [latency |-> p.latency, relayName |-> p.relayName, address |-> p.address]
  PROVE  \E action : /\ Wrapped(BuildRelayLatency(p), p.to, action) /\ action.tag = "relaylatency"
                     /\ FindChild(action, "relay") = <<>> /\ Probes(action) = <<probe>>
<1> DEFINE te == Node("te", {<<"latency", EncodeLatency(p.latency)>>, <<"relay_name", p.relayName>>}, <<>>, p.address)
           action == Parent("relaylatency", CallIDs(p), <<te>> \o When(p.devices # <<>>, DestinationTo(p.devices)))
           n == BuildRelayLatency(p)
<1>1. n = CallWrap(p.to, action)  BY DEF BuildRelayLatency
<1>2. action.tag = "relaylatency" /\ action.kids = <<te>> \o When(p.devices # <<>>, DestinationTo(p.devices))
  <2> DEFINE attrs == CallIDs(p)
             kids == <<te>> \o When(p.devices # <<>>, DestinationTo(p.devices))
  <2>1. action = Parent("relaylatency", attrs, kids)  OBVIOUS
  <2> HIDE DEF te, attrs, kids, action
  <2>2. action.tag = "relaylatency" /\ action.kids = kids  BY <2>1, ParentIs
  <2>. QED BY <2>2 DEF kids
<1>3. FindChild(action, "relay") = <<>> /\ Probes(action) = <<probe>>
  <2> DEFINE latency == EncodeLatency(p.latency)
             attrs == {<<"latency", latency>>, <<"relay_name", p.relayName>>}
  <2>1. te = Node("te", attrs, <<>>, p.address)  OBVIOUS
  <2>2. <<"latency", latency>> \in attrs /\ \A a \in attrs : a[1] = "latency" => a[2] = latency
    <3> HIDE DEF latency
    <3>. QED OBVIOUS
  <2>3. <<"relay_name", p.relayName>> \in attrs /\ \A a \in attrs : a[1] = "relay_name" => a[2] = p.relayName
    <3> HIDE DEF latency
    <3>. QED OBVIOUS
  <2> HIDE DEF attrs, te, action
  <2>4. Attr(te, "latency") = latency /\ Attr(te, "relay_name") = p.relayName  BY <2>1, <2>2, <2>3, AttrOf
  <2>5. te.tag = "te" /\ te.kids = <<>> /\ te.content = p.address  BY <2>1, NodeParts
  <2>. QED BY <1>2, <2>4, <2>5, ProbeTree
<1> HIDE DEF action, n
<1>4. Wrapped(n, p.to, action)  BY <1>1, CallWrapIs
<1>. QED BY <1>2, <1>3, <1>4 DEF n

\* The caller's probes, to the devices.
LEMMA ProbeSpeaks ==
  ASSUME NEW o, NEW p, p.to \in {PeerUser} \cup Callees, p.devices \in Seq(Ends), p.latency \in Nat,
         NEW probe, probe = [latency |-> p.latency, relayName |-> p.relayName, address |-> p.address]
  PROVE  Speaks(Routed(Caller, BuildRelayLatency(p), <<probe>>), o)
<1> DEFINE n == BuildRelayLatency(p)
<1>1. PICK action : /\ Wrapped(n, p.to, action) /\ action.tag = "relaylatency"
                    /\ FindChild(action, "relay") = <<>> /\ Probes(action) = <<probe>>
  BY ProbeIs
<1> HIDE DEF n
<1>2. ASSUME NEW m, PassedOn(m, Caller, n, <<probe>>), Reaches(p.to, m.to) PROVE Says(m, o) /\ ~Rings(m)
  <2>1. Is(m, "relaylatency") /\ Action(m) = action /\ Sender(m) = Caller /\ m.means = <<probe>>
    BY <1>1, <1>2, PassedOnIs
  <2>2. probe \in Range(m.means) /\ probe.latency \in Nat
        /\ probe = [latency |-> probe.latency, relayName |-> probe.relayName, address |-> probe.address]
    BY <2>1 DEF Range
  <2>3. m.to # Caller  BY <1>2, SignalsAssumption DEF Reaches
  <2>4. SaysProbe(m)  BY <1>1, <2>1, <2>2, <2>3 DEF SaysProbe
  <2>5. Action(m).tag = "relaylatency"  BY <1>1, <2>1
  <2>. QED BY <2>4, <2>5 DEF Says, Rings
<1>3. p.to \in Ends \cup {PeerUser}  BY DEF Ends
<1>. QED BY <1>1, <1>2, <1>3, RoutedSpeaks DEF n

\* The device's answer to one, back to the caller.
LEMMA EchoSpeaks ==
  ASSUME NEW o, NEW sender \in Ends, NEW p, p.to = Caller, p.devices \in Seq(Ends), p.latency \in Nat
  PROVE  Speaks(Routed(sender, BuildRelayLatency(p), Nothing), o)
<1> DEFINE n == BuildRelayLatency(p)
           probe == [latency |-> p.latency, relayName |-> p.relayName, address |-> p.address]
<1>1. PICK action : /\ Wrapped(n, Caller, action) /\ action.tag = "relaylatency"
                    /\ FindChild(action, "relay") = <<>> /\ Probes(action) = <<probe>>
  BY ProbeIs
<1> HIDE DEF n, probe
<1>2. ASSUME NEW m, PassedOn(m, sender, n, Nothing), Reaches(Caller, m.to) PROVE Says(m, o) /\ ~Rings(m)
  <2>1. Is(m, "relaylatency") /\ Action(m) = action /\ m.means = Nothing  BY <1>1, <1>2, PassedOnIs
  <2>2. m.to = Caller  BY <1>2, SignalsAssumption DEF Reaches, Ends
  <2>3. SaysEcho(m)  BY <1>1, <2>1, <2>2 DEF SaysEcho
  <2>. QED BY <2>1, <2>3 DEF Says, Rings
<1>3. Caller \in Ends  BY DEF Ends
<1>. QED BY <1>1, <1>2, <1>3, RoutedSpeaks DEF n

\* onRelayLatency of a device: the probes that are read are those that were sent.
LEMMA TakesProbe ==
  ASSUME NEW m, NEW e, NEW o, Entry(m.to, e, o), SaysProbe(m)
  PROVE  HandledWell(Handled(e, m), m, e, o)
<1>1. Speaks(<<>>, o)  BY SpeaksNothing
<1>2. Handled(e, m) = OnRelayLatency(e, m) /\ Action(m).tag # "offer"
  BY CallTag DEF SaysProbe, Handled
<1>3. PICK p : p.latency \in Nat /\ m.means = <<p>>
               /\ p = [latency |-> p.latency, relayName |-> p.relayName, address |-> p.address]
  BY DEF SaysProbe
<1>4. OnRelay(e, m.node.kids[1]) = e  BY DEF SaysProbe, Action, OnRelay
<1>5. e = NoCall \/ e.direction = "incoming"  BY DEF SaysProbe, Entry, KeepsCall
<1> DEFINE q == [callID |-> "call", to |-> Sender(m), callCreator |-> Creator(m), latency |-> p.latency,
                 relayName |-> p.relayName, address |-> p.address, devices |-> <<>>]
           back == Routed(m.to, BuildRelayLatency(q), Nothing)
           h == OnRelayLatency(e, m)
<1>6. Speaks(back, o)
  <2>1. q.to = Caller /\ q.devices \in Seq(Ends) /\ q.latency \in Nat /\ m.to \in Ends  BY <1>3 DEF SaysProbe, Is
  <2> HIDE DEF q
  <2>. QED BY <2>1, EchoSpeaks
<1>7. h.entry = e /\ h.read = (IF e = NoCall THEN Nothing ELSE m.means) /\ h.out \in {<<>>, back}
  <2>1. Probes(m.node.kids[1]) = <<p>>  BY <1>3 DEF SaysProbe, Action
  <2>2. [i \in DOMAIN <<p>> |->
           Routed(m.to, BuildRelayLatency(
                     [callID |-> "call", to |-> Sender(m), callCreator |-> Creator(m), latency |-> <<p>>[i].latency,
                      relayName |-> <<p>>[i].relayName, address |-> <<p>>[i].address, devices |-> <<>>]), Nothing)]
        = <<back>>
    OBVIOUS
  <2>3. FlattenSeq(<<back>>) = back
    <3>1. PICK V : back \in Seq(V)  BY <1>6 DEF Speaks
    <3>. QED BY <3>1, FlattenOne
  <2> HIDE DEF back
  <2>4. h = IF e = NoCall THEN Ignored(e) ELSE [entry |-> e, read |-> <<p>>, out |-> back]
    BY <1>4, <1>5, <2>1, <2>2, <2>3 DEF OnRelayLatency
  <2> HIDE DEF h
  <2>. QED BY <1>3, <2>4 DEF Ignored
<1> HIDE DEF h, back
<1>. QED BY <1>1, <1>2, <1>6, <1>7 DEF HandledWell, Late, h

\* onRelayLatency of the caller: what comes back is not read.
LEMMA TakesEcho ==
  ASSUME NEW m, NEW e, NEW o, Entry(m.to, e, o), SaysEcho(m)
  PROVE  HandledWell(Handled(e, m), m, e, o)
<1>1. Speaks(<<>>, o)  BY SpeaksNothing
<1>2. Handled(e, m) = OnRelayLatency(e, m) /\ m.means = Nothing
  BY CallTag DEF SaysEcho, Handled
<1>3. OnRelay(e, m.node.kids[1]) = e  BY DEF SaysEcho, Action, OnRelay
<1>4. e = NoCall \/ e.direction = "outgoing"  BY DEF SaysEcho, Entry, KeepsCall
<1>5. Handled(e, m) = Ignored(e)  BY <1>2, <1>3, <1>4 DEF OnRelayLatency
<1>. QED BY <1>1, <1>2, <1>5 DEF HandledWell, Ignored

-----------------------------------------------------------------------------
(* Accepts, mutes and video.                                               *)

\* The parts of a leaf.
LEMMA LeafIs ==
  ASSUME NEW tag, NEW attrs
  PROVE  /\ IsNode(Leaf(tag, attrs)) /\ Leaf(tag, attrs).tag = tag /\ Leaf(tag, attrs).attrs = attrs
         /\ Leaf(tag, attrs).kids = <<>>
BY NodeParts DEF Leaf

\* Two leaves with other tags.
LEMMA LacksPair ==
  ASSUME NEW a, NEW b, NEW tags, a.kids = <<>>, b.kids = <<>>, a.tag \notin tags, b.tag \notin tags
  PROVE  Lacks(<<a, b>>, tags)
<1>1. Lacks(<<a>>, tags) /\ Lacks(<<b>>, tags)  BY LacksOne
<1>2. Lacks(<<a>> \o <<b>>, tags)  BY <1>1, LacksConcat
<1>. QED BY <1>2, PairIs

\* Nothing at or under a node has that tag.
Without(n, tag) == n.tag # tag /\ Lacks(n.kids, {tag})

\* Nothing is found in it.
LEMMA NotFoundIn ==
  ASSUME NEW n, NEW tag, Without(n, tag)
  PROVE  FindChild(n, tag) = <<>> /\ ChildByTag(n, tag) = <<>>
<1> DEFINE tags == {tag}
<1>1. tag \in tags /\ Lacks(n.kids, tags) /\ n.tag # tag  BY DEF Without
<1> HIDE DEF tags
<1>. QED BY <1>1, NotFound

\* buildAccept, as maybeSendAccept sends it: no settings of its own.
LEMMA AcceptSpeaks ==
  ASSUME NEW o, NEW sender \in Callees, NEW p, p.to = Caller, p.voipSettings = <<>>,
         p.audioRates = << 16000 >>
  PROVE  Speaks(Routed(sender, WithAttr(BuildAccept(p), "id", "r2"), <<[by |-> sender]>>), o)
<1> DEFINE audio == Audio(p.audioRates)
           video == When(p.video, VideoAcceptNode)
           te == Opt("te", {<<"priority", 2>>}, p.relayTe)
           net == Leaf("net", {<<"medium", 2>>})
           capability == Capability(p.capability)
           metadata == When(p.metadata # NoAttrs, Leaf("metadata", p.metadata))
           rte == Opt("rte", NoAttrs, p.rte)
           settings == Opt("voip_settings", {<<"uncompressed", 1>>}, p.voipSettings)
           ids == CallIDs(p)
           kids == audio \o video \o te \o <<net, Encopt>> \o capability \o metadata \o rte \o settings
           action == Parent("accept", ids, kids)
           b == BuildAccept(p)
           n == WithAttr(b, "id", "r2")
<1>1. b = CallWrap(p.to, action)  BY DEF BuildAccept
<1>2. Lacks(audio, {"voip_settings"})
  <2> DEFINE a == AudioOpus(16000)
  <2>1. a.kids = <<>> /\ a.tag = "audio"  BY LeafIs DEF AudioOpus
  <2>2. audio = <<a>>  BY DEF Audio
  <2> HIDE DEF a, audio
  <2>. QED BY <2>1, <2>2, LacksOne
<1>3. /\ Lacks(video, {"voip_settings"}) /\ Lacks(te, {"voip_settings"}) /\ Lacks(rte, {"voip_settings"})
      /\ Lacks(capability, {"voip_settings"}) /\ Lacks(metadata, {"voip_settings"})
  <2>1. VideoAcceptNode.kids = <<>> /\ VideoAcceptNode.tag = "video"  BY LeafIs DEF VideoAcceptNode
  <2>2. Lacks(video, {"voip_settings"})  BY <2>1, LacksWhen
  <2>3. Lacks(te, {"voip_settings"})  BY LacksOpt
  <2>4. Lacks(capability, {"voip_settings"})  BY LacksOpt DEF Capability
  <2>5. Lacks(metadata, {"voip_settings"})
    <3> DEFINE leaf == Leaf("metadata", p.metadata)
               there == p.metadata # NoAttrs
    <3>1. leaf.kids = <<>> /\ leaf.tag = "metadata"  BY LeafIs
    <3>2. leaf.tag \notin {"voip_settings"}  BY <3>1
    <3>3. Lacks(When(there, leaf), {"voip_settings"})
      <4> HIDE DEF leaf, there
      <4>. QED BY <3>1, <3>2, LacksWhen
    <3>. QED BY <3>3
  <2>6. Lacks(rte, {"voip_settings"})  BY LacksOpt
  <2>. QED BY <2>2, <2>3, <2>4, <2>5, <2>6
<1>4. Lacks(<<net, Encopt>>, {"voip_settings"})
  <2>1. /\ net.kids = <<>> /\ net.tag \notin {"voip_settings"} /\ Encopt.kids = <<>>
        /\ Encopt.tag \notin {"voip_settings"}
    BY LeafIs DEF Encopt
  <2> HIDE DEF net
  <2>. QED BY <2>1, LacksPair
<1>5. Lacks(settings, {"voip_settings"})
  <2>1. settings = <<>>  BY DEF Opt, When
  <2>. QED BY <2>1, LacksNone
<1>6. Lacks(kids, {"voip_settings"})
  <2> DEFINE both == <<net, Encopt>>
  <2> HIDE DEF audio, video, te, capability, metadata, rte, settings, both
  <2>1. Lacks(audio \o video, {"voip_settings"})  BY <1>2, <1>3, LacksConcat
  <2>2. Lacks(audio \o video \o te, {"voip_settings"})  BY <2>1, <1>3, LacksConcat
  <2>3. Lacks(audio \o video \o te \o both, {"voip_settings"})  BY <2>2, <1>4, LacksConcat DEF both
  <2>4. Lacks(audio \o video \o te \o both \o capability, {"voip_settings"})  BY <2>3, <1>3, LacksConcat
  <2>5. Lacks(audio \o video \o te \o both \o capability \o metadata, {"voip_settings"})  BY <2>4, <1>3, LacksConcat
  <2>6. Lacks(audio \o video \o te \o both \o capability \o metadata \o rte, {"voip_settings"})  BY <2>5, <1>3, LacksConcat
  <2>7. Lacks(audio \o video \o te \o both \o capability \o metadata \o rte \o settings, {"voip_settings"})
    BY <2>6, <1>5, LacksConcat
  <2>. QED BY <2>7 DEF both
<1>7. action.tag = "accept" /\ action.kids = kids
  <2> HIDE DEF kids, ids
  <2>. QED BY ParentIs
<1>8. FindChild(action, "voip_settings") = <<>>
  <2> HIDE DEF action, kids
  <2>1. action.tag # "voip_settings" /\ action.kids = kids  BY <1>7
  <2>2. Without(action, "voip_settings")  BY <1>6, <2>1 DEF Without
  <2>. QED BY <2>2, NotFoundIn
<1> HIDE DEF action, b
<1>9. Wrapped(n, Caller, action)  BY <1>1, CallWrapIs, WrappedKeeps
<1> HIDE DEF n
<1>10. ASSUME NEW m, PassedOn(m, sender, n, <<[by |-> sender]>>) /\ Reaches(Caller, m.to)
       PROVE  Says(m, o) /\ ~Rings(m)
  <2>1. Is(m, "accept") /\ Action(m) = action /\ Sender(m) = sender /\ m.means = <<[by |-> sender]>>
    BY <1>7, <1>9, <1>10, PassedOnIs
  <2>2. m.to = Caller  BY <1>10, SignalsAssumption DEF Reaches, Ends
  <2>3. SaysAccept(m)  BY <1>8, <2>1, <2>2 DEF SaysAccept
  <2>. QED BY <1>7, <2>1, <2>3 DEF Says, Rings
<1>11. Caller \in Ends \cup {PeerUser}  BY DEF Ends
<1>12. Speaks(Routed(sender, n, <<[by |-> sender]>>), o)
  <2> DEFINE means == <<[by |-> sender]>>
  <2> HIDE DEF means
  <2>1. \A m : PassedOn(m, sender, n, means) /\ Reaches(Caller, m.to) => Says(m, o) /\ ~Rings(m)  BY <1>10 DEF means
  <2>2. Speaks(Routed(sender, n, means), o)  BY <1>9, <1>11, <2>1, RoutedSpeaks
  <2>. QED BY <2>2 DEF means
<1>. QED BY <1>12 DEF n, b

\* onMuteV2: the callee that waits for it sends its accept.
LEMMA TakesMute ==
  ASSUME NEW m, NEW e, NEW o, Entry(m.to, e, o), SaysMute(m)
  PROVE  HandledWell(Handled(e, m), m, e, o)
<1>1. Speaks(<<>>, o)  BY SpeaksNothing
<1>2. Handled(e, m) = OnMuteV2(e, m) /\ Action(m).tag # "offer"
  BY CallTag DEF SaysMute, Handled
<1> DEFINE video == e.localVideo \/ e.remoteVideo
           p == [callID |-> "call", to |-> Sender(m), callCreator |-> Creator(m),
                 audioRates |-> << 16000 >>, relayTe |-> <<>>, rte |-> <<>>, voipSettings |-> <<>>,
                 capability |-> <<>>, metadata |-> {<<"peer_abtest_bucket_id_list", "ids">>}, video |-> video]
           accept == Routed(m.to, WithAttr(BuildAccept(p), "id", "r2"), <<[by |-> m.to]>>)
           f == [e EXCEPT !.acceptPending = FALSE]
           h == OnMuteV2(e, m)
<1>3. /\ h.entry = f /\ h.out = (IF e.acceptPending THEN accept ELSE <<>>)
      /\ h.read = IF e = NoCall THEN Nothing ELSE m.means
  <2> HIDE DEF f
  <2>. QED BY DEF OnMuteV2, SaysMute, Action, f
<1>4. CASE e = NoCall
  <2>1. [NoCall EXCEPT !.acceptPending = FALSE] = NoCall /\ NoCall.acceptPending = FALSE
    <3>1. NoCall.acceptPending = FALSE /\ NoCall = [k \in DOMAIN NoCall |-> NoCall[k]]  BY DEF NoCall
    <3>. QED BY <3>1
  <2>2. f = NoCall /\ e.acceptPending = FALSE  BY <1>4, <2>1
  <2> HIDE DEF f, h, accept
  <2>. QED BY <1>1, <1>2, <1>3, <1>4, <2>2 DEF HandledWell, Late, Entry, h
<1>5. CASE e # NoCall
  <2>1. KeepsCall(m.to, e, o)  BY <1>5 DEF Entry
  <2>2. SameCall(f, e)
    <3>1. DOMAIN e = DOMAIN NoCall  BY <2>1 DEF KeepsCall
    <3>. QED BY <3>1 DEF NoCall, SameCall
  <2>3. KeepsCall(m.to, f, o) /\ f.codec = e.codec
    <3> HIDE DEF f
    <3>. QED BY <2>1, <2>2, SameCallKeeps DEF SameCall
  <2>4. ASSUME e.acceptPending # FALSE PROVE Speaks(accept, o)
    <3>1. m.to \in Callees  BY <2>1, <2>4 DEF KeepsCall, SaysMute, Is, Ends
    <3>2. p.to = Caller /\ p.voipSettings = <<>> /\ p.audioRates = << 16000 >>
      BY <1>5 DEF SaysMute
    <3> HIDE DEF p
    <3>. QED BY <3>1, <3>2, AcceptSpeaks
  <2>5. Speaks(h.out, o)
    <3> HIDE DEF accept, h
    <3>. QED BY <1>1, <1>3, <2>4
  <2> HIDE DEF f, h, accept
  <2>. QED BY <1>2, <1>3, <1>5, <2>3, <2>5 DEF HandledWell, Late, Entry, h
<1>. QED BY <1>4, <1>5

\* Attributes that a node or a leaf has, or has not.
LEMMA NoAttrOf ==
  ASSUME NEW tag, NEW attrs, NEW kids, NEW content, NEW key, \A a \in attrs : a[1] # key
  PROVE  /\ ~Has(Node(tag, attrs, kids, content), key) /\ Attr(Node(tag, attrs, kids, content), key) = ""
         /\ AttrNumber(Node(tag, attrs, kids, content), key) = 0
<1> DEFINE n == Node(tag, attrs, kids, content)
<1>1. n.attrs = attrs  BY NodeParts
<1> HIDE DEF n
<1>2. \A a \in n.attrs : a[1] # key  BY <1>1
<1>. QED BY <1>2, NoValue DEF n

LEMMA LeafAttr ==
  ASSUME NEW tag, NEW attrs, NEW key, NEW value, <<key, value>> \in attrs, \A a \in attrs : a[1] = key => a[2] = value
  PROVE  Attr(Leaf(tag, attrs), key) = value /\ AttrNumber(Leaf(tag, attrs), key) = value
BY AttrOf DEF Leaf

LEMMA NoLeafAttr ==
  ASSUME NEW tag, NEW attrs, NEW key, \A a \in attrs : a[1] # key
  PROVE  /\ ~Has(Leaf(tag, attrs), key) /\ Attr(Leaf(tag, attrs), key) = "" /\ AttrNumber(Leaf(tag, attrs), key) = 0
BY NoAttrOf DEF Leaf

\* Whom the ack of a video stanza reaches: who sent it.
LEMMA VideoAckReaches ==
  ASSUME NEW call, NEW sender, Has(call, "id"), Has(call, "from"), ~Has(call, "recipient"),
         IF Has(call, "participant") THEN Attr(call, "participant") = sender /\ Attr(call, "from") # sender
         ELSE Attr(call, "from") = sender
  PROVE  AckReaches(BuildVideoAck(call)) = sender
<1> DEFINE from == Attr(call, "from")
           id == Attr(call, "id")
           fixed == {<<"class", "call">>, <<"id", id>>, <<"to", from>>, <<"type", "video">>}
           Keep(key) == IF Has(call, key) /\ (key = "participant" => Attr(call, key) # from)
                        THEN {<<key, Attr(call, key)>>} ELSE NoAttrs
           attrs == fixed \cup Keep("participant") \cup Keep("recipient")
           ack == Leaf("ack", attrs)
<1>1. BuildVideoAck(call) = <<ack>>  BY DEF BuildVideoAck, When
<1>2. Keep("recipient") = {}  BY DEF NoAttrs
<1>3. Keep("participant") = IF Has(call, "participant") THEN {<<"participant", sender>>} ELSE {}
  BY DEF NoAttrs
<1>4. ack.attrs = attrs  BY LeafIs
<1>5. AckReaches(<<ack>>) = IF Has(ack, "participant") THEN Attr(ack, "participant") ELSE Attr(ack, "to")
  <2> HIDE DEF ack
  <2>1. <<ack>> # <<>> /\ <<ack>>[1] = ack  OBVIOUS
  <2>. QED BY <2>1 DEF AckReaches
<1>6. CASE Has(call, "participant")
  <2>1. attrs = fixed \cup {<<"participant", sender>>}  BY <1>2, <1>3, <1>6
  <2>2. <<"participant", sender>> \in attrs /\ \A a \in attrs : a[1] = "participant" => a[2] = sender
    <3> HIDE DEF from, id, attrs
    <3>. QED BY <2>1
  <2> HIDE DEF attrs, ack
  <2>3. <<"participant", sender>> \in ack.attrs /\ \A a \in ack.attrs : a[1] = "participant" => a[2] = sender
    BY <1>4, <2>2
  <2>4. Has(ack, "participant") /\ Attr(ack, "participant") = sender  BY <2>3, ValueIs
  <2>. QED BY <1>1, <1>5, <2>4
<1>7. CASE ~Has(call, "participant")
  <2>1. attrs = fixed /\ from = sender  BY <1>2, <1>3, <1>7
  <2>2. <<"to", sender>> \in attrs /\ (\A a \in attrs : a[1] = "to" => a[2] = sender)
        /\ (\A a \in attrs : a[1] # "participant")
    <3> HIDE DEF from, id, attrs
    <3>. QED BY <2>1
  <2> HIDE DEF attrs, ack
  <2>3. <<"to", sender>> \in ack.attrs /\ (\A a \in ack.attrs : a[1] = "to" => a[2] = sender)
        /\ (\A a \in ack.attrs : a[1] # "participant")
    BY <1>4, <2>2
  <2>4. ~Has(ack, "participant")  BY <2>3, NoValue
  <2>5. Attr(ack, "to") = sender
    <3>1. <<"to", sender>> \in ack.attrs /\ (\A a \in ack.attrs : a[1] = "to" => a[2] = sender)  BY <2>3
    <3>. QED BY <3>1, ValueIs
  <2>. QED BY <1>1, <1>5, <2>4, <2>5
<1>. QED BY <1>6, <1>7

\* The video stanzas of an end, by way of the user when a device sends them.
LEMMA VideoSpeaks ==
  ASSUME NEW o, NEW sender \in Ends, NEW e, e.from \in Ends \cup {PeerUser}, NEW state, NEW codec, NEW orientation
  PROVE  Speaks(SayVideo(sender, e, state, codec, orientation), o)
<1> DEFINE p == [callID |-> "call", to |-> e.from, callCreator |-> e.creator, wrapperID |-> "v1",
                 state |-> state, dec |-> codec, orientation |-> orientation]
           decs == IF codec = "" THEN NoAttrs ELSE {<<"dec", codec>>}
           settings == IF state = VideoStates.upgradeRequestV2 THEN {<<"voip_settings", "video">>} ELSE NoAttrs
           turned == IF orientation = NoOrientation THEN NoAttrs ELSE {<<"device_orientation", orientation>>}
           ids == CallIDs(p)
           attrs == ids \cup {<<"state", state>>} \cup decs \cup settings \cup turned
           action == Leaf("video", attrs)
           wrap == CallWrap(e.from, action)
           n == WithAttr(wrap, "id", "v1")
           shown == IF orientation = NoOrientation THEN 0 ELSE orientation
           node == IF sender = Caller THEN WithAttr(n, "from", sender)
                   ELSE WithAttr(WithAttr(n, "from", PeerUser), "participant", sender)
           means == Means(sender, state, shown)
<1>1. VideoStateNode(e, state, codec, orientation) = n
  BY DEF VideoStateNode, BuildVideoStateWithParams
<1>0. /\ \A a \in ids : a[1] \in {"call-id", "call-creator"}
      /\ \A a \in decs : a[1] = "dec"
      /\ \A a \in settings : a[1] = "voip_settings"
      /\ \A a \in turned : a[1] = "device_orientation" /\ a[2] = orientation
  <2>1. \A a \in ids : a[1] \in {"call-id", "call-creator"}
    <3> HIDE DEF p
    <3>. QED BY DEF CallIDs
  <2>2. \A a \in decs : a[1] = "dec"
    <3>1. \A x : <<"dec", x>>[1] = "dec"  OBVIOUS
    <3>2. decs \subseteq {<<"dec", codec>>}  BY DEF NoAttrs
    <3> HIDE DEF decs
    <3>. QED BY <3>1, <3>2
  <2>3. \A a \in settings : a[1] = "voip_settings"  BY DEF NoAttrs
  <2>4. \A a \in turned : a[1] = "device_orientation" /\ a[2] = orientation  BY DEF NoAttrs
  <2>. QED BY <2>1, <2>2, <2>3, <2>4
<1>2. action.tag = "video" /\ AttrNumber(action, "state") = state
  <2>1. <<"state", state>> \in attrs /\ \A a \in attrs : a[1] = "state" => a[2] = state
    <3> HIDE DEF ids, decs, settings, turned
    <3>. QED BY <1>0 DEF ids
  <2> HIDE DEF attrs
  <2>2. AttrNumber(Leaf("video", attrs), "state") = state  BY <2>1, LeafAttr
  <2>3. Leaf("video", attrs).tag = "video"  BY LeafIs
  <2>. QED BY <2>2, <2>3
<1>3. AttrNumber(action, "device_orientation") = shown
  <2>1. CASE orientation = NoOrientation
    <3>1. turned = {}  BY <2>1 DEF NoAttrs
    <3>2. \A a \in attrs : a[1] # "device_orientation"
      <4> HIDE DEF ids, decs, settings, turned
      <4>. QED BY <1>0, <3>1 DEF ids
    <3> HIDE DEF attrs
    <3>. QED BY <2>1, <3>2, NoLeafAttr
  <2>2. CASE orientation # NoOrientation
    <3>1. <<"device_orientation", orientation>> \in turned  BY <2>2
    <3>2. <<"device_orientation", orientation>> \in attrs
          /\ \A a \in attrs : a[1] = "device_orientation" => a[2] = orientation
      <4> HIDE DEF ids, decs, settings, turned
      <4>. QED BY <1>0, <3>1 DEF ids
    <3> HIDE DEF attrs
    <3>. QED BY <2>2, <3>2, LeafAttr
  <2>. QED BY <2>1, <2>2
<1> HIDE DEF action, shown
<1>4. /\ IsNode(wrap) /\ wrap.tag = "call" /\ wrap.kids = <<action>> /\ Attr(wrap, "to") = e.from
      /\ ~Has(wrap, "participant") /\ ~Has(wrap, "recipient")
  <2>1. IsNode(wrap) /\ wrap.tag = "call" /\ wrap.kids = <<action>> /\ wrap.attrs = {<<"to", e.from>>}
    BY ParentIs DEF CallWrap
  <2>2. Attr(wrap, "to") = e.from  BY CallWrapIs DEF Wrapped
  <2> HIDE DEF wrap
  <2>3. (\A a \in wrap.attrs : a[1] # "participant") /\ (\A a \in wrap.attrs : a[1] # "recipient")  BY <2>1
  <2>. QED BY <2>1, <2>2, <2>3, NoValue
<1> HIDE DEF wrap
<1>5. /\ IsNode(n) /\ n.tag = "call" /\ n.kids = <<action>> /\ Attr(n, "to") = e.from
      /\ Has(n, "id") /\ ~Has(n, "participant") /\ ~Has(n, "recipient")
  BY <1>4, WithAttrIs
<1> HIDE DEF n
<1>6. /\ IsNode(node) /\ node.tag = "call" /\ node.kids = <<action>> /\ Has(node, "id") /\ Has(node, "from")
      /\ ~Has(node, "recipient")
      /\ IF Has(node, "participant") THEN Attr(node, "participant") = sender /\ Attr(node, "from") # sender
         ELSE Attr(node, "from") = sender
  <2>1. CASE sender = Caller
    <3>1. node = WithAttr(n, "from", sender)  BY <2>1
    <3> HIDE DEF node
    <3>. QED BY <1>5, <3>1, WithAttrIs
  <2>2. CASE sender # Caller
    <3> DEFINE from == WithAttr(n, "from", PeerUser)
    <3>1. /\ IsNode(from) /\ from.tag = "call" /\ from.kids = <<action>> /\ Has(from, "id") /\ Has(from, "from")
          /\ ~Has(from, "recipient") /\ Attr(from, "from") = PeerUser
      BY <1>5, WithAttrIs
    <3>2. node = WithAttr(from, "participant", sender)  BY <2>2
    <3>3. PeerUser # sender  BY SignalsAssumption
    <3> HIDE DEF node, from
    <3>. QED BY <3>1, <3>2, <3>3, WithAttrIs
  <2>. QED BY <2>1, <2>2
<1>7. SayVideo(sender, e, state, codec, orientation)
      = Sent(n, node, means)
  BY <1>1 DEF SayVideo, RoutedVideo, shown, Sent
<1> HIDE DEF node
<1>8. AckReaches(BuildVideoAck(node)) = sender  BY <1>6, VideoAckReaches
<1>9. ASSUME NEW m, m.to \in Ends, m.node = node, m.means = means PROVE Says(m, o) /\ ~Rings(m)
  <2>1. Action(m) = action /\ Is(m, "video")  BY <1>2, <1>6, <1>9 DEF Action, Is
  <2>2. SaysVideo(m)  BY <1>2, <1>3, <1>8, <1>9, <2>1 DEF SaysVideo
  <2>. QED BY <1>2, <2>1, <2>2 DEF Says, Rings
<1> HIDE DEF means
<1>10. Speaks(Sent(n, node, means), o)
  <2>1. PICK to \in Ends \cup {PeerUser} : Attr(n, "to") = to  BY <1>5
  <2>2. \A m : m.to \in Ends /\ Reaches(to, m.to) /\ m.node = node /\ m.means = means => Says(m, o) /\ ~Rings(m)
    BY <1>9 DEF means
  <2>. QED BY <2>1, <2>2, SentSpeaks
<1>. QED BY <1>7, <1>10

\* onVideoStanza: state and orientation are as sent, the ack goes to who sent them.
LEMMA TakesVideo ==
  ASSUME NEW m, NEW e, NEW o, Entry(m.to, e, o), SaysVideo(m)
  PROVE  HandledWell(Handled(e, m), m, e, o)
<1>1. Speaks(<<>>, o)  BY SpeaksNothing
<1>2. Handled(e, m) = OnVideo(e, m) /\ Action(m).tag # "offer" /\ m.to \in Ends
  BY CallTag DEF SaysVideo, Handled, Is
<1> DEFINE state == AttrNumber(Action(m), "state")
           h == OnVideo(e, m)
<1>3. CASE e = NoCall
  <2>1. h = Ignored(e)  BY <1>3 DEF OnVideo
  <2>2. Ignored(e).entry = NoCall /\ Ignored(e).out = <<>> /\ Ignored(e).read = Nothing  BY <1>3 DEF Ignored
  <2> HIDE DEF h
  <2>. QED BY <1>1, <1>2, <1>3, <2>1, <2>2 DEF HandledWell, Late, Entry, h
<1>4. CASE e # NoCall
  <2> DEFINE f == CASE state = VideoStates.enabled ->
                         [e EXCEPT !.remoteVideo = TRUE, !.videoGate = @ /\ ~e.localVideo]
                    [] state \in {VideoStates.disabled, VideoStates.stopped} -> [e EXCEPT !.remoteVideo = FALSE]
                    [] state = VideoStates.upgradeAccept -> [e EXCEPT !.localVideo = TRUE, !.videoGate = FALSE]
                    [] state \in {VideoStates.upgradeReject, VideoStates.upgradeCancel} ->
                         [e EXCEPT !.localVideo = FALSE, !.videoGate = FALSE]
                    [] OTHER -> e
             said == SayVideo(m.to, e, VideoStates.enabled, "", 0)
  <2>1. KeepsCall(m.to, e, o)  BY <1>4 DEF Entry
  <2>2. SameCall(f, e)
    <3>1. DOMAIN e = DOMAIN NoCall  BY <2>1 DEF KeepsCall
    <3> HIDE DEF state
    <3>2. SameCall([e EXCEPT !.remoteVideo = TRUE, !.videoGate = @ /\ ~e.localVideo], e)
          /\ SameCall([e EXCEPT !.remoteVideo = FALSE], e)
      BY <3>1 DEF NoCall, SameCall
    <3>3. SameCall([e EXCEPT !.localVideo = TRUE, !.videoGate = FALSE], e)
          /\ SameCall([e EXCEPT !.localVideo = FALSE, !.videoGate = FALSE], e) /\ SameCall(e, e)
      BY <3>1 DEF NoCall, SameCall
    <3>. QED BY <3>2, <3>3
  <2>3. h = [entry |-> f, out |-> IF state = VideoStates.upgradeAccept THEN said ELSE <<>>, read |-> m.means]
    <3>1. m.means = Means(AckReaches(BuildVideoAck(m.node)), state, AttrNumber(Action(m), "device_orientation"))
      BY DEF SaysVideo
    <3>. QED BY <1>4, <3>1 DEF OnVideo, Action
  <2> HIDE DEF f, state, said
  <2>4. h.entry = f /\ h.out \in {<<>>, said} /\ h.read = m.means  BY <2>3
  <2>5. KeepsCall(m.to, f, o) /\ f.codec = e.codec  BY <2>1, <2>2, SameCallKeeps DEF SameCall
  <2>6. Speaks(said, o)
    <3>1. e.from \in Ends \cup {PeerUser}  BY <2>1 DEF KeepsCall, Ends
    <3>. QED BY <1>2, <3>1, VideoSpeaks DEF said
  <2> HIDE DEF h
  <2>. QED BY <1>1, <1>2, <1>4, <2>4, <2>5, <2>6 DEF HandledWell, Late, Entry, h
<1>. QED BY <1>3, <1>4

-----------------------------------------------------------------------------
(* Handlers together, and the wire.                                        *)

\* Every handler takes from a stanza what it says.
LEMMA HandlesWell ==
  ASSUME NEW m, NEW e, NEW o, Entry(m.to, e, o), Says(m, o), Rings(m) => e = NoCall
  PROVE  HandledWell(Handled(e, m), m, e, o)
<1>1. CASE SaysOffer(m, o)
  <2>1. m.node.tag = "call" /\ Action(m).tag = "offer"  BY <1>1, CallTag DEF SaysOffer
  <2>2. m.means # Nothing
    <3>1. PICK x : m.means = <<x>>  BY <1>1 DEF SaysOffer
    <3>2. <<x>> # <<>>  OBVIOUS
    <3>. QED BY <3>1, <3>2 DEF Nothing
  <2>3. e = NoCall  BY <2>1, <2>2 DEF Rings
  <2>. QED BY <1>1, <2>3, TakesOffer
<1>2. CASE SaysAck(m, o)  BY <1>2, TakesAck
<1>3. CASE SaysError(m) \/ SaysReject(m) \/ SaysTerminate(m) \/ SaysOver(m)  BY <1>3, EndsCall
<1>4. CASE SaysPrepared(m)  BY <1>4, TakesPrepared
<1>5. CASE SaysAccept(m)  BY <1>5, TakesAccept
<1>6. CASE SaysTransport(m, o)  BY <1>6, TakesTransport
<1>7. CASE SaysProbe(m)  BY <1>7, TakesProbe
<1>10. CASE SaysEcho(m)  BY <1>10, TakesEcho
<1>8. CASE SaysMute(m)  BY <1>8, TakesMute
<1>9. CASE SaysVideo(m)  BY <1>9, TakesVideo
<1>. QED BY <1>1, <1>2, <1>3, <1>4, <1>5, <1>6, <1>7, <1>8, <1>9, <1>10 DEF Says

\* Only a device that is rung has no call when it takes the stanza.
LEMMA RingsCallees ==
  ASSUME NEW m, NEW o, Says(m, o), Rings(m)
  PROVE  SaysOffer(m, o) /\ m.to # Caller
<1>1. Action(m).tag = "offer" /\ m.means # Nothing /\ m.node.tag = "call"  BY DEF Rings
<1>2. ~(SaysAck(m, o) \/ SaysError(m))  BY <1>1 DEF SaysAck, SaysError
<1>3. ~SaysOver(m)  BY <1>1 DEF SaysOver
<1>4. \A tag : Is(m, tag) => tag = "offer"  BY <1>1, CallTag
<1>5. /\ ~SaysPrepared(m) /\ ~SaysAccept(m) /\ ~SaysTransport(m, o) /\ ~SaysProbe(m) /\ ~SaysEcho(m)
      /\ ~SaysMute(m) /\ ~SaysVideo(m) /\ ~SaysReject(m) /\ ~SaysTerminate(m)
  BY <1>4 DEF SaysPrepared, SaysAccept, SaysTransport, SaysProbe, SaysEcho, SaysMute, SaysVideo, SaysReject, SaysTerminate
<1>6. SaysOffer(m, o)  BY <1>2, <1>3, <1>5 DEF Says
<1>. QED BY <1>6, SignalsAssumption DEF SaysOffer

-----------------------------------------------------------------------------
(* Sequences of stanzas.                                                   *)

\* A sequence is one of what it holds.
LEMMA InRange ==
  ASSUME NEW V, NEW s \in Seq(V)
  PROVE  s \in Seq(Range(s)) /\ DOMAIN s = 1..Len(s) /\ Len(s) \in Nat /\ Range(s) \subseteq V
<1>1. Len(s) \in Nat /\ DOMAIN s = 1..Len(s) /\ s \in [1..Len(s) -> V]  OBVIOUS
<1>2. s \in [1..Len(s) -> Range(s)]  BY <1>1 DEF Range
<1>3. s \in Seq(Range(s))  BY <1>1, <1>2, SeqDef
<1>. QED BY <1>1, <1>3 DEF Range

\* A concatenation, position by position.
LEMMA JoinedIs ==
  ASSUME NEW s, NEW t, s \in Seq(Range(s)), t \in Seq(Range(t))
  PROVE  /\ s \o t \in Seq(Range(s \o t)) /\ Len(s) \in Nat /\ Len(t) \in Nat
         /\ DOMAIN s = 1..Len(s) /\ DOMAIN t = 1..Len(t)
         /\ Len(s \o t) = Len(s) + Len(t) /\ DOMAIN (s \o t) = 1..Len(s) + Len(t)
         /\ \A i \in 1..Len(s) + Len(t) : (s \o t)[i] = IF i <= Len(s) THEN s[i] ELSE t[i - Len(s)]
<1> DEFINE U == Range(s) \cup Range(t)
<1>1. s \o t \in Seq(Range(s \o t))
  <2>1. s \o t \in Seq(U) /\ Range(s \o t) = U  BY RangeOfConcat
  <2>. QED BY <2>1
<1>2. s \in Seq(U) /\ t \in Seq(U)  BY SeqMonotonic
<1>3. s \o t \in Seq(U) /\ Len(s \o t) = Len(s) + Len(t)
      /\ \A i \in 1..Len(s) + Len(t) : (s \o t)[i] = IF i <= Len(s) THEN s[i] ELSE t[i - Len(s)]
  <2> HIDE DEF U
  <2>. QED BY <1>2, ConcatProperties
<1>4. Len(s) \in Nat /\ Len(t) \in Nat /\ DOMAIN s = 1..Len(s) /\ DOMAIN t = 1..Len(t)  OBVIOUS
<1>5. DOMAIN (s \o t) = 1..Len(s) + Len(t)
  <2> HIDE DEF U
  <2>. QED BY <1>3
<1>. QED BY <1>1, <1>3, <1>4, <1>5

\* What is said, one stanza after the other.
LEMMA SpeaksIs ==
  ASSUME NEW out, NEW o, Speaks(out, o)
  PROVE  out \in Seq(Range(out)) /\ \A i \in DOMAIN out : Says(out[i], o) /\ ~Rings(out[i])
<1>1. PICK V : out \in Seq(V) /\ \A m \in V : Says(m, o) /\ ~Rings(m)  BY DEF Speaks
<1>2. out \in Seq(Range(out))  BY <1>1, InRange
<1>3. \A i \in DOMAIN out : out[i] \in V  BY <1>1
<1>. QED BY <1>1, <1>2, <1>3

LEMMA SpeaksOne ==
  ASSUME NEW m, NEW o, Says(m, o), ~Rings(m)
  PROVE  Speaks(<<m>>, o)
<1> DEFINE V == {m}
           s == <<m>>
<1>1. s \in Seq(V) /\ \A x \in V : Says(x, o) /\ ~Rings(x)  OBVIOUS
<1> HIDE DEF V, s
<1>2. Speaks(s, o)  BY <1>1, Zenon DEF Speaks
<1>. QED BY <1>2 DEF s

LEMMA SpeaksBoth ==
  ASSUME NEW s, NEW t, NEW o, Speaks(s, o), Speaks(t, o)
  PROVE  Speaks(s \o t, o)
<1>1. PICK V : s \in Seq(V) /\ \A m \in V : Says(m, o) /\ ~Rings(m)  BY DEF Speaks
<1>2. PICK W : t \in Seq(W) /\ \A m \in W : Says(m, o) /\ ~Rings(m)  BY DEF Speaks
<1> DEFINE U == V \cup W
<1>3. s \in Seq(U) /\ t \in Seq(U)  BY <1>1, <1>2, SeqMonotonic
<1>4. \A m \in U : Says(m, o) /\ ~Rings(m)  BY <1>1, <1>2
<1> HIDE DEF U
<1>5. s \o t \in Seq(U)  BY <1>3, ConcatProperties
<1>. QED BY <1>4, <1>5 DEF Speaks

-----------------------------------------------------------------------------
(* One call.                                                               *)

\* Ends and wire are those of one call, of the offer o: every stanza on its way
\* says what it means, rings a device that has no call yet, and once; and the
\* caller knows the codec before anybody can accept.
OneCall(o) ==
  /\ DOMAIN ends = Ends /\ \A d \in Ends : Entry(d, ends[d], o)
  /\ wire \in Seq(Range(wire)) /\ \A i \in DOMAIN wire : Says(wire[i], o)
  /\ \A i \in DOMAIN wire : Rings(wire[i]) => ends[wire[i].to] = NoCall
  /\ \A i, j \in DOMAIN wire : Rings(wire[i]) /\ Rings(wire[j]) /\ wire[i].to = wire[j].to => i = j
  /\ \/ ends[Caller] = NoCall \/ ends[Caller].codec = o.settings.codec
     \/ wire # <<>> /\ ends[Caller].from = PeerUser /\ SaysAck(wire[1], o)

\* The stanzas of a sequence all say what they mean.
AllSay(w, o) == w \in Seq(Range(w)) /\ \A i \in DOMAIN w : Says(w[i], o)

\* What is said in reply follows what is on its way.
LEMMA WireGrows ==
  ASSUME NEW o, NEW w, NEW out, AllSay(w, o), Speaks(out, o), NEW v, v = w \o out
  PROVE  /\ AllSay(v, o)
         /\ \A i \in DOMAIN v :
              Rings(v[i]) => i \in DOMAIN w /\ v[i] = w[i]
         /\ w # <<>> => v # <<>> /\ v[1] = w[1]
<1>1. out \in Seq(Range(out)) /\ \A i \in DOMAIN out : Says(out[i], o) /\ ~Rings(out[i])  BY SpeaksIs
<1>2. /\ v \in Seq(Range(v)) /\ Len(w) \in Nat /\ Len(out) \in Nat
      /\ DOMAIN w = 1..Len(w) /\ DOMAIN out = 1..Len(out)
      /\ Len(v) = Len(w) + Len(out) /\ DOMAIN v = 1..Len(w) + Len(out)
      /\ \A i \in 1..Len(w) + Len(out) : v[i] = IF i <= Len(w) THEN w[i] ELSE out[i - Len(w)]
  BY <1>1, JoinedIs DEF AllSay
<1>3. w # <<>> => Len(w) # 0  BY EmptySeq DEF AllSay
<1>4. v = <<>> => Len(v) = 0  OBVIOUS
<1>5. ASSUME NEW i \in DOMAIN v
      PROVE  Says(v[i], o) /\ (Rings(v[i]) => i \in DOMAIN w /\ v[i] = w[i])
  <2>1. CASE i <= Len(w)  BY <1>2, <2>1 DEF AllSay
  <2>2. CASE ~(i <= Len(w))
    <3>1. i - Len(w) \in DOMAIN out /\ v[i] = out[i - Len(w)]  BY <1>2, <2>2
    <3>. QED BY <1>1, <3>1
  <2>. QED BY <2>1, <2>2
<1>6. w # <<>> => v # <<>> /\ v[1] = w[1]
  <2> SUFFICES ASSUME w # <<>> PROVE v # <<>> /\ v[1] = w[1]  OBVIOUS
  <2>1. Len(w) \in Nat /\ Len(w) # 0 /\ 1 \in 1..Len(w) + Len(out) /\ 1 <= Len(w)  BY <1>2, <1>3
  <2>2. v[1] = w[1]  BY <1>2, <2>1
  <2>3. Len(v) # 0  BY <1>2, <2>1
  <2>. QED BY <1>4, <2>2, <2>3
<1>. QED BY <1>2, <1>5, <1>6 DEF AllSay

\* Handle: the first stanza of the wire is taken, the reply goes behind the rest.
LEMMA HandleKeeps ==
  ASSUME NEW o, OneCall(o), Handle
  PROVE  OneCall(o)' /\ HandledAsMeant'
<1> DEFINE m == Head(wire)
           e == ends[m.to]
           h == Handled(e, m)
           rest == Tail(wire)
<1>1. /\ wire # <<>> /\ ends' = [ends EXCEPT ![m.to] = h.entry] /\ wire' = rest \o h.out
      /\ taken' = [means |-> IF Late(m, e) THEN Nothing ELSE m.means, read |-> h.read]
  BY DEF Handle, Live, Late, Action
<1> HIDE DEF h
<1>2. /\ DOMAIN ends = Ends /\ (\A d \in Ends : Entry(d, ends[d], o))
      /\ wire \in Seq(Range(wire)) /\ (\A i \in DOMAIN wire : Says(wire[i], o))
      /\ (\A i \in DOMAIN wire : Rings(wire[i]) => ends[wire[i].to] = NoCall)
      /\ (\A i, j \in DOMAIN wire : Rings(wire[i]) /\ Rings(wire[j]) /\ wire[i].to = wire[j].to => i = j)
  BY DEF OneCall
<1>3. /\ Len(wire) \in Nat /\ Len(wire) # 0 /\ DOMAIN wire = 1..Len(wire) /\ m = wire[1]
  BY <1>1, <1>2, EmptySeq
<1>4. /\ rest \in Seq(Range(rest)) /\ DOMAIN rest = 1..Len(wire) - 1
      /\ \A i \in DOMAIN rest : i + 1 \in DOMAIN wire /\ rest[i] = wire[i + 1]
  <2> DEFINE V == Range(wire)
  <2>1. rest \in Seq(V) /\ Len(rest) = Len(wire) - 1 /\ \A i \in 1..Len(rest) : rest[i] = wire[i + 1]
    <3> HIDE DEF rest, V
    <3>. QED BY <1>1, <1>2, HeadTailProperties DEF rest, V
  <2> HIDE DEF rest, V
  <2>2. rest \in Seq(Range(rest)) /\ DOMAIN rest = 1..Len(rest)  BY <2>1, InRange
  <2>. QED BY <1>3, <2>1, <2>2
<1>5. m.to \in Ends /\ Says(m, o) /\ (Rings(m) => e = NoCall) /\ Entry(m.to, e, o)
  <2>1. Says(m, o) /\ (Rings(m) => e = NoCall)  BY <1>2, <1>3
  <2>2. m.to \in Ends
    BY <2>1 DEF Says, SaysAck, SaysError, SaysOffer, SaysOver, SaysPrepared, SaysAccept, SaysTransport, SaysProbe,
                SaysEcho, SaysMute, SaysVideo, SaysReject, SaysTerminate, Is, Ends
  <2>. QED BY <1>2, <2>1, <2>2
<1>6. HandledWell(h, m, e, o)  BY <1>5, HandlesWell DEF h
<1> HIDE DEF m, rest
<1>7. HandledAsMeant'
  <2>1. h.read = IF Late(m, e) THEN Nothing ELSE m.means  BY <1>6 DEF HandledWell
  <2>2. taken'.read = h.read /\ taken'.means = IF Late(m, e) THEN Nothing ELSE m.means  BY <1>1
  <2>. QED BY <2>1, <2>2 DEF HandledAsMeant
<1>8. DOMAIN ends' = Ends /\ \A d \in Ends : ends'[d] = IF d = m.to THEN h.entry ELSE ends[d]
  BY <1>1, <1>2
<1>9. \A d \in Ends : Entry(d, ends'[d], o)  BY <1>2, <1>6, <1>8 DEF HandledWell
<1>10. /\ wire' \in Seq(Range(wire')) /\ (\A i \in DOMAIN wire' : Says(wire'[i], o))
       /\ (\A i \in DOMAIN wire' : Rings(wire'[i]) => i \in DOMAIN rest /\ wire'[i] = rest[i])
  <2>1. Speaks(h.out, o)  BY <1>6 DEF HandledWell
  <2>2. \A i \in DOMAIN rest : Says(rest[i], o)  BY <1>2, <1>4
  <2>3. AllSay(rest, o)  BY <1>4, <2>2 DEF AllSay
  <2>4. AllSay(wire', o) /\ \A i \in DOMAIN wire' : Rings(wire'[i]) => i \in DOMAIN rest /\ wire'[i] = rest[i]
    <3>1. wire' = rest \o h.out  BY <1>1
    <3>2. PICK v : v = wire'  OBVIOUS
    <3>3. PICK w, out : w = rest /\ out = h.out  OBVIOUS
    <3>4. v = w \o out /\ AllSay(w, o) /\ Speaks(out, o)  BY <2>1, <2>3, <3>1, <3>2, <3>3
    <3>5. AllSay(v, o)  BY <3>4, WireGrows
    <3>6. \A i \in DOMAIN v : Rings(v[i]) => i \in DOMAIN w /\ v[i] = w[i]  BY <3>4, WireGrows
    <3>. QED BY <3>2, <3>3, <3>5, <3>6
  <2>. QED BY <2>4 DEF AllSay
<1>11. \A i \in DOMAIN wire' : Rings(wire'[i]) => i + 1 \in DOMAIN wire /\ wire'[i] = wire[i + 1]
  BY <1>4, <1>10
<1>12. ASSUME NEW i \in DOMAIN wire', Rings(wire'[i]) PROVE ends'[wire'[i].to] = NoCall
  <2>1. i + 1 \in DOMAIN wire /\ wire'[i] = wire[i + 1] /\ i \in Nat /\ i \in DOMAIN rest
    BY <1>4, <1>10, <1>11, <1>12
  <2>2. ends[wire'[i].to] = NoCall  BY <1>2, <1>12, <2>1
  <2>3. CASE wire'[i].to = m.to
    <3>1. ~Rings(m)
      <4>1. 1 \in DOMAIN wire  BY <1>3
      <4>2. i + 1 # 1  BY <1>4, <2>1
      <4>. QED BY <1>2, <1>3, <1>12, <2>1, <2>3, <4>1, <4>2
    <3>2. h.entry = NoCall  BY <1>6, <2>2, <2>3, <3>1 DEF HandledWell
    <3>. QED BY <1>5, <1>8, <2>3, <3>2
  <2>4. CASE wire'[i].to # m.to
    <3>1. wire'[i].to \in Ends  BY <1>10, <1>12, RingsCallees DEF SaysOffer, Is
    <3>. QED BY <1>8, <2>2, <2>4, <3>1
  <2>. QED BY <2>3, <2>4
<1>13. ASSUME NEW i \in DOMAIN wire', NEW j \in DOMAIN wire', Rings(wire'[i]), Rings(wire'[j]),
              wire'[i].to = wire'[j].to
       PROVE  i = j
  <2>1. i + 1 \in DOMAIN wire /\ wire'[i] = wire[i + 1] /\ j + 1 \in DOMAIN wire /\ wire'[j] = wire[j + 1]
        /\ i \in DOMAIN rest /\ j \in DOMAIN rest
    BY <1>10, <1>11, <1>13
  <2>2. i + 1 = j + 1  BY <1>2, <1>13, <2>1
  <2>3. i \in Nat /\ j \in Nat  BY <1>3, <1>4, <2>1
  <2>. QED BY <2>2, <2>3
<1>14. ends'[Caller] = NoCall \/ ends'[Caller].codec = o.settings.codec
  <2>1. Caller \in Ends  BY DEF Ends
  <2>2. CASE m.to # Caller
    <3>1. ends'[Caller] = ends[Caller]  BY <1>8, <2>1, <2>2
    <3>2. ~SaysAck(wire[1], o)  BY <1>3, <2>2 DEF SaysAck
    <3>. QED BY <3>1, <3>2 DEF OneCall
  <2>3. CASE m.to = Caller
    <3>1. ends'[Caller] = h.entry /\ e = ends[Caller]  BY <1>8, <2>1, <2>3
    <3>2. ~Rings(m)  BY <1>5, <2>3, RingsCallees
    <3>3. CASE ends[Caller] = NoCall  BY <1>6, <3>1, <3>2, <3>3 DEF HandledWell
    <3>4. CASE ends[Caller] # NoCall /\ ends[Caller].codec = o.settings.codec
      BY <1>6, <3>1, <3>4 DEF HandledWell
    <3>5. CASE SaysAck(m, o)  BY <1>5, <3>1, <3>5, TakesAck DEF h
    <3>. QED BY <1>3, <3>3, <3>4, <3>5 DEF OneCall
  <2>. QED BY <2>2, <2>3
<1>15. OneCall(o)'
  BY <1>8, <1>9, <1>10, <1>12, <1>13, <1>14 DEF OneCall
<1>. QED BY <1>7, <1>15

\* Signal: an application, a client or the server speaks, and an entry stays or goes.
LEMMA SignalKeeps ==
  ASSUME NEW o, OneCall(o), NEW end \in Ends, NEW entry, NEW out, Signal(end, entry, out),
         Entry(end, entry, o), Speaks(out, o),
         entry # NoCall => ends[end] # NoCall /\ entry.codec = ends[end].codec /\ entry.from = ends[end].from
  PROVE  OneCall(o)'
<1>1. ends' = [ends EXCEPT ![end] = entry] /\ wire' = wire \o out  BY DEF Signal
<1>2. /\ DOMAIN ends = Ends /\ (\A d \in Ends : Entry(d, ends[d], o))
      /\ wire \in Seq(Range(wire)) /\ (\A i \in DOMAIN wire : Says(wire[i], o))
      /\ (\A i \in DOMAIN wire : Rings(wire[i]) => ends[wire[i].to] = NoCall)
      /\ (\A i, j \in DOMAIN wire : Rings(wire[i]) /\ Rings(wire[j]) /\ wire[i].to = wire[j].to => i = j)
  BY DEF OneCall
<1>3. DOMAIN ends' = Ends /\ \A d \in Ends : ends'[d] = IF d = end THEN entry ELSE ends[d]
  BY <1>1, <1>2
<1>4. /\ wire' \in Seq(Range(wire')) /\ (\A i \in DOMAIN wire' : Says(wire'[i], o))
      /\ (\A i \in DOMAIN wire' : Rings(wire'[i]) => i \in DOMAIN wire /\ wire'[i] = wire[i])
      /\ (wire # <<>> => wire' # <<>> /\ wire'[1] = wire[1])
  <2>1. AllSay(wire, o)  BY <1>2 DEF AllSay
  <2>2. /\ AllSay(wire', o)
        /\ (\A i \in DOMAIN wire' : Rings(wire'[i]) => i \in DOMAIN wire /\ wire'[i] = wire[i])
        /\ (wire # <<>> => wire' # <<>> /\ wire'[1] = wire[1])
    <3>1. wire' = wire \o out  BY <1>1
    <3>2. PICK v, w : v = wire' /\ w = wire  OBVIOUS
    <3>3. v = w \o out /\ AllSay(w, o)  BY <2>1, <3>1, <3>2
    <3>4. AllSay(v, o)  BY <3>3, WireGrows
    <3>5. \A i \in DOMAIN v : Rings(v[i]) => i \in DOMAIN w /\ v[i] = w[i]  BY <3>3, WireGrows
    <3>6. w # <<>> => v # <<>> /\ v[1] = w[1]  BY <3>3, WireGrows
    <3>. QED BY <3>2, <3>4, <3>5, <3>6
  <2>. QED BY <2>2 DEF AllSay
<1>5. ASSUME NEW i \in DOMAIN wire', Rings(wire'[i]) PROVE ends'[wire'[i].to] = NoCall
  <2>1. ends[wire'[i].to] = NoCall  BY <1>2, <1>4, <1>5
  <2>2. wire'[i].to \in Ends  BY <1>4, <1>5, RingsCallees DEF SaysOffer, Is
  <2>. QED BY <1>3, <2>1, <2>2
<1>6. \A i, j \in DOMAIN wire' : Rings(wire'[i]) /\ Rings(wire'[j]) /\ wire'[i].to = wire'[j].to => i = j
  BY <1>2, <1>4
<1>7. ends'[Caller] = NoCall \/ (ends[Caller] # NoCall /\ ends'[Caller].codec = ends[Caller].codec
                                  /\ ends'[Caller].from = ends[Caller].from)
  <2>1. Caller \in Ends  BY DEF Ends
  <2>. QED BY <1>3, <2>1
<1>8. \/ ends'[Caller] = NoCall \/ ends'[Caller].codec = o.settings.codec
      \/ wire' # <<>> /\ ends'[Caller].from = PeerUser /\ SaysAck(wire'[1], o)
  BY <1>4, <1>7 DEF OneCall
<1>9. \A d \in Ends : Entry(d, ends'[d], o)  BY <1>2, <1>3
<1>. QED BY <1>3, <1>4, <1>5, <1>6, <1>8, <1>9 DEF OneCall

\* EndsAgree follows: what an entry keeps names the caller and the codec of o.
LEMMA OneCallAgrees ==
  ASSUME NEW o, OneCall(o)
  PROVE  EndsAgree
<1> SUFFICES ASSUME NEW d \in Callees, ends[Caller] # NoCall, ends[d] # NoCall, ends[Caller].from = d
             PROVE  LET c == ends[Caller]  e == ends[d] IN
                    /\ c.callKey = e.callKey /\ c.codec = e.codec /\ c.creator = e.creator
                    /\ c.peerLID = e.selfLID /\ e.peerLID = c.selfLID
                    /\ c.media # <<>> /\ e.media # <<>> =>
                         /\ c.media[1].peer = e.media[1].self /\ e.media[1].peer = c.media[1].self
                         /\ c.media[1].allocation = e.media[1].allocation
  BY DEF EndsAgree
<1> DEFINE c == ends[Caller]
           e == ends[d]
<1>1. d # Caller /\ d # PeerUser /\ d \in Ends /\ Caller \in Ends  BY SignalsAssumption DEF Ends
<1>2. KeepsCall(Caller, c, o) /\ KeepsCall(d, e, o)  BY <1>1 DEF OneCall, Entry
<1>3. c.codec = o.settings.codec  BY <1>1 DEF OneCall
<1> HIDE DEF c, e
<1>4. /\ c.callKey = e.callKey /\ c.codec = e.codec /\ c.creator = e.creator
      /\ c.peerLID = d /\ e.selfLID = d /\ e.peerLID = Caller /\ c.selfLID = Caller
  BY <1>1, <1>2, <1>3 DEF KeepsCall, c
<1>5. c.media # <<>> =>
        c.media[1] = [key |-> <<"key">>, self |-> Caller, peer |-> d, allocation |-> Allocation(Block(o))]
  <2>1. c.media = <<>> \/ c.media = <<[key |-> <<"key">>, self |-> Caller, peer |-> d, allocation |-> Allocation(Block(o))]>>
    BY <1>2, <1>4 DEF KeepsCall
  <2>. QED BY <2>1
<1>6. e.media # <<>> =>
        e.media[1] = [key |-> <<"key">>, self |-> d, peer |-> Caller, allocation |-> Allocation(Block(o))]
  <2>1. e.media = <<>> \/ e.media = <<[key |-> <<"key">>, self |-> d, peer |-> Caller, allocation |-> Allocation(Block(o))]>>
    BY <1>2, <1>4 DEF KeepsCall
  <2>. QED BY <2>1
<1>. QED BY <1>4, <1>5, <1>6 DEF c, e

-----------------------------------------------------------------------------
(* What applications, the caller's client and the server say.              *)

\* The server refuses, or says that the call is over.
LEMMA ErrorSpeaks ==
  ASSUME NEW o, NEW code, NEW m, m = [to |-> Caller, node |-> ErrorAck(code), means |-> <<code>>]
  PROVE  Speaks(<<m>>, o) /\ SaysError(m)
<1> DEFINE leaf == Leaf("error", {<<"call-id", "call">>})
           kids == <<leaf>>
           ack == AckNode(kids)
           node == ErrorAck(code)
<1>1. leaf.tag = "error" /\ kids[1] = leaf  BY LeafIs
<1> HIDE DEF leaf, kids
<1>2. IsNode(ack) /\ ack.tag = "ack" /\ ack.kids = kids  BY ParentIs DEF AckNode
<1>3. node = WithAttr(ack, "error", code)  BY DEF ErrorAck, kids, leaf
<1> HIDE DEF ack, node
<1>4. node.tag = "ack" /\ node.kids = kids /\ Has(node, "error") /\ Attr(node, "error") = code
  BY <1>2, <1>3, WithAttrIs
<1>5. m.to = Caller /\ m.node = node /\ m.means = <<code>>  BY DEF node
<1>6. Action(m).tag = "error"  BY <1>1, <1>4, <1>5 DEF Action
<1>7. SaysError(m)  BY <1>4, <1>5, <1>6 DEF SaysError
<1>8. ~Rings(m)  BY <1>6 DEF Rings
<1>. QED BY <1>7, <1>8, SpeaksOne DEF Says

LEMMA OverSpeaks ==
  ASSUME NEW o, NEW d \in Ends, NEW m,
         m = [to |-> d, node |-> Parent("call", {<<"from", Caller>>}, <<Leaf("offer", {<<"is_call_ended", "1">>})>>),
              means |-> Nothing]
  PROVE  Speaks(<<m>>, o)
<1> DEFINE attrs == {<<"is_call_ended", "1">>}
           leaf == Leaf("offer", attrs)
           kids == <<leaf>>
           from == {<<"from", Caller>>}
           node == Parent("call", from, kids)
<1>1. leaf.tag = "offer" /\ kids[1] = leaf  BY LeafIs
<1>2. Attr(leaf, "is_call_ended") = "1"
  <2>1. <<"is_call_ended", "1">> \in attrs /\ \A a \in attrs : a[1] = "is_call_ended" => a[2] = "1"  OBVIOUS
  <2> HIDE DEF attrs
  <2>. QED BY <2>1, LeafAttr
<1>3. m.to = d /\ m.node = node /\ m.means = Nothing  OBVIOUS
<1> HIDE DEF leaf, kids, from
<1>4. IsNode(node) /\ node.tag = "call" /\ node.kids = kids  BY ParentIs
<1> HIDE DEF node
<1>5. Action(m) = leaf /\ Is(m, "offer")  BY <1>1, <1>3, <1>4 DEF Action, Is
<1>6. SaysOver(m)  BY <1>2, <1>3, <1>5 DEF SaysOver
<1>7. ~Rings(m)  BY <1>3 DEF Rings
<1>. QED BY <1>6, <1>7, SpeaksOne DEF Says

\* buildMuteV2 and buildReject.
LEMMA MuteSpeaks ==
  ASSUME NEW o, NEW p, p.to \in Ends \cup {PeerUser}
  PROVE  Speaks(Routed(Caller, BuildMuteV2(p), <<[muted |-> p.state = "1"]>>), o)
<1> DEFINE ids == CallIDs(p)
           attrs == ids \cup {<<"mute-state", p.state>>}
           action == Leaf("mute_v2", attrs)
           n == BuildMuteV2(p)
           means == <<[muted |-> p.state = "1"]>>
<1>1. n = CallWrap(p.to, action)  BY DEF BuildMuteV2
<1>2. Attr(action, "mute-state") = p.state /\ action.tag = "mute_v2"
  <2>1. \A a \in ids : a[1] # "mute-state"  BY DEF CallIDs
  <2>2. <<"mute-state", p.state>> \in attrs /\ \A a \in attrs : a[1] = "mute-state" => a[2] = p.state
    <3> HIDE DEF ids
    <3>. QED BY <2>1
  <2> HIDE DEF attrs
  <2>3. Attr(action, "mute-state") = p.state  BY <2>2, LeafAttr
  <2>. QED BY <2>3, LeafIs
<1> HIDE DEF action, n
<1>3. Wrapped(n, p.to, action)  BY <1>1, CallWrapIs
<1>4. ASSUME NEW m, PassedOn(m, Caller, n, means) PROVE Says(m, o) /\ ~Rings(m)
  <2>1. Is(m, "mute_v2") /\ Action(m) = action /\ Sender(m) = Caller /\ m.means = means
    <3> HIDE DEF means
    <3>. QED BY <1>2, <1>3, <1>4, PassedOnIs
  <2>2. SaysMute(m)  BY <1>2, <2>1 DEF SaysMute
  <2>. QED BY <1>2, <2>1, <2>2 DEF Says, Rings
<1> HIDE DEF means
<1>5. PICK to \in Ends \cup {PeerUser} : to = p.to  OBVIOUS
<1>. QED BY <1>3, <1>4, <1>5, RoutedSpeaks DEF n, means

LEMMA RejectSpeaks ==
  ASSUME NEW o, NEW p, p.to \in Ends \cup {PeerUser}, NEW sender
  PROVE  Speaks(Routed(sender, WithAttr(BuildReject(p), "id", "n1"), <<"rejected">>), o)
<1> DEFINE ids == CallIDs(p)
           action == Leaf("reject", ids)
           b == BuildReject(p)
           n == WithAttr(b, "id", "n1")
           means == <<"rejected">>
<1>1. b = CallWrap(p.to, action)  BY DEF BuildReject
<1>2. action.tag = "reject"  BY LeafIs
<1> HIDE DEF action, b
<1>3. Wrapped(n, p.to, action)  BY <1>1, CallWrapIs, WrappedKeeps
<1> HIDE DEF n
<1>4. ASSUME NEW m, PassedOn(m, sender, n, means) PROVE Says(m, o) /\ ~Rings(m)
  <2>1. Is(m, "reject") /\ Action(m) = action /\ m.means = means
    <3> HIDE DEF means
    <3>. QED BY <1>2, <1>3, <1>4, PassedOnIs
  <2>2. SaysReject(m)  BY <2>1 DEF SaysReject
  <2>. QED BY <1>2, <2>1, <2>2 DEF Says, Rings
<1> HIDE DEF means
<1>5. PICK to \in Ends \cup {PeerUser} : to = p.to  OBVIOUS
<1>. QED BY <1>3, <1>4, <1>5, RoutedSpeaks DEF n, b, means

\* Attributes of a node with children.
LEMMA ParentAttr ==
  ASSUME NEW tag, NEW attrs, NEW kids, NEW key, NEW value, <<key, value>> \in attrs, \A a \in attrs : a[1] = key => a[2] = value
  PROVE  Attr(Parent(tag, attrs, kids), key) = value
BY AttrOf DEF Parent

LEMMA NoParentAttr ==
  ASSUME NEW tag, NEW attrs, NEW kids, NEW key, \A a \in attrs : a[1] # key
  PROVE  Attr(Parent(tag, attrs, kids), key) = ""
BY NoAttrOf DEF Parent

\* A terminate, with or without a number.
LEMMA TerminateSpeaks ==
  ASSUME NEW o, NEW p, p.to \in Ends \cup {PeerUser}, NEW sender, NEW n,
         n = BuildTerminate(p) \/ n = WithAttr(BuildTerminate(p), "id", "n2")
  PROVE  Speaks(Routed(sender, n, <<p.reason>>), o)
<1> DEFINE ids == CallIDs(p)
           reason == IF p.reason = "" THEN NoAttrs ELSE {<<"reason", p.reason>>}
           attrs == ids \cup reason
           kids == When(p.devices # <<>>, DestinationTo(p.devices))
           action == Parent("terminate", attrs, kids)
           b == BuildTerminate(p)
           means == <<p.reason>>
<1>1. b = CallWrap(p.to, action)  BY DEF BuildTerminate
<1>2. Attr(action, "reason") = p.reason /\ action.tag = "terminate"
  <2>1. \A a \in ids : a[1] # "reason"  BY DEF CallIDs
  <2>2. CASE p.reason = ""
    <3>1. reason = {}  BY <2>2 DEF NoAttrs
    <3>2. \A a \in attrs : a[1] # "reason"
      <4> HIDE DEF ids, reason
      <4>. QED BY <2>1, <3>1
    <3> HIDE DEF attrs, kids
    <3>3. Attr(action, "reason") = ""  BY <3>2, NoParentAttr
    <3>4. action.tag = "terminate"  BY ParentIs
    <3> HIDE DEF action
    <3>. QED BY <2>2, <3>3, <3>4
  <2>3. CASE p.reason # ""
    <3>1. reason = {<<"reason", p.reason>>}  BY <2>3
    <3>2. \A x : <<"reason", x>>[1] = "reason" /\ <<"reason", x>>[2] = x  OBVIOUS
    <3>3. <<"reason", p.reason>> \in attrs /\ \A a \in attrs : a[1] = "reason" => a[2] = p.reason
      <4> HIDE DEF ids, reason
      <4>. QED BY <2>1, <3>1, <3>2
    <3> HIDE DEF attrs, kids
    <3>4. Attr(action, "reason") = p.reason  BY <3>3, ParentAttr
    <3>. QED BY <3>4, ParentIs
  <2>. QED BY <2>2, <2>3
<1> HIDE DEF action, b
<1>3. Wrapped(n, p.to, action)  BY <1>1, CallWrapIs, WrappedKeeps DEF b
<1>4. ASSUME NEW m, PassedOn(m, sender, n, means) PROVE Says(m, o) /\ ~Rings(m)
  <2>1. Is(m, "terminate") /\ Action(m) = action /\ m.means = means
    <3> HIDE DEF means
    <3>. QED BY <1>2, <1>3, <1>4, PassedOnIs
  <2>2. SaysTerminate(m)  BY <1>2, <2>1 DEF SaysTerminate
  <2>. QED BY <1>2, <2>1, <2>2 DEF Says, Rings
<1> HIDE DEF means
<1>5. PICK to \in Ends \cup {PeerUser} : to = p.to  OBVIOUS
<1>. QED BY <1>3, <1>4, <1>5, RoutedSpeaks DEF means

-----------------------------------------------------------------------------
(* Nodes found among children of several kinds.                            *)

\* findChild and childByTag, over the set of the children.
LEMMA FindsIn ==
  ASSUME NEW n, n.kids \in Seq(Range(n.kids)), NEW tag, n.tag # tag, NEW v,
         \A k \in Range(n.kids) : FindShallow(k, tag) \in {<<>>, v}
  PROVE  FindChild(n, tag) = IF \E k \in Range(n.kids) : FindShallow(k, tag) = v THEN v ELSE <<>>
<1>1. \A i \in DOMAIN n.kids : n.kids[i] \in Range(n.kids)  BY DEF Range
<1>2. \A i \in DOMAIN n.kids : FindShallow(n.kids[i], tag) \in {<<>>, v}  BY <1>1
<1>3. FindChild(n, tag) = IF \E i \in DOMAIN n.kids : FindShallow(n.kids[i], tag) = v THEN v ELSE <<>>
  BY <1>2, FoundBelow
<1>4. (\E i \in DOMAIN n.kids : FindShallow(n.kids[i], tag) = v) <=> \E k \in Range(n.kids) : FindShallow(k, tag) = v
  BY <1>1 DEF Range
<1>. QED BY <1>3, <1>4

LEMMA ChildIn ==
  ASSUME NEW n, n.kids \in Seq(Range(n.kids)), NEW tag, NEW v,
         \A k \in Range(n.kids) : Named(k, tag) \in {<<>>, v}
  PROVE  ChildByTag(n, tag) = IF \E k \in Range(n.kids) : Named(k, tag) = v THEN v ELSE <<>>
<1>1. \A i \in DOMAIN n.kids : n.kids[i] \in Range(n.kids)  BY DEF Range
<1>2. \A i \in DOMAIN n.kids : Named(n.kids[i], tag) \in {<<>>, v}  BY <1>1
<1>3. ChildByTag(n, tag) = IF \E i \in DOMAIN n.kids : Named(n.kids[i], tag) = v THEN v ELSE <<>>
  BY <1>2, ChildAmong
<1>4. (\E i \in DOMAIN n.kids : Named(n.kids[i], tag) = v) <=> \E k \in Range(n.kids) : Named(k, tag) = v
  BY <1>1 DEF Range
<1>. QED BY <1>3, <1>4

\* Equal attributes read the same.
LEMMA SameAttrs ==
  ASSUME NEW n, NEW k, n.attrs = k.attrs, NEW key
  PROVE  Attr(n, key) = Attr(k, key) /\ (Has(n, key) <=> Has(k, key))
<1>1. Has(n, key) <=> Has(k, key)  BY DEF Has
<1>2. ValueOf(n, key) = ValueOf(k, key)  BY DEF ValueOf, Values
<1>. QED BY <1>1, <1>2 DEF Attr

\* The action of a stanza is replaced.
Rewrap(n, action) == [n EXCEPT !.kids = <<action>>]

\* The action of a stanza, and of one that has been given another.
LEMMA ActionOf == ASSUME NEW to, NEW action PROVE CallWrap(to, action).kids[1] = action
BY CallWrapIs DEF Wrapped

LEMMA RewrappedIs ==
  ASSUME NEW w, NEW to, NEW action, Wrapped(w, to, action), NEW changed
  PROVE  Wrapped(Rewrap(w, changed), to, changed)
<1> DEFINE kids == <<changed>>
           n == [w EXCEPT !.kids = kids]
<1>2. IsNode(n) /\ n.tag = "call" /\ n.kids = kids /\ n.attrs = w.attrs  BY DEF Wrapped, IsNode
<1> HIDE DEF n
<1>3. Attr(n, "to") = to  BY <1>2, SameAttrs DEF Wrapped
<1>4. n.kids[1] = changed  BY <1>2
<1> HIDE DEF kids
<1>. QED BY <1>2, <1>3, <1>4 DEF Wrapped, Rewrap, n, kids

\* What short sequences hold.
LEMMA RangeOfPair == ASSUME NEW a, NEW b PROVE Range(<<a, b>>) = {a, b} /\ <<a, b>> \in Seq(Range(<<a, b>>))
<1>1. DOMAIN <<a, b>> = 1..2 /\ <<a, b>>[1] = a /\ <<a, b>>[2] = b  BY TwoElements
<1>2. Range(<<a, b>>) = {a, b}
  <2> DEFINE s == <<a, b>>
  <2>1. DOMAIN s = 1..2 /\ s[1] = a /\ s[2] = b  BY <1>1
  <2> HIDE DEF s
  <2>2. Range(s) = {a, b}  BY <2>1 DEF Range
  <2>. QED BY <2>2 DEF s
<1>3. <<a, b>> \in Seq({a, b})  OBVIOUS
<1>. QED BY <1>2, <1>3

LEMMA RangeOfOne == ASSUME NEW a PROVE Range(<<a>>) = {a} /\ <<a>> \in Seq(Range(<<a>>))
<1>1. Range(<<a>>) = {a}  BY DEF Range
<1>2. <<a>> \in Seq({a})  OBVIOUS
<1>. QED BY <1>1, <1>2

LEMMA RangeOfNone == Range(<<>>) = {} /\ <<>> \in Seq(Range(<<>>))
<1>1. Range(<<>>) = {}  BY DEF Range
<1>2. <<>> \in Seq({})  OBVIOUS
<1>. QED BY <1>1, <1>2

\* How the block and the settings of a call are found where they are put.
LEMMA BlockFound ==
  ASSUME NEW o, Understood(o)
  PROVE  LET b == o.block.node IN
         /\ b.tag = "relay" /\ FindShallow(b, "relay") = <<b>> /\ FindShallow(b, "voip_settings") = <<>>
         /\ Named(b, "enc") = <<>> /\ Named(b, "video") = <<>>
<1> DEFINE b == o.block.node
<1>1. b.tag = "relay" /\ b.kids \in Seq(Range(b.kids))
      /\ \A kid \in Range(b.kids) : kid.kids = <<>> /\ kid.tag # "voip_settings"
  BY DEF Understood
<1> HIDE DEF b
<1>2. Lacks(b.kids, {"voip_settings"})  BY <1>1 DEF Lacks
<1>3. Without(b, "voip_settings")  BY <1>1, <1>2 DEF Without
<1>4. ChildByTag(b, "voip_settings") = <<>>  BY <1>3, NotFoundIn
<1>. QED BY <1>1, <1>4 DEF FindShallow, Named, When, b

\* The same of <voip_settings>, which may be missing.
LEMMA SettingsFound ==
  ASSUME NEW o, Understood(o)
  PROVE  LET nodes == o.settings.nodes IN
         /\ nodes \in Seq(Range(nodes))
         /\ nodes = <<>> \/ \E s : nodes = <<s>>
         /\ \A s \in Range(nodes) :
              /\ nodes = <<s>> /\ s.kids = <<>> /\ FindShallow(s, "relay") = <<>>
              /\ FindShallow(s, "voip_settings") = <<s>> /\ Named(s, "enc") = <<>> /\ Named(s, "video") = <<>>
<1> DEFINE nodes == o.settings.nodes
<1>1. CASE nodes = <<>>
  <2> HIDE DEF nodes
  <2>1. Range(nodes) = {} /\ nodes \in Seq(Range(nodes))  BY <1>1, RangeOfNone
  <2>. QED BY <1>1, <2>1 DEF nodes
<1>2. CASE nodes # <<>>
  <2>1. PICK content : nodes = <<Node("voip_settings", NoAttrs, <<>>, content)>>  BY <1>2 DEF Understood
  <2> DEFINE s == Node("voip_settings", NoAttrs, <<>>, content)
  <2>2. s.kids = <<>> /\ s.tag = "voip_settings"  BY NodeParts
  <2> HIDE DEF s, nodes
  <2>3. nodes = <<s>> /\ Range(nodes) = {s} /\ nodes \in Seq(Range(nodes))  BY <2>1, RangeOfOne DEF s
  <2>4. /\ FindShallow(s, "relay") = <<>> /\ FindShallow(s, "voip_settings") = <<s>>
        /\ Named(s, "enc") = <<>> /\ Named(s, "video") = <<>>
    BY <2>2, LeafHasNone DEF Named, When
  <2>. QED BY <2>2, <2>3, <2>4 DEF nodes
<1>. QED BY <1>1, <1>2

\* A transport with a relay block put in.
Adding(transport, block) == [transport EXCEPT !.kids = Append(@, block)]

\* buildTransport, with the block that the client adds.
LEMMA TransportSpeaks ==
  ASSUME NEW o, NEW d \in Callees, NEW r, Understood(r), Block(r) \in {NoRelay, Block(o)}, NEW p,
         p.to = d, p.relayTe = <<>>, NEW n,
         n = Rewrap(BuildTransport(p), Adding(BuildTransport(p).kids[1], r.block.node))
  PROVE  Speaks(Routed(Caller, n, <<r.block.means>>), o)
<1> DEFINE attrs == CallIDs(p) \cup IF p.messageType = 0 THEN NoAttrs ELSE {<<"transport-message-type", p.messageType>>}
           net == Leaf("net", IF p.messageType = 9 THEN {<<"medium", 2>>} ELSE {<<"medium", 2>>, <<"protocol", 0>>})
           kids == Opt("te", {<<"priority", 1>>}, p.relayTe) \o <<net>>
           transport == Parent("transport", attrs, kids)
           block == r.block.node
           w == BuildTransport(p)
           action == Adding(w.kids[1], block)
           means == <<r.block.means>>
<1>1. net.kids = <<>> /\ net.tag = "net"  BY LeafIs
<1> HIDE DEF net
<1>2. kids = <<net>>
  <2>1. Opt("te", {<<"priority", 1>>}, p.relayTe) = <<>>  BY DEF Opt, When
  <2>2. <<net>> \in Seq({net})  OBVIOUS
  <2>3. <<>> \o <<net>> = <<net>>  BY <2>2, ConcatEmptySeq
  <2>. QED BY <2>1, <2>3
<1>3. BuildTransport(p) = CallWrap(d, transport)  BY DEF BuildTransport, net
<1> HIDE DEF attrs, kids
<1>4. IsNode(transport) /\ transport.tag = "transport" /\ transport.kids = kids  BY ParentIs
<1> HIDE DEF transport
<1>5. Wrapped(w, d, transport) /\ w.kids[1] = transport
  <2>1. Wrapped(CallWrap(d, transport), d, transport)  BY CallWrapIs
  <2>2. CallWrap(d, transport).kids[1] = transport  BY ActionOf
  <2>. QED BY <1>3, <2>1, <2>2
<1>6. n = Rewrap(w, action)  OBVIOUS
<1> HIDE DEF w, block
<1>15. action.tag = "transport" /\ action.kids = Append(kids, block)
  <2>1. action = [transport EXCEPT !.kids = Append(@, block)]  BY <1>5 DEF Adding
  <2>. QED BY <1>4, <2>1 DEF IsNode
<1> HIDE DEF action
<1>7. Wrapped(n, d, action)
  <2>1. Wrapped(Rewrap(w, action), d, action)  BY <1>5, RewrappedIs
  <2>. QED BY <1>6, <2>1
<1>8. FindChild(action, "relay") = <<block>>
  <2>1. action.kids = <<net, block>>  BY <1>2, <1>15, PairIs
  <2>2. action.kids \in Seq(Range(action.kids)) /\ Range(action.kids) = {net, block}  BY <2>1, RangeOfPair
  <2>3. FindShallow(net, "relay") = <<>>  BY <1>1, LeafHasNone DEF Named, When
  <2>4. FindShallow(block, "relay") = <<block>>  BY BlockFound DEF block
  <2> DEFINE v == <<block>>
  <2>5. FindShallow(block, "relay") = v  BY <2>4
  <2> HIDE DEF v
  <2>6. FindChild(action, "relay") = IF \E k \in Range(action.kids) : FindShallow(k, "relay") = v THEN v ELSE <<>>
    BY <1>15, <2>2, <2>3, <2>5, FindsIn
  <2>. QED BY <2>2, <2>5, <2>6 DEF v
<1>9. ASSUME NEW m, PassedOn(m, Caller, n, means) PROVE Says(m, o) /\ ~Rings(m)
  <2>1. Is(m, action.tag) /\ Action(m) = action /\ m.means = means
    <3> HIDE DEF means
    <3>. QED BY <1>7, <1>9, PassedOnIs
  <2>2. ParseRelayData(block) = Block(r) /\ Allocation(Block(r)) = r.block.means  BY DEF Understood, Block, block
  <2>3. block \in Range(<<block>>)  BY RangeOfOne
  <2>4. SaysTransport(m, o)
    <3>1. FindChild(Action(m), "relay") = <<block>> /\ ParseRelayData(block) \in {NoRelay, Block(o)}
          /\ m.means = <<Allocation(ParseRelayData(block))>>
      BY <1>8, <2>1, <2>2 DEF means
    <3>. QED BY <1>15, <2>1, <2>3, <3>1 DEF SaysTransport
  <2>. QED BY <1>15, <2>1, <2>4 DEF Says, Rings
<1> HIDE DEF means
<1>10. d \in Ends \cup {PeerUser}  BY DEF Ends
<1>. QED BY <1>7, <1>9, <1>10, RoutedSpeaks DEF means

\* Sequences, and what they hold.
IsList(s) == s \in Seq(Range(s))

LEMMA ListIs == ASSUME NEW V, NEW s \in Seq(V) PROVE IsList(s) /\ Range(s) \subseteq V
BY InRange DEF IsList

LEMMA ListsJoin ==
  ASSUME NEW s, IsList(s), NEW t, IsList(t)
  PROVE  IsList(s \o t) /\ Range(s \o t) = Range(s) \cup Range(t)
<1> DEFINE u == s \o t
<1>1. u \in Seq(Range(s) \cup Range(t)) /\ Range(u) = Range(s) \cup Range(t)  BY RangeOfConcat DEF IsList
<1>. QED BY <1>1, ListIs

LEMMA ListOfOne == ASSUME NEW a PROVE IsList(<<a>>) /\ Range(<<a>>) = {a}
BY RangeOfOne DEF IsList

LEMMA ListOfNone == IsList(<<>>) /\ Range(<<>>) = {}
BY RangeOfNone DEF IsList

\* What lists hold, one after the other.
InSome(x, lists) == \E i \in DOMAIN lists : x \in Range(lists[i])

\* Flattening keeps what the lists hold.
LEMMA RangeOfFlatten ==
  ASSUME NEW V, NEW lists \in Seq(Seq(V))
  PROVE  IsList(FlattenSeq(lists)) /\ \A x : x \in Range(FlattenSeq(lists)) <=> InSome(x, lists)
<1> DEFINE Good(c) == \A x : x \in Range(FlattenSeq(c)) <=> InSome(x, c)
           S == {n \in Nat : \A c \in Seq(Seq(V)) : Len(c) = n => Good(c)}
<1>1. 0 \in S
  <2> SUFFICES ASSUME NEW c \in Seq(Seq(V)), Len(c) = 0 PROVE Good(c)
    OBVIOUS
  <2>1. c = <<>>  BY EmptySeq
  <2>2. FlattenSeq(c) = <<>>  BY <2>1 DEF FlattenSeq
  <2>3. Range(FlattenSeq(c)) = {}  BY <2>2, ListOfNone
  <2>4. DOMAIN c = {}  BY <2>1
  <2>. QED BY <2>3, <2>4 DEF InSome
<1>2. ASSUME NEW n \in Nat, n \in S PROVE n + 1 \in S
  <2> SUFFICES ASSUME NEW c \in Seq(Seq(V)), Len(c) = n + 1 PROVE Good(c)
    OBVIOUS
  <2>1. c # <<>>  OBVIOUS
  <2>2. PICK b \in Seq(Seq(V)), e \in Seq(V) : c = Append(b, e)  BY <2>1, SequenceEmptyOrAppend
  <2>3. /\ Len(c) = Len(b) + 1 /\ Len(b) \in Nat /\ DOMAIN b = 1..Len(b) /\ DOMAIN c = 1..Len(b) + 1
        /\ c[Len(b) + 1] = e /\ \A i \in 1..Len(b) : c[i] = b[i]
    BY <2>2, AppendProperties
  <2>4. Good(b)  BY <1>2, <2>3
  <2>5. FlattenSeq(c) = FlattenSeq(b) \o e /\ FlattenSeq(b) \in Seq(V)  BY <2>2, FlattenAppend
  <2>6. Range(FlattenSeq(c)) = Range(FlattenSeq(b)) \cup Range(e)
    <3>1. IsList(FlattenSeq(b)) /\ IsList(e)  BY <2>5, ListIs
    <3>. QED BY <2>5, <3>1, ListsJoin
  <2>7. \A x : InSome(x, c) <=> InSome(x, b) \/ x \in Range(e)
    <3>1. \A i : i \in DOMAIN c <=> i \in DOMAIN b \/ i = Len(b) + 1  BY <2>3
    <3> HIDE DEF Good
    <3>. QED BY <2>3, <3>1 DEF InSome
  <2>. QED BY <2>4, <2>6, <2>7
<1>3. Nat \subseteq S
  <2> HIDE DEF S
  <2>. QED BY <1>1, <1>2, NatSetInduction
<1>4. Len(lists) \in Nat  OBVIOUS
<1>5. Good(lists)  BY <1>3, <1>4
<1>6. FlattenSeq(lists) \in Seq(V)  BY FlattenType
<1>. QED BY <1>5, <1>6, ListIs

-----------------------------------------------------------------------------
(* The offer that a device gets.                                           *)

\* The key as it is encrypted for a device, and where the device finds it.
DeviceKey(d) == [device |-> d, encType |-> EncType(d), ciphertext |-> <<[device |-> d, key |-> <<"key">>]>>]
OwnOf(dest, device) == dest.kids[CHOOSE i \in DOMAIN dest.kids : Attr(dest.kids[i], "jid") = device].kids
GotBy(kid, device) == IF kid.tag = "destination" THEN OwnOf(kid, device) ELSE <<kid>>

\* OfferFor: its own key in place of all, and what the server adds.
LEMMA OfferForIs ==
  ASSUME NEW offer, IsNode(offer), IsList(offer.kids), NEW d, \A kid \in Range(offer.kids) : IsList(GotBy(kid, d)),
         NEW added, IsList(added)
  PROVE  LET got == OfferFor(offer, d, added) IN
         /\ IsNode(got) /\ got.tag = offer.tag /\ got.attrs = offer.attrs /\ IsList(got.kids)
         /\ \A x : x \in Range(got.kids) <=> x \in Range(added) \/ \E kid \in Range(offer.kids) : x \in Range(GotBy(kid, d))
<1> DEFINE kids == offer.kids
           lists == [i \in DOMAIN kids |-> GotBy(kids[i], d)]
           flat == FlattenSeq(lists) \o added
           got == [offer EXCEPT !.kids = flat]
<1>1. OfferFor(offer, d, added) = got  BY DEF OfferFor, GotBy, OwnOf
<1>2. Len(kids) \in Nat /\ DOMAIN kids = 1..Len(kids) /\ \A i \in DOMAIN kids : kids[i] \in Range(kids)
  BY DEF IsList, Range
<1> DEFINE V == UNION {Range(GotBy(kid, d)) : kid \in Range(kids)}
<1>3. \A kid \in Range(kids) : GotBy(kid, d) \in Seq(V)
  <2> SUFFICES ASSUME NEW kid \in Range(kids) PROVE GotBy(kid, d) \in Seq(V)  OBVIOUS
  <2>1. GotBy(kid, d) \in Seq(Range(GotBy(kid, d)))  BY DEF IsList
  <2>2. Range(GotBy(kid, d)) \subseteq V  OBVIOUS
  <2>. QED BY <2>1, <2>2, SeqMonotonic
<1>4. lists \in Seq(Seq(V))
  <2> DEFINE U == Seq(V)
  <2> HIDE DEF V, U
  <2>1. \A i \in 1..Len(kids) : lists[i] \in U  BY <1>2, <1>3 DEF U
  <2>2. DOMAIN lists = 1..Len(kids)  BY <1>2
  <2>3. lists \in [1..Len(kids) -> U]  BY <1>2, <2>1
  <2> HIDE DEF lists
  <2>. QED BY <1>2, <2>3, SeqDef DEF U
<1>5. IsList(FlattenSeq(lists)) /\ \A x : x \in Range(FlattenSeq(lists)) <=> InSome(x, lists)
  <2> HIDE DEF V, lists
  <2>. QED BY <1>4, RangeOfFlatten
<1>6. \A x : InSome(x, lists) <=> \E kid \in Range(kids) : x \in Range(GotBy(kid, d))
  <2>1. \A x : InSome(x, lists) <=> \E i \in DOMAIN kids : x \in Range(GotBy(kids[i], d))
    BY DEF InSome
  <2> HIDE DEF lists
  <2>2. \A kid : kid \in Range(kids) <=> \E i \in DOMAIN kids : kid = kids[i]  BY DEF Range
  <2>. QED BY <2>1, <2>2
<1>7. IsList(flat) /\ Range(flat) = Range(FlattenSeq(lists)) \cup Range(added)
  <2> HIDE DEF lists
  <2>. QED BY <1>5, ListsJoin
<1> HIDE DEF flat, lists
<1>8. IsNode(got) /\ got.tag = offer.tag /\ got.attrs = offer.attrs /\ got.kids = flat  BY DEF IsNode
<1> HIDE DEF got
<1>. QED BY <1>1, <1>5, <1>6, <1>7, <1>8

\* The devices that are rung, and their keys.
Called(o) == SubSeq(Devices, 1, o.count)
KeysOf(o) == [i \in DOMAIN Called(o) |-> DeviceKey(Called(o)[i])]

\* They are as many as the call says, and different.
LEMMA CalledIs ==
  ASSUME NEW o, Understood(o)
  PROVE  /\ Called(o) \in Seq(Callees) /\ Len(Called(o)) = o.count /\ o.count \in Nat /\ o.count >= 1
         /\ DOMAIN Called(o) = 1..o.count
         /\ \A i, j \in 1..o.count : Called(o)[i] = Called(o)[j] => i = j
<1>1. Devices \in Seq(Callees) /\ Len(Devices) \in Nat /\ DOMAIN Devices = 1..Len(Devices)
  BY SignalsAssumption
<1>2. o.count \in 1..Len(Devices)  BY DEF Understood
<1>3. PICK n : n = o.count  OBVIOUS
<1>4. n \in Nat /\ n >= 1 /\ n <= Len(Devices)  BY <1>1, <1>2, <1>3
<1>5. Called(o) = SubSeq(Devices, 1, n)  BY <1>3 DEF Called
<1>6. Called(o) = [i \in 1..n |-> Devices[i]]
  <2>1. 1 \in 1..Len(Devices) + 1 /\ n \in 0..Len(Devices) /\ (n - 1) + 1 = n  BY <1>1, <1>4
  <2>2. SubSeq(Devices, 1, n) = [i \in 1..((n - 1) + 1) |-> Devices[1 + i - 1]]  BY <1>1, <1>4
  <2>3. \A i \in 1..n : 1 + i - 1 = i  BY <1>4
  <2>. QED BY <1>5, <2>1, <2>2, <2>3
<1>7. \A i \in 1..n : i \in DOMAIN Devices /\ Devices[i] \in Callees  BY <1>1, <1>4
<1>8. Called(o) \in Seq(Callees)
  <2>1. Called(o) \in [1..n -> Callees]  BY <1>6, <1>7
  <2>. QED BY <1>4, <2>1, SeqDef
<1>9. DOMAIN Called(o) = 1..n /\ Len(Called(o)) = n  BY <1>4, <1>6, <1>8
<1>10. \A i, j \in DOMAIN Devices : Devices[i] = Devices[j] => i = j  BY SignalsAssumption DEF IsInjective
<1>11. \A i, j \in 1..n : Called(o)[i] = Called(o)[j] => i = j
  <2> SUFFICES ASSUME NEW i \in 1..n, NEW j \in 1..n, Called(o)[i] = Called(o)[j] PROVE i = j  OBVIOUS
  <2>1. Devices[i] = Devices[j]  BY <1>6
  <2>. QED BY <1>7, <1>10, <2>1
<1>. QED BY <1>3, <1>4, <1>8, <1>9, <1>11

\* The keys of an offer are read by the device whose they are.
LEMMA KeysRead ==
  ASSUME NEW o, Understood(o), NEW d \in Range(Called(o))
  PROVE  LET keys == OfferKeys(KeysOf(o)) IN
         /\ IsList(keys) /\ Range(keys) # {} /\ \E k : keys = <<k>> /\ k.tag \in {"destination", "enc"}
         /\ \A kid \in Range(keys) : GotBy(kid, d) = <<EncNode(DeviceKey(d))>>
<1> DEFINE called == Called(o)
           keys == KeysOf(o)
           n == o.count
           E(i) == EncNode(DeviceKey(called[i]))
<1>1. n \in Nat /\ n >= 1 /\ DOMAIN called = 1..n /\ \A i, j \in 1..n : called[i] = called[j] => i = j  BY CalledIs
<1>2. DOMAIN keys = 1..n /\ Len(keys) = n /\ \A i \in 1..n : keys[i] = DeviceKey(called[i]) /\ keys[i].device = called[i]
  <2>1. DOMAIN keys = 1..n /\ \A i \in 1..n : keys[i] = DeviceKey(called[i])  BY <1>1 DEF KeysOf
  <2>2. \A x : DeviceKey(x).device = x  BY DEF DeviceKey
  <2>3. Len(keys) = n
    <3>1. keys \in [1..n -> Range(keys)]  BY <2>1 DEF Range, KeysOf
    <3>2. keys \in Seq(Range(keys))  BY <1>1, <3>1, SeqDef
    <3> HIDE DEF keys
    <3>. QED BY <1>1, <2>1, <3>2
  <2>. QED BY <2>1, <2>2, <2>3
<1>3. PICK j \in 1..n : called[j] = d  BY <1>1 DEF Range
<1> HIDE DEF called, keys, n
<1>4. EncNode(DeviceKey(d)).tag = "enc"  BY NodeParts DEF EncNode
<1>5. CASE n <= 1
  <2>1. n = 1 /\ j = 1  BY <1>1, <1>3, <1>5
  <2>2. OfferKeys(keys) = [i \in DOMAIN keys |-> EncNode(keys[i])]  BY <1>2, <1>5 DEF OfferKeys
  <2>3. keys[1] = DeviceKey(d)  BY <1>2, <1>3, <2>1
  <2> DEFINE e == EncNode(DeviceKey(d))
  <2>4. OfferKeys(keys) = [i \in 1..1 |-> e]  BY <1>2, <2>1, <2>2, <2>3
  <2> HIDE DEF e
  <2>5. OfferKeys(keys) = <<e>>  BY <2>4
  <2>6. IsList(<<e>>) /\ Range(<<e>>) = {e}  BY ListOfOne
  <2>7. GotBy(e, d) = <<e>>  BY <1>4 DEF GotBy, e
  <2>8. e.tag \in {"destination", "enc"}  BY <1>4 DEF e
  <2>. QED BY <2>5, <2>6, <2>7, <2>8 DEF e, keys
<1>6. CASE n > 1
  <2> DEFINE To(i) == Parent("to", {<<"jid", keys[i].device>>}, <<EncNode(keys[i])>>)
             tos == [i \in DOMAIN keys |-> To(i)]
             dest == Parent("destination", NoAttrs, tos)
  <2>1. OfferKeys(keys) = <<dest>>
    <3>1. ~(Len(keys) <= 1)  BY <1>1, <1>2, <1>6
    <3>. QED BY <3>1 DEF OfferKeys
  <2>2. dest.tag = "destination" /\ dest.kids = tos
    <3> HIDE DEF tos
    <3>. QED BY ParentIs
  <2>3. ASSUME NEW i \in 1..n PROVE Attr(tos[i], "jid") = called[i] /\ tos[i].kids = <<EncNode(keys[i])>>
    <3>1. tos[i] = To(i) /\ keys[i].device = called[i]  BY <1>2
    <3> DEFINE attrs == {<<"jid", keys[i].device>>}
               kids == <<EncNode(keys[i])>>
    <3>2. <<"jid", called[i]>> \in attrs /\ \A a \in attrs : a[1] = "jid" => a[2] = called[i]  BY <3>1
    <3>3. To(i) = Parent("to", attrs, kids)  OBVIOUS
    <3> HIDE DEF attrs, kids, To, tos, dest
    <3>4. Attr(To(i), "jid") = called[i]  BY <3>2, <3>3, ParentAttr
    <3>5. To(i).kids = kids  BY <3>3, ParentIs
    <3>. QED BY <3>1, <3>4, <3>5 DEF kids
  <2>4. DOMAIN tos = 1..n  BY <1>2
  <2> DEFINE Mine(i) == Attr(tos[i], "jid") = d
  <2> HIDE DEF tos, dest, To
  <2>5. PICK i : i = CHOOSE x \in DOMAIN tos : Mine(x)  OBVIOUS
  <2>6. i \in 1..n /\ Attr(tos[i], "jid") = d
    <3>1. j \in DOMAIN tos /\ Mine(j)  BY <1>3, <2>3, <2>4
    <3> HIDE DEF Mine
    <3>2. i \in DOMAIN tos /\ Mine(i)  BY <2>5, <3>1
    <3>. QED BY <2>4, <3>2 DEF Mine
  <2>7. called[i] = d  BY <2>3, <2>6
  <2>8. OwnOf(dest, d) = tos[i].kids  BY <2>2, <2>5 DEF OwnOf
  <2>9. GotBy(dest, d) = <<EncNode(DeviceKey(d))>>
    <3>1. keys[i] = DeviceKey(d)  BY <1>2, <2>6, <2>7
    <3>. QED BY <2>2, <2>3, <2>6, <2>8, <3>1 DEF GotBy
  <2>10. IsList(<<dest>>) /\ Range(<<dest>>) = {dest}  BY ListOfOne
  <2>11. dest.tag \in {"destination", "enc"}  BY <2>2
  <2>. QED BY <2>1, <2>9, <2>10, <2>11 DEF keys
<1>. QED BY <1>1, <1>5, <1>6

-----------------------------------------------------------------------------
(* The order in which the server wants the parts of an offer.              *)

\* The place of a tag in that order.
RankOf(tag) == CHOOSE i \in DOMAIN OfferOrder : OfferOrder[i] = tag

\* The ranks, one by one.
LEMMA RankIs ==
  /\ RankOf("privacy") = 1 /\ RankOf("audio") = 2 /\ RankOf("video") = 3 /\ RankOf("net") = 4
  /\ RankOf("capability") = 5 /\ RankOf("destination") = 6 /\ RankOf("enc") = 7 /\ RankOf("encopt") = 8
  /\ RankOf("device-identity") = 9
<1> DEFINE order == OfferOrder
<1>1. /\ DOMAIN order = 1..9 /\ order[1] = "privacy" /\ order[2] = "audio" /\ order[3] = "video" /\ order[4] = "net"
      /\ order[5] = "capability" /\ order[6] = "destination" /\ order[7] = "enc" /\ order[8] = "encopt"
      /\ order[9] = "device-identity"
  BY DEF OfferOrder
<1> HIDE DEF order
<1>2. \A i, j \in 1..9 : order[i] = order[j] => i = j  BY <1>1
<1>3. ASSUME NEW n \in 1..9 PROVE RankOf(order[n]) = n
  <2>1. PICK r : r = RankOf(order[n])  OBVIOUS
  <2>2. n \in DOMAIN order /\ order[n] = order[n]  BY <1>1
  <2>3. r \in DOMAIN order /\ order[r] = order[n]  BY <2>1, <2>2 DEF RankOf, order
  <2>. QED BY <1>1, <1>2, <2>1, <2>3
<1>. QED BY <1>1, <1>3

\* Nodes in that order, of ranks between two.
Sorted(s, low, high) ==
  /\ IsList(s) /\ \A k \in Range(s) : RankOf(k.tag) \in low..high
  /\ \A i \in 1..(Len(s) - 1) : RankOf(s[i].tag) <= RankOf(s[i + 1].tag)

\* Nodes of one rank are in order, and nodes behind others of lower ranks.
LEMMA SortedOne ==
  ASSUME NEW s, IsList(s), NEW r \in Nat, \A k \in Range(s) : RankOf(k.tag) = r
  PROVE  Sorted(s, r, r)
<1>1. Len(s) \in Nat /\ DOMAIN s = 1..Len(s)  BY DEF IsList
<1>2. \A i \in 1..Len(s) : RankOf(s[i].tag) = r  BY <1>1 DEF Range
<1>3. \A i \in 1..(Len(s) - 1) : i \in 1..Len(s) /\ i + 1 \in 1..Len(s)  BY <1>1
<1>. QED BY <1>2, <1>3 DEF Sorted

LEMMA SortedJoin ==
  ASSUME NEW s, NEW t, NEW a \in Nat, NEW b \in Nat, NEW c \in Nat, NEW d \in Nat,
         Sorted(s, a, b), Sorted(t, c, d), a <= b, b <= c, c <= d
  PROVE  Sorted(s \o t, a, d)
<1> DEFINE u == s \o t
<1>1. IsList(s) /\ IsList(t)  BY DEF Sorted
<1>2. IsList(u) /\ Range(u) = Range(s) \cup Range(t)  BY <1>1, ListsJoin
<1>3. /\ Len(s) \in Nat /\ Len(t) \in Nat /\ DOMAIN s = 1..Len(s) /\ DOMAIN t = 1..Len(t)
      /\ Len(u) = Len(s) + Len(t)
      /\ \A i \in 1..Len(s) + Len(t) : u[i] = IF i <= Len(s) THEN s[i] ELSE t[i - Len(s)]
  BY <1>1, JoinedIs DEF IsList
<1> HIDE DEF u
<1>4. /\ \A i \in 1..Len(s) : RankOf(s[i].tag) \in a..b
      /\ \A i \in 1..Len(t) : RankOf(t[i].tag) \in c..d
  BY <1>3 DEF Sorted, Range
<1>5. ASSUME NEW i \in 1..(Len(u) - 1) PROVE RankOf(u[i].tag) <= RankOf(u[i + 1].tag)
  <2>0. i \in Nat /\ i \in 1..Len(s) + Len(t) /\ i + 1 \in 1..Len(s) + Len(t)  BY <1>3
  <2>1. CASE i + 1 <= Len(s)
    <3>1. u[i] = s[i] /\ u[i + 1] = s[i + 1] /\ i \in 1..(Len(s) - 1)  BY <1>3, <2>0, <2>1
    <3>. QED BY <3>1 DEF Sorted
  <2>2. CASE i = Len(s)
    <3>1. u[i] = s[i] /\ u[i + 1] = t[1] /\ i \in 1..Len(s) /\ 1 \in 1..Len(t)  BY <1>3, <2>0, <2>2
    <3>2. RankOf(s[i].tag) \in a..b /\ RankOf(t[1].tag) \in c..d  BY <1>4, <3>1
    <3>. QED BY <3>1, <3>2
  <2>3. CASE i > Len(s)
    <3>1. u[i] = t[i - Len(s)] /\ u[i + 1] = t[i - Len(s) + 1] /\ i - Len(s) \in 1..(Len(t) - 1)
      BY <1>3, <2>0, <2>3
    <3>2. PICK j : j = i - Len(s)  OBVIOUS
    <3>. QED BY <3>1, <3>2 DEF Sorted
  <2>4. i + 1 <= Len(s) \/ i = Len(s) \/ i > Len(s)  BY <1>3, <2>0
  <2>. QED BY <2>1, <2>2, <2>3, <2>4
<1>6. \A k \in Range(u) : RankOf(k.tag) \in a..d
  <2>1. a..b \subseteq a..d /\ c..d \subseteq a..d  OBVIOUS
  <2>. QED BY <1>2, <2>1 DEF Sorted
<1>. QED BY <1>2, <1>5, <1>6 DEF Sorted, u

-----------------------------------------------------------------------------
(* The parts of an offer.                                                  *)

\* What placeCall gives to buildOffer.
OfferParams(o) ==
  [callID |-> "call", to |-> PeerUser, callCreator |-> Caller, deviceKeys |-> KeysOf(o),
   privacyToken |-> IF o.early THEN <<"token">> ELSE <<>>, capability |-> CapabilityOffer,
   deviceIdentity |-> <<"identity">>, video |-> o.video]

\* A node that no reader of an offer looks for.
Aside(k) == k.kids = <<>> /\ k.tag \notin {"enc", "relay", "voip_settings", "destination", "video"}

\* Leaves of one kind.
Leaves(s, tag) == IsList(s) /\ \A k \in Range(s) : k.kids = <<>> /\ k.tag = tag

\* One leaf, one that may be there, and their order.
LEMMA LeavesOne == ASSUME NEW k, NEW tag, k.kids = <<>>, k.tag = tag PROVE Leaves(<<k>>, tag)
BY ListOfOne DEF Leaves

LEMMA LeavesWhen == ASSUME NEW condition, NEW k, NEW tag, k.kids = <<>>, k.tag = tag PROVE Leaves(When(condition, k), tag)
BY LeavesOne, ListOfNone DEF When, Leaves

LEMMA LeavesOpt == ASSUME NEW tag, NEW attrs, NEW content PROVE Leaves(Opt(tag, attrs, content), tag)
<1>1. Node(tag, attrs, <<>>, content).kids = <<>> /\ Node(tag, attrs, <<>>, content).tag = tag  BY NodeParts
<1>. QED BY <1>1, LeavesWhen DEF Opt

LEMMA LeavesSorted ==
  ASSUME NEW s, NEW tag, Leaves(s, tag), NEW r \in Nat, RankOf(tag) = r
  PROVE  Sorted(s, r, r)
BY SortedOne DEF Leaves

\* The <video> of an offer.
LEMMA VideoNode == VideoOfferNode.tag = "video" /\ VideoOfferNode.kids = <<>>
BY LeafIs DEF VideoOfferNode

\* buildOffer: its parts are in the order that the server wants.  They are the keys,
\* <video> if there is any, and others that no reader looks for.
LEMMA OfferParts ==
  ASSUME NEW o, Understood(o)
  PROVE  \E offer, others :
           /\ BuildOffer(OfferParams(o)) = CallWrap(PeerUser, offer)
           /\ IsNode(offer) /\ offer.tag = "offer" /\ offer.attrs = CallIDs(OfferParams(o)) /\ IsList(offer.kids)
           /\ InOrder(offer) /\ \A k \in others : Aside(k)
           /\ Range(offer.kids) = others \cup (IF o.video THEN {VideoOfferNode} ELSE {}) \cup Range(OfferKeys(KeysOf(o)))
<1> DEFINE p == OfferParams(o)
           privacy == Opt("privacy", NoAttrs, p.privacyToken)
           audio == Audio(<<8000, 16000>>)
           video == When(p.video, VideoOfferNode)
           net == <<Leaf("net", {<<"medium", 3>>})>>
           capability == Capability(OfferCapability(p.video, p.capability))
           keys == OfferKeys(p.deviceKeys)
           encopt == <<Encopt>>
           identity == Opt("device-identity", NoAttrs, p.deviceIdentity)
           kids == privacy \o audio \o video \o net \o capability \o keys \o encopt \o identity
           offer == Parent("offer", CallIDs(p), kids)
<1>1. BuildOffer(p) = CallWrap(p.to, offer)  BY DEF BuildOffer
<1>2. p.to = PeerUser /\ p.video = o.video /\ p.deviceKeys = KeysOf(o)  BY DEF OfferParams
<1>3. Leaves(privacy, "privacy") /\ Leaves(identity, "device-identity") /\ Leaves(capability, "capability")
  BY LeavesOpt DEF Capability
<1>4. Leaves(net, "net") /\ Leaves(encopt, "encopt")
  <2>1. Leaf("net", {<<"medium", 3>>}).tag = "net" /\ Leaf("net", {<<"medium", 3>>}).kids = <<>>  BY LeafIs
  <2>2. Encopt.tag = "encopt" /\ Encopt.kids = <<>>  BY LeafIs DEF Encopt
  <2>. QED BY <2>1, <2>2, LeavesOne
<1>5. Leaves(audio, "audio")
  <2> DEFINE a == AudioOpus(8000)
             b == AudioOpus(16000)
  <2>1. a.kids = <<>> /\ b.kids = <<>> /\ a.tag = "audio" /\ b.tag = "audio"  BY LeafIs DEF AudioOpus
  <2>2. audio = [i \in 1..2 |-> IF i = 1 THEN a ELSE b]
    <3>1. /\ DOMAIN <<8000, 16000>> = 1..2 /\ <<8000, 16000>>[1] = 8000 /\ <<8000, 16000>>[2] = 16000  OBVIOUS
    <3>2. \A i \in 1..2 : AudioOpus(<<8000, 16000>>[i]) = IF i = 1 THEN a ELSE b  BY <3>1
    <3>. QED BY <3>1, <3>2 DEF Audio
  <2> HIDE DEF a, b
  <2>3. audio = <<a, b>>  BY <2>2, TwoElements
  <2>4. IsList(<<a, b>>) /\ Range(<<a, b>>) = {a, b}  BY RangeOfPair DEF IsList
  <2> HIDE DEF audio
  <2>. QED BY <2>1, <2>3, <2>4 DEF Leaves
<1>6. Leaves(video, "video")  BY VideoNode, LeavesWhen
<1>9. IsList(video) /\ Range(video) = IF o.video THEN {VideoOfferNode} ELSE {}
  <2>1. IsList(<<VideoOfferNode>>) /\ Range(<<VideoOfferNode>>) = {VideoOfferNode}  BY ListOfOne
  <2>. QED BY <1>2, <2>1, ListOfNone DEF When
<1>10. IsList(keys) /\ Sorted(keys, 6, 7)
  <2>1. PICK d : d \in Range(Called(o))  BY CalledIs DEF Range
  <2>2. IsList(keys) /\ \E k : keys = <<k>> /\ k.tag \in {"destination", "enc"}  BY <1>2, <2>1, KeysRead
  <2>3. PICK k : keys = <<k>> /\ k.tag \in {"destination", "enc"}  BY <2>2
  <2>4. RankOf(k.tag) \in 6..7
    <3>1. RankOf("destination") = 6 /\ RankOf("enc") = 7  BY RankIs
    <3>. QED BY <2>3, <3>1
  <2>5. Range(keys) = {k} /\ Len(keys) = 1  BY <2>3, ListOfOne
  <2> HIDE DEF keys
  <2>6. \A i : i \notin 1..(Len(keys) - 1)  BY <2>5
  <2>. QED BY <2>2, <2>4, <2>5, <2>6 DEF Sorted
<1> HIDE DEF privacy, audio, video, net, capability, keys, encopt, identity
<1>11. /\ IsList(privacy) /\ IsList(audio) /\ IsList(net) /\ IsList(capability) /\ IsList(encopt) /\ IsList(identity)
       /\ \A k \in Range(privacy) \cup Range(audio) \cup Range(net) \cup Range(capability) \cup Range(encopt)
                     \cup Range(identity) : Aside(k)
  BY <1>3, <1>4, <1>5 DEF Leaves, Aside
<1>30. /\ Sorted(privacy, 1, 1) /\ Sorted(audio, 2, 2) /\ Sorted(video, 3, 3) /\ Sorted(net, 4, 4)
       /\ Sorted(capability, 5, 5) /\ Sorted(encopt, 8, 8) /\ Sorted(identity, 9, 9)
  BY <1>3, <1>4, <1>5, <1>6, RankIs, LeavesSorted
<1> DEFINE others == Range(privacy) \cup Range(audio) \cup Range(net) \cup Range(capability) \cup Range(encopt)
                     \cup Range(identity)
           k2 == privacy \o audio
           k3 == k2 \o video
           k4 == k3 \o net
           k5 == k4 \o capability
           k6 == k5 \o keys
           k7 == k6 \o encopt
<1>12. kids = k7 \o identity  OBVIOUS
<1> HIDE DEF kids
<1>13. IsList(k2) /\ Range(k2) = Range(privacy) \cup Range(audio)  BY <1>11, ListsJoin
<1>31. Sorted(k2, 1, 2)  BY <1>30, SortedJoin
<1> HIDE DEF k2
<1>14. IsList(k3) /\ Range(k3) = Range(k2) \cup Range(video)  BY <1>9, <1>13, ListsJoin
<1>32. Sorted(k3, 1, 3)  BY <1>10, <1>30, <1>31, SortedJoin
<1> HIDE DEF k3
<1>15. IsList(k4) /\ Range(k4) = Range(k3) \cup Range(net)  BY <1>11, <1>14, ListsJoin
<1>33. Sorted(k4, 1, 4)  BY <1>10, <1>30, <1>32, SortedJoin
<1> HIDE DEF k4
<1>16. IsList(k5) /\ Range(k5) = Range(k4) \cup Range(capability)  BY <1>11, <1>15, ListsJoin
<1>34. Sorted(k5, 1, 5)  BY <1>10, <1>30, <1>33, SortedJoin
<1> HIDE DEF k5
<1>17. IsList(k6) /\ Range(k6) = Range(k5) \cup Range(keys)  BY <1>10, <1>16, ListsJoin
<1>35. Sorted(k6, 1, 7)  BY <1>10, <1>30, <1>34, SortedJoin
<1> HIDE DEF k6
<1>18. IsList(k7) /\ Range(k7) = Range(k6) \cup Range(encopt)  BY <1>11, <1>17, ListsJoin
<1>36. Sorted(k7, 1, 8)  BY <1>10, <1>30, <1>35, SortedJoin
<1> HIDE DEF k7
<1>19. IsList(kids) /\ Range(kids) = Range(k7) \cup Range(identity)  BY <1>11, <1>12, <1>18, ListsJoin
<1>37. Sorted(kids, 1, 9)  BY <1>12, <1>30, <1>36, SortedJoin
<1>20. Range(kids) = others \cup Range(video) \cup Range(keys)
  BY <1>13, <1>14, <1>15, <1>16, <1>17, <1>18, <1>19
<1>21. IsNode(offer) /\ offer.tag = "offer" /\ offer.attrs = CallIDs(p) /\ offer.kids = kids  BY ParentIs
<1>38. InOrder(offer)  BY <1>21, <1>37 DEF Sorted, InOrder, RankOf
<1>22. \A k \in others : Aside(k)  BY <1>11
<1>23. Range(keys) = Range(OfferKeys(KeysOf(o)))  BY <1>2 DEF keys
<1> HIDE DEF others, offer, p
<1>. QED BY <1>1, <1>2, <1>9, <1>19, <1>20, <1>21, <1>22, <1>23, <1>38 DEF p

-----------------------------------------------------------------------------
(* The offer as a device reads it.                                         *)

\* What the server adds to an offer.
Added(o) == o.settings.nodes \o When(o.early, o.block.node)

LEMMA AddedIs ==
  ASSUME NEW o, Understood(o)
  PROVE  IsList(Added(o)) /\ Range(Added(o)) = Range(o.settings.nodes) \cup IF o.early THEN {o.block.node} ELSE {}
<1> DEFINE nodes == o.settings.nodes
           block == When(o.early, o.block.node)
<1>1. IsList(nodes)  BY SettingsFound DEF IsList
<1>2. IsList(block) /\ Range(block) = IF o.early THEN {o.block.node} ELSE {}
  BY ListOfOne, ListOfNone DEF When
<1> HIDE DEF nodes, block
<1>3. IsList(nodes \o block) /\ Range(nodes \o block) = Range(nodes) \cup Range(block)  BY <1>1, <1>2, ListsJoin
<1>. QED BY <1>2, <1>3 DEF Added, nodes, block

\* What the device of a called user finds in its offer.
LEMMA OfferReads ==
  ASSUME NEW o, Understood(o), NEW d \in Range(Called(o)), NEW n, n = BuildOffer(OfferParams(o)),
         NEW got, got = OfferFor(n.kids[1], d, Added(o))
  PROVE  /\ Wrapped(n, PeerUser, n.kids[1]) /\ InOrder(n.kids[1])
         /\ got.tag = "offer" /\ got.attrs = CallIDs(OfferParams(o))
         /\ ChildByTag(got, "enc") = <<EncNode(DeviceKey(d))>>
         /\ OfferHasVideo(got) = o.video
         /\ FindChild(got, "relay") = When(o.early, o.block.node)
         /\ FindChild(got, "voip_settings") = o.settings.nodes
<1>1. PICK offer, others :
           /\ n = CallWrap(PeerUser, offer)
           /\ IsNode(offer) /\ offer.tag = "offer" /\ offer.attrs = CallIDs(OfferParams(o)) /\ IsList(offer.kids)
           /\ InOrder(offer) /\ \A k \in others : Aside(k)
           /\ Range(offer.kids) = others \cup (IF o.video THEN {VideoOfferNode} ELSE {}) \cup Range(OfferKeys(KeysOf(o)))
  BY OfferParts
<1>2. n.kids[1] = offer /\ Wrapped(n, PeerUser, offer)  BY <1>1, ActionOf, CallWrapIs
<1> DEFINE inline == EncNode(DeviceKey(d))
           found == <<inline>>
           b == o.block.node
           nodes == o.settings.nodes
           video == IF o.video THEN {VideoOfferNode} ELSE {}
           keys == OfferKeys(KeysOf(o))
<1>3. inline.tag = "enc" /\ inline.kids = <<>>  BY NodeParts DEF EncNode
<1> HIDE DEF inline, keys
<1>4. Range(keys) # {} /\ \A kid \in Range(keys) : GotBy(kid, d) = found  BY KeysRead DEF keys, inline
<1>5. \A kid \in others \cup video : GotBy(kid, d) = <<kid>>  BY <1>1, VideoNode DEF Aside, GotBy
<1>6. \A k : IsList(<<k>>) /\ Range(<<k>>) = {k}  BY ListOfOne
<1>7. Range(offer.kids) = others \cup video \cup Range(keys)  BY <1>1 DEF keys
<1> HIDE DEF found, video
<1>8. \A kid \in Range(offer.kids) : IsList(GotBy(kid, d))  BY <1>4, <1>5, <1>6, <1>7 DEF found
<1>9. /\ IsNode(got) /\ got.tag = "offer" /\ got.attrs = CallIDs(OfferParams(o)) /\ IsList(got.kids)
      /\ \A x : x \in Range(got.kids) <=> x \in Range(Added(o)) \/ \E kid \in Range(offer.kids) : x \in Range(GotBy(kid, d))
  BY <1>1, <1>2, <1>8, AddedIs, OfferForIs
<1>10. Range(got.kids) = Range(Added(o)) \cup others \cup video \cup {inline}
  <2>1. Range(found) = {inline}  BY <1>6 DEF found
  <2>2. \A x : (\E kid \in Range(offer.kids) : x \in Range(GotBy(kid, d))) <=> x \in others \cup video \cup {inline}
    BY <1>4, <1>5, <1>6, <1>7, <2>1
  <2>. QED BY <1>9, <2>2
<1> DEFINE early == IF o.early THEN {b} ELSE {}
<1>11. Range(got.kids) = Range(nodes) \cup early \cup others \cup video \cup {inline}
  <2>1. Range(Added(o)) = Range(nodes) \cup early  BY AddedIs
  <2>. QED BY <1>10, <2>1
<1> HIDE DEF early
<1>12. ASSUME NEW k \in others \cup {inline}
       PROVE  /\ FindShallow(k, "relay") = <<>> /\ FindShallow(k, "voip_settings") = <<>> /\ Named(k, "video") = <<>>
              /\ k # inline => Named(k, "enc") = <<>>
  <2>1. k.kids = <<>> /\ k.tag \notin {"relay", "voip_settings", "video"} /\ (k # inline => k.tag # "enc")
    BY <1>1, <1>3 DEF Aside
  <2>2. FindShallow(k, "relay") = Named(k, "relay") /\ FindShallow(k, "voip_settings") = Named(k, "voip_settings")
    BY <2>1, LeafHasNone
  <2>. QED BY <2>1, <2>2 DEF Named, When
<1>13. ASSUME NEW k \in video
       PROVE  /\ FindShallow(k, "relay") = <<>> /\ FindShallow(k, "voip_settings") = <<>> /\ Named(k, "enc") = <<>>
              /\ Named(k, "video") = <<VideoOfferNode>>
  <2>1. k = VideoOfferNode /\ k.kids = <<>> /\ k.tag = "video"  BY VideoNode DEF video
  <2>2. FindShallow(k, "relay") = Named(k, "relay") /\ FindShallow(k, "voip_settings") = Named(k, "voip_settings")
    BY <2>1, LeafHasNone
  <2>. QED BY <2>1, <2>2 DEF Named, When
<1>14. /\ FindShallow(b, "relay") = <<b>> /\ FindShallow(b, "voip_settings") = <<>>
       /\ Named(b, "enc") = <<>> /\ Named(b, "video") = <<>>
  BY BlockFound
<1>15. \A s \in Range(nodes) :
         /\ nodes = <<s>> /\ FindShallow(s, "relay") = <<>> /\ FindShallow(s, "voip_settings") = <<s>>
         /\ Named(s, "enc") = <<>> /\ Named(s, "video") = <<>>
  BY SettingsFound
<1>16. \A k \in early : k = b /\ o.early  BY DEF early
<1>17. got.kids \in Seq(Range(got.kids))  BY <1>9 DEF IsList
<1>18. Named(inline, "enc") = found  BY <1>3 DEF Named, When, found
<1>19. ChildByTag(got, "enc") = found
  <2>1. \A k \in Range(got.kids) : Named(k, "enc") \in {<<>>, found}
    BY <1>11, <1>12, <1>13, <1>14, <1>15, <1>16, <1>18
  <2>2. ChildByTag(got, "enc") = IF \E k \in Range(got.kids) : Named(k, "enc") = found THEN found ELSE <<>>
    BY <1>17, <2>1, ChildIn
  <2>. QED BY <1>11, <1>18, <2>2
<1>20. OfferHasVideo(got) = o.video
  <2> DEFINE v == <<VideoOfferNode>>
  <2>1. \A k \in Range(got.kids) : Named(k, "video") = IF k \in video THEN v ELSE <<>>
    BY <1>11, <1>12, <1>13, <1>14, <1>15, <1>16
  <2>2. v # <<>>  OBVIOUS
  <2> HIDE DEF v
  <2>3. ChildByTag(got, "video") = IF \E k \in Range(got.kids) : Named(k, "video") = v THEN v ELSE <<>>
    BY <1>17, <2>1, ChildIn
  <2>4. o.video \in BOOLEAN  BY DEF Understood
  <2>5. (\E k \in Range(got.kids) : Named(k, "video") = v) <=> o.video
    BY <1>11, <2>1, <2>2 DEF video
  <2>. QED BY <2>2, <2>3, <2>4, <2>5 DEF OfferHasVideo
<1>21. FindChild(got, "relay") = When(o.early, b)
  <2> DEFINE v == <<b>>
  <2>1. \A k \in Range(got.kids) : FindShallow(k, "relay") = IF k \in early THEN v ELSE <<>>
    <3>1. \A k \in Range(nodes) : FindShallow(k, "relay") = <<>>  BY <1>15
    <3>2. \A k \in early : FindShallow(k, "relay") = v  BY <1>14, <1>16
    <3>. QED BY <1>11, <1>12, <1>13, <3>1, <3>2
  <2>2. v # <<>>  OBVIOUS
  <2> HIDE DEF v
  <2>3. FindChild(got, "relay") = IF \E k \in Range(got.kids) : FindShallow(k, "relay") = v THEN v ELSE <<>>
    BY <1>9, <1>17, <2>1, FindsIn
  <2>4. (\E k \in Range(got.kids) : FindShallow(k, "relay") = v) <=> o.early
    BY <1>11, <2>1, <2>2 DEF early
  <2>. QED BY <2>3, <2>4 DEF When, v
<1>22. FindChild(got, "voip_settings") = nodes
  <2>1. \A k \in Range(got.kids) : FindShallow(k, "voip_settings") = IF k \in Range(nodes) THEN nodes ELSE <<>>
    <3>1. \A k \in Range(nodes) : FindShallow(k, "voip_settings") = nodes  BY <1>15
    <3>2. \A k \in early : FindShallow(k, "voip_settings") = <<>>  BY <1>14, <1>16
    <3>. QED BY <1>11, <1>12, <1>13, <3>1, <3>2
  <2>2. nodes = <<>> \/ Range(nodes) # {}
    <3>1. nodes \in Seq(Range(nodes)) /\ (nodes = <<>> \/ \E s : nodes = <<s>>)  BY SettingsFound
    <3>2. \A s : Range(<<s>>) = {s}  BY <1>6
    <3> HIDE DEF nodes
    <3>. QED BY <3>1, <3>2
  <2> HIDE DEF nodes
  <2>3. FindChild(got, "voip_settings")
          = IF \E k \in Range(got.kids) : FindShallow(k, "voip_settings") = nodes THEN nodes ELSE <<>>
    <3>1. \A k \in Range(got.kids) : FindShallow(k, "voip_settings") \in {<<>>, nodes}  BY <2>1
    <3>2. got.tag # "voip_settings"  BY <1>9
    <3>. QED BY <1>17, <3>1, <3>2, FindsIn
  <2>4. CASE nodes = <<>>  BY <2>3, <2>4
  <2>5. CASE Range(nodes) # {}
    <3>1. PICK k : k \in Range(nodes)  BY <2>5
    <3>2. k \in Range(got.kids) /\ FindShallow(k, "voip_settings") = nodes  BY <1>11, <2>1, <3>1
    <3>. QED BY <2>3, <3>2
  <2>. QED BY <2>2, <2>4, <2>5
<1>. QED BY <1>1, <1>2, <1>9, <1>19, <1>20, <1>21, <1>22 DEF found, inline

\* What an offer means, as the device gets it.
OfferMeans(o) ==
  <<[key |-> <<"key">>, video |-> o.video, creator |-> Caller, from |-> Caller,
     codec |-> o.settings.codec, allocation |-> IF o.early THEN o.block.means ELSE NoAllocation]>>

OfferTo(o, d) ==
  LET n == BuildOffer(OfferParams(o)) IN
  [to |-> d, node |-> WithAttr(Rewrap(n, OfferFor(n.kids[1], d, Added(o))), "from", Caller), means |-> OfferMeans(o)]

\* The offer says what it means to each device that is rung.
LEMMA OfferSpeaks ==
  ASSUME NEW o, Understood(o), NEW d \in Range(Called(o))
  PROVE  SaysOffer(OfferTo(o, d), o) /\ OfferTo(o, d).to = d
<1> DEFINE p == OfferParams(o)
           n == BuildOffer(p)
           got == OfferFor(n.kids[1], d, Added(o))
           w == Rewrap(n, got)
           m == OfferTo(o, d)
           means == OfferMeans(o)
           inline == EncNode(DeviceKey(d))
<1>1. /\ Wrapped(n, PeerUser, n.kids[1])
      /\ got.tag = "offer" /\ got.attrs = CallIDs(p)
      /\ ChildByTag(got, "enc") = <<inline>>
      /\ OfferHasVideo(got) = o.video
      /\ FindChild(got, "relay") = When(o.early, o.block.node)
      /\ FindChild(got, "voip_settings") = o.settings.nodes
  BY OfferReads
<1>2. m = [to |-> d, node |-> WithAttr(w, "from", Caller), means |-> means]  BY DEF OfferTo
<1>3. p.callCreator = Caller /\ CallIDs(p) = {<<"call-id", p.callID>>, <<"call-creator", p.callCreator>>}
  BY DEF OfferParams, CallIDs
<1> HIDE DEF got, n, p
<1>4. Wrapped(w, PeerUser, got)  BY <1>1, RewrappedIs
<1>5. d \in Callees /\ d \in Ends
  <2>1. Range(Called(o)) \subseteq Callees  BY CalledIs, InRange
  <2>. QED BY <2>1 DEF Ends
<1> HIDE DEF w, means
<1>6. m.to = d /\ m.means = means /\ PassedOn(m, Caller, w, means)  BY <1>2, <1>5 DEF PassedOn
<1> HIDE DEF m
<1>7. Is(m, got.tag) /\ Action(m) = got /\ Sender(m) = Caller  BY <1>4, <1>6, PassedOnIs
<1>8. /\ Attr(got, "is_call_ended") # "1" /\ Attr(got, "terminate_reason") = "" /\ Attr(got, "call-creator") = Caller
  <2>1. Attr(got, "is_call_ended") = "" /\ Attr(got, "terminate_reason") = ""
    <3>1. \A a \in got.attrs : a[1] # "is_call_ended" /\ a[1] # "terminate_reason"  BY <1>1, <1>3
    <3>. QED BY <3>1, NoValue
  <2>2. Attr(got, "call-creator") = Caller
    <3>1. <<"call-creator", Caller>> \in got.attrs /\ \A a \in got.attrs : a[1] = "call-creator" => a[2] = Caller
      BY <1>1, <1>3
    <3>. QED BY <3>1, ValueIs
  <2>. QED BY <2>1, <2>2
<1>9. Creator(m) = Caller  BY <1>7, <1>8 DEF Creator, Action
<1>10. DecryptInboundCallKey(got, d) = <<"key">>
  <2> DEFINE secret == [device |-> d, key |-> <<"key">>]
             content == <<secret>>
  <2>1. inline.content = content  BY NodeParts DEF EncNode, DeviceKey
  <2>2. content[1] = secret /\ secret.device = d /\ secret.key = <<"key">>  OBVIOUS
  <2> HIDE DEF inline, content, secret
  <2>3. <<inline>> # <<>> /\ <<inline>>[1] = inline  OBVIOUS
  <2> DEFINE found == <<inline>>
  <2>4. found # <<>> /\ found[1] = inline /\ ChildByTag(got, "enc") = found  BY <1>1, <2>3
  <2> HIDE DEF found
  <2>. QED BY <2>1, <2>2, <2>4 DEF DecryptInboundCallKey
<1>11. SaysOffer(m, o)
  BY <1>1, <1>5, <1>6, <1>7, <1>8, <1>9, <1>10 DEF SaysOffer, means, OfferMeans
<1>. QED BY <1>6, <1>11 DEF m

\* The ack of an offer in order.
AckOf(o) ==
  [to |-> Caller, node |-> AckNode(<<o.block.node>> \o o.settings.nodes),
   means |-> <<[codec |-> o.settings.codec, allocation |-> o.block.means]>>]

\* It says what it means.
LEMMA AckSpeaks ==
  ASSUME NEW o, Understood(o)
  PROVE  SaysAck(AckOf(o), o) /\ ~Rings(AckOf(o))
<1> DEFINE b == o.block.node
           nodes == o.settings.nodes
           kids == <<b>> \o nodes
           attrs == {<<"class", "call">>, <<"type", "offer">>}
           n == Parent("ack", attrs, kids)
           m == AckOf(o)
           means == <<[codec |-> o.settings.codec, allocation |-> o.block.means]>>
<1>1. m = [to |-> Caller, node |-> n, means |-> means]  BY DEF AckOf, AckNode
<1>2. \A a \in attrs : a[1] # "error"  OBVIOUS
<1>3. /\ FindShallow(b, "relay") = <<b>> /\ FindShallow(b, "voip_settings") = <<>> /\ b.tag = "relay"
  BY BlockFound
<1>4. /\ IsList(nodes) /\ (nodes = <<>> \/ \E s : nodes = <<s>>)
      /\ \A s \in Range(nodes) :
           /\ nodes = <<s>> /\ FindShallow(s, "relay") = <<>> /\ FindShallow(s, "voip_settings") = <<s>>
  BY SettingsFound DEF IsList
<1> HIDE DEF b, nodes, means
<1>5. IsList(<<b>>) /\ Range(<<b>>) = {b}  BY ListOfOne
<1>6. IsList(kids) /\ Range(kids) = {b} \cup Range(nodes)
  <2> DEFINE one == <<b>>
  <2>1. IsList(one) /\ Range(one) = {b}  BY <1>5
  <2> HIDE DEF one
  <2>2. IsList(one \o nodes) /\ Range(one \o nodes) = Range(one) \cup Range(nodes)  BY <1>4, <2>1, ListsJoin
  <2>. QED BY <2>1, <2>2 DEF one
<1>7. kids[1] = b
  <2> DEFINE U == {b} \cup Range(nodes)
             one == <<b>>
  <2>1. one \in Seq(U) /\ Len(one) = 1 /\ one[1] = b  OBVIOUS
  <2>2. nodes \in Seq(U)  BY <1>4, SeqMonotonic DEF IsList
  <2> HIDE DEF U, one
  <2>3. Len(nodes) \in Nat  BY <2>2
  <2>4. 1 \in 1..(Len(one) + Len(nodes)) /\ 1 <= Len(one)  BY <2>1, <2>3
  <2>5. (one \o nodes)[1] = one[1]
    <3>1. \A i \in 1..(Len(one) + Len(nodes)) : (one \o nodes)[i] = IF i <= Len(one) THEN one[i] ELSE nodes[i - Len(one)]
      BY <2>1, <2>2, ConcatProperties
    <3>. QED BY <2>4, <3>1
  <2>. QED BY <2>1, <2>5 DEF one
<1> HIDE DEF kids, attrs
<1>8. n.tag = "ack" /\ n.kids = kids /\ ~Has(n, "error")
  <2>1. n.tag = "ack" /\ n.kids = kids /\ n.attrs = attrs  BY ParentIs
  <2> HIDE DEF n
  <2>2. ~Has(n, "error")  BY <1>2, <2>1, NoValue
  <2>. QED BY <2>1, <2>2
<1> HIDE DEF n
<1>9. n.kids \in Seq(Range(n.kids)) /\ Range(n.kids) = {b} \cup Range(nodes)  BY <1>6, <1>8 DEF IsList
<1>10. FindChild(n, "relay") = <<b>>
  <2> DEFINE v == <<b>>
  <2>1. FindShallow(b, "relay") = v  BY <1>3
  <2> HIDE DEF v
  <2>2. \A k \in Range(n.kids) : FindShallow(k, "relay") \in {<<>>, v}  BY <1>4, <1>9, <2>1
  <2>3. n.tag # "relay"  BY <1>8
  <2>4. FindChild(n, "relay") = IF \E k \in Range(n.kids) : FindShallow(k, "relay") = v THEN v ELSE <<>>
    BY <1>9, <2>2, <2>3, FindsIn
  <2>5. FindChild(n, "relay") = v  BY <1>9, <2>1, <2>4
  <2>. QED BY <2>5 DEF v
<1>11. FindChild(n, "voip_settings") = nodes
  <2>1. \A k \in Range(n.kids) : FindShallow(k, "voip_settings") \in {<<>>, nodes}  BY <1>3, <1>4, <1>9
  <2>2. n.tag # "voip_settings"  BY <1>8
  <2>3. FindChild(n, "voip_settings")
          = IF \E k \in Range(n.kids) : FindShallow(k, "voip_settings") = nodes THEN nodes ELSE <<>>
    BY <1>9, <2>1, <2>2, FindsIn
  <2>4. CASE nodes = <<>>  BY <2>3, <2>4
  <2>5. ASSUME NEW s, nodes = <<s>> PROVE FindChild(n, "voip_settings") = nodes
    <3>1. Range(<<s>>) = {s}  BY ListOfOne
    <3>2. s \in Range(nodes)  BY <2>5, <3>1
    <3>3. s \in Range(n.kids) /\ FindShallow(s, "voip_settings") = nodes  BY <1>4, <1>9, <3>2
    <3>. QED BY <2>3, <3>3
  <2>. QED BY <1>4, <2>4, <2>5
<1>12. m.to = Caller /\ m.node = n /\ m.means = means  BY <1>1
<1> HIDE DEF m
<1>13. Action(m) = b  BY <1>7, <1>8, <1>12 DEF Action
<1>14. SaysAck(m, o)
  BY <1>3, <1>8, <1>10, <1>11, <1>12, <1>13 DEF SaysAck, b, nodes, means
<1>15. ~Rings(m)  BY <1>3, <1>13 DEF Rings
<1>. QED BY <1>14, <1>15 DEF m

-----------------------------------------------------------------------------
(* The call is placed.                                                     *)

\* An offer in order is acknowledged, and passed on.
Starts(out, o) ==
  /\ out \in Seq(Range(out)) /\ out # <<>> /\ SaysAck(out[1], o)
  /\ \A i \in DOMAIN out : Says(out[i], o)
  /\ \A i, j \in DOMAIN out : Rings(out[i]) /\ Rings(out[j]) /\ out[i].to = out[j].to => i = j

\* The offers, one for each device.
OffersTo(o) == [i \in DOMAIN Called(o) |-> OfferTo(o, Called(o)[i])]

\* The server answers and passes on just that.
LEMMA OfferStarts ==
  ASSUME NEW o, Understood(o)
  PROVE  Starts(<<AckOf(o)>> \o OffersTo(o), o)
<1> DEFINE called == Called(o)
           ack == AckOf(o)
           offers == OffersTo(o)
           one == <<ack>>
           out == one \o offers
           n == o.count
<1>1. SaysAck(ack, o) /\ ~Rings(ack)  BY AckSpeaks
<1>2. n \in Nat /\ DOMAIN called = 1..n /\ \A i, j \in 1..n : called[i] = called[j] => i = j  BY CalledIs
<1>3. DOMAIN offers = 1..n /\ \A i \in 1..n : offers[i] = OfferTo(o, called[i])  BY <1>2 DEF OffersTo
<1>4. \A i \in 1..n : SaysOffer(offers[i], o) /\ offers[i].to = called[i]
  <2>1. \A i \in 1..n : called[i] \in Range(called)  BY <1>2 DEF Range
  <2>. QED BY <1>3, <2>1, OfferSpeaks
<1>5. IsList(offers)
  <2>1. offers \in [1..n -> Range(offers)]  BY <1>3 DEF Range, OffersTo
  <2> HIDE DEF offers, n
  <2>. QED BY <1>2, <2>1, SeqDef DEF IsList
<1>6. one \in Seq(Range(one)) /\ Len(one) = 1 /\ one[1] = ack /\ DOMAIN one = 1..1
  <2>1. IsList(one)  BY ListOfOne
  <2>. QED BY <2>1 DEF IsList
<1> HIDE DEF ack, called, offers, one, n
<1>7. /\ out \in Seq(Range(out)) /\ Len(one) \in Nat /\ Len(offers) \in Nat /\ DOMAIN offers = 1..Len(offers)
      /\ Len(out) = Len(one) + Len(offers) /\ DOMAIN out = 1..Len(one) + Len(offers)
      /\ \A i \in 1..Len(one) + Len(offers) : out[i] = IF i <= Len(one) THEN one[i] ELSE offers[i - Len(one)]
  BY <1>5, <1>6, JoinedIs DEF IsList
<1> HIDE DEF out
<1>8. Len(offers) = n
  <2>1. Len(offers) = n \/ Len(offers) # n  OBVIOUS
  <2>. QED BY <1>2, <1>3, <1>7
<1>9. /\ DOMAIN out = 1..1 + n /\ out[1] = ack
      /\ \A i \in 1..1 + n : i # 1 => i - 1 \in 1..n /\ out[i] = offers[i - 1]
  BY <1>2, <1>6, <1>7, <1>8
<1>10. out # <<>>
  <2>1. 1 \in DOMAIN out  BY <1>2, <1>9
  <2>. QED BY <2>1
<1>11. \A i \in DOMAIN out : Says(out[i], o)
  BY <1>1, <1>4, <1>9 DEF Says
<1>12. ASSUME NEW i \in DOMAIN out, NEW j \in DOMAIN out, Rings(out[i]), Rings(out[j]), out[i].to = out[j].to
       PROVE  i = j
  <2>1. i # 1 /\ j # 1  BY <1>1, <1>9, <1>12
  <2>2. i - 1 \in 1..n /\ j - 1 \in 1..n /\ out[i] = offers[i - 1] /\ out[j] = offers[j - 1] /\ i \in Nat /\ j \in Nat
    BY <1>2, <1>9, <2>1
  <2>3. called[i - 1] = called[j - 1]  BY <1>4, <1>12, <2>2
  <2>4. i - 1 = j - 1  BY <1>2, <2>2, <2>3
  <2>. QED BY <2>2, <2>4
<1>13. Starts(out, o)  BY <1>1, <1>7, <1>9, <1>10, <1>11, <1>12 DEF Starts
<1>. QED BY <1>13 DEF out, one, ack, offers

\* PlaceCall: from then on the call is one.
LEMMA PlaceKeeps ==
  ASSUME NEW o \in Offers, PlaceCall(o), DOMAIN ends = Ends, \A d \in Ends : ends[d] = NoCall, wire = <<>>
  PROVE  OneCall(o)'
<1> DEFINE p == OfferParams(o)
           n == BuildOffer(p)
           entry == [NoCall EXCEPT !.phase = "calling", !.callKey = <<"key">>, !.selfLID = Caller,
                                   !.peerLID = PeerUser, !.creator = Caller, !.from = PeerUser,
                                   !.direction = "outgoing", !.localVideo = o.video, !.remoteVideo = o.video]
           refusal == [AckOf(o) EXCEPT !.node = ErrorAck("439")]
           said == <<AckOf(o)>> \o OffersTo(o)
           out == IF InOrder(n.kids[1]) THEN said ELSE <<refusal>>
<1>1. Understood(o)  BY OffersAssumption
<1>2. Signal(Caller, entry, out)
  BY DEF PlaceCall, OfferParams, KeysOf, DeviceKey, Called, OffersTo, OfferTo, OfferMeans, Rewrap, Added, AckOf
<1>3. InOrder(n.kids[1])
  <2>1. PICK d : d \in Range(Called(o))  BY <1>1, CalledIs DEF Range
  <2>. QED BY <1>1, <2>1, OfferReads
<1>4. Starts(said, o)  BY <1>1, OfferStarts
<1>5. KeepsCall(Caller, entry, o) /\ entry.from = PeerUser
  <2>1. /\ DOMAIN entry = DOMAIN NoCall /\ entry.callKey = <<"key">> /\ entry.selfLID = Caller /\ entry.creator = Caller
        /\ entry.relay = NoRelay /\ entry.media = <<>> /\ entry.direction = "outgoing"
        /\ entry.acceptPending = FALSE /\ entry.codec = "mlow" /\ entry.from = PeerUser /\ entry.peerLID = PeerUser
    BY DEF NoCall
  <2> HIDE DEF entry
  <2>. QED BY <2>1 DEF KeepsCall
<1> HIDE DEF entry, said, n
<1>6. ends' = [ends EXCEPT ![Caller] = entry] /\ wire' = wire \o said
  BY <1>2, <1>3 DEF Signal
<1>7. wire' = said  BY <1>4, <1>6, ConcatEmptySeq DEF Starts
<1>8. DOMAIN ends' = Ends /\ \A d \in Ends : ends'[d] = IF d = Caller THEN entry ELSE NoCall
  BY <1>6
<1>9. \A d \in Ends : Entry(d, ends'[d], o)  BY <1>5, <1>8 DEF Entry
<1>10. /\ wire' \in Seq(Range(wire')) /\ wire' # <<>> /\ SaysAck(wire'[1], o) /\ \A i \in DOMAIN wire' : Says(wire'[i], o)
       /\ \A i, j \in DOMAIN wire' : Rings(wire'[i]) /\ Rings(wire'[j]) /\ wire'[i].to = wire'[j].to => i = j
  BY <1>4, <1>7 DEF Starts
<1>11. ASSUME NEW i \in DOMAIN wire', Rings(wire'[i]) PROVE ends'[wire'[i].to] = NoCall
  <2>1. SaysOffer(wire'[i], o) /\ wire'[i].to # Caller  BY <1>10, <1>11, RingsCallees
  <2>2. wire'[i].to \in Ends  BY <2>1 DEF SaysOffer, Is
  <2>. QED BY <1>8, <2>1, <2>2
<1>12. ends'[Caller].from = PeerUser
  <2>1. Caller \in Ends  BY DEF Ends
  <2>. QED BY <1>5, <1>8, <2>1
<1>. QED BY <1>8, <1>9, <1>10, <1>11, <1>12 DEF OneCall

-----------------------------------------------------------------------------
(* Steps keep the call one.                                                *)

\* What one call is, and that a call is placed before anything else or never.
CallInv ==
  /\ signals \in Nat /\ (\E o : OneCall(o)) /\ HandledAsMeant
  /\ signals = 0 => wire = <<>> /\ \A d \in Ends : ends[d] = NoCall

\* It holds before a call is placed.
LEMMA CallStarts == SignalsInit => CallInv
<1> SUFFICES ASSUME SignalsInit PROVE CallInv  OBVIOUS
<1>1. DOMAIN ends = Ends /\ (\A d \in Ends : ends[d] = NoCall) /\ wire = <<>> /\ signals = 0
  BY DEF SignalsInit
<1>2. Caller \in Ends  BY DEF Ends
<1>3. wire \in Seq(Range(wire)) /\ DOMAIN wire = {}
  <2>1. <<>> \in Seq(Range(<<>>))  BY RangeOfNone
  <2>2. DOMAIN <<>> = {}  OBVIOUS
  <2>. QED BY <1>1, <2>1, <2>2
<1>4. \A o : OneCall(o)  BY <1>1, <1>2, <1>3 DEF OneCall, Entry
<1>5. HandledAsMeant  BY DEF SignalsInit, HandledAsMeant
<1>. QED BY <1>1, <1>4, <1>5 DEF CallInv

\* A step of an application, a client or the server that leaves the entry alone.
LEMMA OnlySpeaks ==
  ASSUME NEW o, OneCall(o), NEW end \in Ends, NEW out, Signal(end, ends[end], out), Speaks(out, o)
  PROVE  OneCall(o)'
<1>1. Entry(end, ends[end], o)  BY DEF OneCall
<1>. QED BY <1>1, SignalKeeps

\* The caller's client and the server.
LEMMA CallerKeeps ==
  ASSUME NEW o, OneCall(o),
         \/ ServerRefuses \/ \E d \in Callees : ServerSaysOver(d)
         \/ \E d \in Callees, r \in Offers : CallerTransport(d, r)
         \/ \E latency \in Latencies : CallerProbes(latency)
         \/ \E state \in {"0", "1"} : CallerMutes(state)
         \/ \E d \in Callees : TakenElsewhere(d)
  PROVE  OneCall(o)'
<1>1. Caller \in Ends /\ (\A d \in Callees : d \in Ends) /\ Devices \in Seq(Ends)
  <2>1. Devices \in Seq(Callees) /\ Callees \subseteq Ends  BY SignalsAssumption DEF Ends
  <2>2. Devices \in Seq(Ends)  BY <2>1, SeqMonotonic
  <2>. QED BY <2>1, <2>2 DEF Ends
<1>2. Live(Caller) => KeepsCall(Caller, ends[Caller], o) /\ ends[Caller].from \in Ends \cup {PeerUser}
  <2>1. Live(Caller) => KeepsCall(Caller, ends[Caller], o)  BY <1>1 DEF OneCall, Entry, Live
  <2>. QED BY <2>1 DEF KeepsCall, Ends
<1>3. CASE ServerRefuses
  <2> DEFINE m == [to |-> Caller, node |-> ErrorAck("403"), means |-> <<"403">>]
  <2>1. Signal(Caller, ends[Caller], <<m>>)  BY <1>3 DEF ServerRefuses
  <2>2. Speaks(<<m>>, o)
    <3>1. PICK x : x = m  OBVIOUS
    <3>2. Speaks(<<x>>, o)  BY <3>1, ErrorSpeaks
    <3>. QED BY <3>1, <3>2
  <2> HIDE DEF m
  <2>. QED BY <1>1, <2>1, <2>2, OnlySpeaks
<1>4. ASSUME NEW d \in Callees, ServerSaysOver(d) PROVE OneCall(o)'
  <2> DEFINE m == [to |-> d, means |-> Nothing,
                   node |-> Parent("call", {<<"from", Caller>>}, <<Leaf("offer", {<<"is_call_ended", "1">>})>>)]
  <2>1. Signal(d, ends[d], <<m>>)  BY <1>4 DEF ServerSaysOver
  <2>2. Speaks(<<m>>, o)
    <3>1. PICK x : x = m  OBVIOUS
    <3>2. d \in Ends  BY <1>1
    <3>3. Speaks(<<x>>, o)  BY <3>1, <3>2, OverSpeaks
    <3>. QED BY <3>1, <3>3
  <2> HIDE DEF m
  <2>. QED BY <1>1, <2>1, <2>2, OnlySpeaks
<1>5. ASSUME NEW d \in Callees, NEW r \in Offers, CallerTransport(d, r) PROVE OneCall(o)'
  <2> DEFINE p == [callID |-> "call", to |-> d, callCreator |-> Caller, messageType |-> 9, relayTe |-> <<>>]
             node == BuildTransport(p)
             n == Rewrap(node, Adding(node.kids[1], r.block.node))
             out == Routed(Caller, n, <<r.block.means>>)
  <2>1. Signal(d, ends[d], out)  BY <1>5 DEF CallerTransport, Rewrap, Adding
  <2>2. Understood(r)  BY OffersAssumption
  <2>3. Block(r) \in {NoRelay, Block(o)}
    <3>1. Live(Caller) /\ ends[Caller].relay = Block(r)  BY <1>5 DEF CallerTransport, Block
    <3>. QED BY <1>2, <3>1 DEF KeepsCall
  <2>4. p.to = d /\ p.relayTe = <<>>  OBVIOUS
  <2> HIDE DEF p
  <2>5. Speaks(out, o)  BY <2>2, <2>3, <2>4, TransportSpeaks
  <2> HIDE DEF out
  <2>. QED BY <1>1, <2>1, <2>5, OnlySpeaks
<1>6. ASSUME NEW latency \in Latencies, CallerProbes(latency) PROVE OneCall(o)'
  <2> DEFINE probe == [latency |-> latency, relayName |-> "gru", address |-> <<10, 0, 0, 1, 3478, -1>>]
             p == [callID |-> "call", to |-> ends[Caller].from, callCreator |-> Caller, latency |-> latency,
                   relayName |-> probe.relayName, address |-> probe.address, devices |-> Devices]
             out == Routed(Caller, BuildRelayLatency(p), <<probe>>)
  <2>1. Signal(Caller, ends[Caller], out) /\ Live(Caller)  BY <1>6 DEF CallerProbes
  <2>2. latency \in Nat  BY SignalsAssumption
  <2>3. p.to \in {PeerUser} \cup Callees /\ p.devices \in Seq(Ends) /\ p.latency \in Nat
        /\ probe = [latency |-> p.latency, relayName |-> p.relayName, address |-> p.address]
    <3>1. ends[Caller].from \in {PeerUser} \cup Callees  BY <1>2, <2>1 DEF KeepsCall
    <3>. QED BY <1>1, <2>2, <3>1
  <2> HIDE DEF p, probe
  <2>4. Speaks(out, o)  BY <1>1, <2>3, ProbeSpeaks
  <2> HIDE DEF out
  <2>. QED BY <1>1, <2>1, <2>4, OnlySpeaks
<1>7. ASSUME NEW state, CallerMutes(state) PROVE OneCall(o)'
  <2> DEFINE p == [callID |-> "call", to |-> ends[Caller].from, callCreator |-> Caller, state |-> state]
             out == Routed(Caller, BuildMuteV2(p), <<[muted |-> p.state = "1"]>>)
  <2>1. Signal(Caller, ends[Caller], out) /\ Live(Caller)  BY <1>7 DEF CallerMutes
  <2>2. p.to \in Ends \cup {PeerUser}  BY <1>2, <2>1
  <2> HIDE DEF p
  <2>3. Speaks(out, o)  BY <2>2, MuteSpeaks
  <2> HIDE DEF out
  <2>. QED BY <1>1, <2>1, <2>3, OnlySpeaks
<1>8. ASSUME NEW d \in Callees, TakenElsewhere(d) PROVE OneCall(o)'
  <2> DEFINE p == TerminateParams(d, Caller, "accepted_elsewhere", <<d>>)
             out == Routed(Caller, BuildTerminate(p), <<p.reason>>)
  <2>1. p.to \in Ends \cup {PeerUser} /\ p.reason = "accepted_elsewhere"  BY <1>1 DEF TerminateParams
  <2>2. Signal(d, ends[d], out)
    <3>1. Signal(d, ends[d], Routed(Caller, BuildTerminate(p), <<"accepted_elsewhere">>))  BY <1>8 DEF TakenElsewhere
    <3>. QED BY <2>1, <3>1
  <2> HIDE DEF p
  <2>3. Speaks(out, o)  BY <2>1, TerminateSpeaks
  <2> HIDE DEF out
  <2>. QED BY <1>1, <2>2, <2>3, OnlySpeaks
<1>. QED BY <1>3, <1>4, <1>5, <1>6, <1>7, <1>8

\* Answer, Reject and Hangup.
LEMMA EndKeeps ==
  ASSUME NEW o, OneCall(o),
         \/ \E d \in Callees : Answer(d)
         \/ \E d \in Callees : Reject(d)
         \/ \E e \in Ends : Hangup(e)
  PROVE  OneCall(o)'
<1>1. \A d \in Callees : d \in Ends /\ d # Caller  BY SignalsAssumption DEF Ends
<1>2. ASSUME NEW d \in Ends, Live(d)
      PROVE  KeepsCall(d, ends[d], o) /\ ends[d].from \in Ends \cup {PeerUser} /\ ends[d] # NoCall
  <2>1. KeepsCall(d, ends[d], o) /\ ends[d] # NoCall  BY <1>2 DEF OneCall, Entry, Live
  <2>. QED BY <2>1 DEF KeepsCall, Ends
<1>3. ASSUME NEW d \in Callees, Answer(d) PROVE OneCall(o)'
  <2> DEFINE e == ends[d]
             f == [e EXCEPT !.acceptPending = TRUE, !.phase = "connecting"]
             entry == MaybeStartMedia(f)
             out == <<>>
  <2>1. Live(d) /\ Signal(d, entry, out)  BY <1>3 DEF Answer
  <2>2. KeepsCall(d, e, o) /\ e # NoCall /\ d # Caller /\ d \in Ends  BY <1>1, <1>2, <2>1
  <2>3. /\ DOMAIN f = DOMAIN NoCall /\ f.callKey = e.callKey /\ f.selfLID = e.selfLID /\ f.media = e.media
        /\ f.creator = e.creator /\ f.relay = e.relay /\ f.direction = e.direction /\ f.peerLID = e.peerLID
        /\ f.codec = e.codec /\ f.from = e.from
    <3>1. DOMAIN e = DOMAIN NoCall  BY <2>2 DEF KeepsCall
    <3> HIDE DEF e
    <3>. QED BY <3>1 DEF NoCall
  <2> HIDE DEF f
  <2>4. KeepsCall(d, f, o)
    <3> HIDE DEF e
    <3>. QED BY <2>2, <2>3 DEF KeepsCall
  <2>5. KeepsCall(d, entry, o) /\ entry.codec = e.codec /\ entry.from = e.from
    <3> HIDE DEF e
    <3>. QED BY <2>3, <2>4, MaybeStartMediaKeeps
  <2>6. Entry(d, entry, o)  BY <2>5 DEF Entry
  <2>7. Speaks(out, o)  BY SpeaksNothing
  <2> HIDE DEF entry, out
  <2>. QED BY <2>1, <2>2, <2>5, <2>6, <2>7, SignalKeeps
<1>4. ASSUME NEW d \in Callees, Reject(d) PROVE OneCall(o)'
  <2> DEFINE p == Params(ends[d])
             out == Routed(d, WithAttr(BuildReject(p), "id", "n1"), <<"rejected">>)
  <2>1. Live(d) /\ Signal(d, NoCall, out) /\ d \in Ends  BY <1>1, <1>4 DEF Reject
  <2>2. p.to \in Ends \cup {PeerUser}  BY <1>2, <2>1 DEF Params
  <2> HIDE DEF p
  <2>3. Speaks(out, o)  BY <2>2, RejectSpeaks
  <2>4. Entry(d, NoCall, o)  BY DEF Entry
  <2> HIDE DEF out
  <2>. QED BY <2>1, <2>3, <2>4, SignalKeeps
<1>5. ASSUME NEW d \in Ends, Hangup(d) PROVE OneCall(o)'
  <2> DEFINE p == TerminateParams(ends[d].from, ends[d].creator, "", <<>>)
             out == Routed(d, WithAttr(BuildTerminate(p), "id", "n2"), <<p.reason>>)
  <2>1. p.reason = "" /\ p.to = ends[d].from  BY DEF TerminateParams
  <2>2. Live(d) /\ Signal(d, NoCall, out)
    <3>1. Live(d) /\ Signal(d, NoCall, Routed(d, WithAttr(BuildTerminate(p), "id", "n2"), <<"">>))
      BY <1>5 DEF Hangup
    <3>. QED BY <2>1, <3>1
  <2>3. p.to \in Ends \cup {PeerUser}  BY <1>2, <2>1, <2>2
  <2> HIDE DEF p
  <2>4. Speaks(out, o)  BY <2>3, TerminateSpeaks
  <2>5. Entry(d, NoCall, o)  BY DEF Entry
  <2> HIDE DEF out
  <2>. QED BY <2>2, <2>4, <2>5, SignalKeeps
<1>. QED BY <1>3, <1>4, <1>5

\* Video changes nothing of the call.
LEMMA VideoKeeps ==
  ASSUME NEW o, OneCall(o), NEW end \in Ends,
         \/ \E t : TransitionVideo(end, t)
         \/ \E on : SetVideoEnabled(end, on)
         \/ \E turn : SetVideoOrientation(end, turn)
  PROVE  OneCall(o)'
<1> DEFINE e == ends[end]
<1>1. Live(end)  BY DEF TransitionVideo, SetVideoEnabled, SetVideoOrientation, InCall
<1>2. KeepsCall(end, e, o) /\ e # NoCall /\ e.from \in Ends \cup {PeerUser} /\ DOMAIN e = DOMAIN NoCall
  <2>1. KeepsCall(end, e, o) /\ e # NoCall  BY <1>1 DEF OneCall, Entry, Live
  <2>. QED BY <2>1 DEF KeepsCall, Ends
<1>3. \A state, how, turn : Speaks(SayVideo(end, e, state, how, turn), o)
  <2> HIDE DEF e
  <2>. QED BY <1>2, VideoSpeaks
<1>4. ASSUME NEW entry, SameCall(entry, e), NEW out, Speaks(out, o), Signal(end, entry, out)
      PROVE  OneCall(o)'
  <2>1. KeepsCall(end, entry, o) /\ entry.codec = e.codec /\ entry.from = e.from
    <3> HIDE DEF e
    <3>. QED BY <1>2, <1>4, SameCallKeeps DEF SameCall
  <2>2. Entry(end, entry, o)  BY <2>1 DEF Entry
  <2>. QED BY <1>2, <1>4, <2>1, <2>2, SignalKeeps
<1>5. ASSUME NEW local, NEW gate
      PROVE  SameCall([e EXCEPT !.localVideo = local, !.videoGate = gate], e) /\ SameCall(e, e)
  <2> HIDE DEF e
  <2>. QED BY <1>2 DEF SameCall, NoCall
<1>6. ASSUME NEW t, TransitionVideo(end, t) PROVE OneCall(o)'
  <2> DEFINE request == t = VideoStates.upgradeRequestV2
             on == t # VideoStates.stopped
             entry == [e EXCEPT !.localVideo = on, !.videoGate = request]
             one == SayVideo(end, e, t, IF request THEN "H264" ELSE "", 0)
             both == SayVideo(end, e, t, "H264,AV1", NoOrientation)
                       \o SayVideo(end, e, VideoStates.enabled, "", NoOrientation)
             out == IF t = VideoStates.upgradeAccept THEN both ELSE one
  <2>1. Signal(end, entry, out)  BY <1>6 DEF TransitionVideo
  <2>2. SameCall(entry, e)
    <3> HIDE DEF request, on
    <3>. QED BY <1>5
  <2>3. Speaks(one, o)
    <3> HIDE DEF request, e
    <3>. QED BY <1>3
  <2>4. Speaks(both, o)
    <3> HIDE DEF e
    <3>1. /\ Speaks(SayVideo(end, e, t, "H264,AV1", NoOrientation), o)
          /\ Speaks(SayVideo(end, e, VideoStates.enabled, "", NoOrientation), o)
      BY <1>3
    <3>. QED BY <3>1, SpeaksBoth
  <2> HIDE DEF one, both, entry, e
  <2>5. Speaks(out, o)  BY <2>3, <2>4
  <2> HIDE DEF out
  <2>. QED BY <1>4, <2>1, <2>2, <2>5
<1>7. ASSUME NEW on, SetVideoEnabled(end, on) PROVE OneCall(o)'
  <2> DEFINE entry == [e EXCEPT !.localVideo = on, !.videoGate = FALSE]
             yes == SayVideo(end, e, VideoStates.enabled, "H264", NoOrientation)
             no == SayVideo(end, e, VideoStates.disabled, "", NoOrientation)
             out == IF on THEN yes ELSE no
  <2>1. Signal(end, entry, out)  BY <1>7 DEF SetVideoEnabled
  <2>2. SameCall(entry, e)  BY <1>5
  <2>3. Speaks(yes, o) /\ Speaks(no, o)
    <3> HIDE DEF e
    <3>. QED BY <1>3
  <2> HIDE DEF yes, no, entry, e
  <2>4. Speaks(out, o)  BY <2>3
  <2> HIDE DEF out
  <2>. QED BY <1>4, <2>1, <2>2, <2>4
<1>8. ASSUME NEW turn, SetVideoOrientation(end, turn) PROVE OneCall(o)'
  <2> DEFINE out == SayVideo(end, e, VideoStates.enabled, "", turn)
  <2>1. Signal(end, e, out)  BY <1>8 DEF SetVideoOrientation
  <2>2. SameCall(e, e)  BY <1>5
  <2>3. Speaks(out, o)
    <3> HIDE DEF e
    <3>. QED BY <1>3
  <2> HIDE DEF out
  <2>. QED BY <1>4, <2>1, <2>2, <2>3
<1>. QED BY <1>6, <1>7, <1>8

\* No signal changes what was taken.
LEMMA SignalsKeepTaken ==
  ASSUME NEW end, NEW entry, NEW out, Signal(end, entry, out), HandledAsMeant, signals \in Nat
  PROVE  HandledAsMeant' /\ signals' \in Nat /\ signals' # 0
BY DEF Signal, HandledAsMeant

\* The invariant is inductive.
LEMMA CallContinues == CallInv /\ [SignalsNext]_signalVars => CallInv'
<1> SUFFICES ASSUME CallInv, [SignalsNext]_signalVars PROVE CallInv'  OBVIOUS
<1> PICK o : OneCall(o)  BY DEF CallInv
<1>1. signals \in Nat /\ HandledAsMeant /\ (signals = 0 => wire = <<>> /\ \A d \in Ends : ends[d] = NoCall)
  BY DEF CallInv
<1>2. ASSUME NEW r, OneCall(r)', HandledAsMeant', signals' \in Nat, signals' # 0 PROVE CallInv'
  BY <1>2 DEF CallInv
<1>3. CASE Handle
  <2>1. OneCall(o)' /\ HandledAsMeant'  BY <1>3, HandleKeeps
  <2>2. wire # <<>> /\ signals' = signals  BY <1>3 DEF Handle
  <2>. QED BY <1>1, <1>2, <2>1, <2>2
<1>4. ASSUME NEW r \in Offers, PlaceCall(r) PROVE CallInv'
  <2>1. signals = 0 /\ \E entry, out : Signal(Caller, entry, out)  BY <1>4 DEF PlaceCall
  <2>2. DOMAIN ends = Ends  BY DEF OneCall
  <2>3. OneCall(r)'  BY <1>1, <1>4, <2>1, <2>2, PlaceKeeps
  <2>. QED BY <1>1, <1>2, <2>1, <2>3, SignalsKeepTaken
<1>5. CASE \/ ServerRefuses \/ \E d \in Callees : ServerSaysOver(d)
           \/ \E d \in Callees, r \in Offers : CallerTransport(d, r)
           \/ \E latency \in Latencies : CallerProbes(latency)
           \/ \E state \in {"0", "1"} : CallerMutes(state)
           \/ \E d \in Callees : TakenElsewhere(d)
  <2>1. OneCall(o)'  BY <1>5, CallerKeeps
  <2>2. \E end, entry, out : Signal(end, entry, out)
    <3>1. ServerRefuses => \E end, entry, out : Signal(end, entry, out)  BY DEF ServerRefuses
    <3>2. \A d : ServerSaysOver(d) => \E end, entry, out : Signal(end, entry, out)  BY DEF ServerSaysOver
    <3>3. \A d, r : CallerTransport(d, r) => \E end, entry, out : Signal(end, entry, out)  BY DEF CallerTransport
    <3>4. \A latency : CallerProbes(latency) => \E end, entry, out : Signal(end, entry, out)  BY DEF CallerProbes
    <3>5. \A state : CallerMutes(state) => \E end, entry, out : Signal(end, entry, out)  BY DEF CallerMutes
    <3>6. \A d : TakenElsewhere(d) => \E end, entry, out : Signal(end, entry, out)  BY DEF TakenElsewhere
    <3>. QED BY <1>5, <3>1, <3>2, <3>3, <3>4, <3>5, <3>6
  <2>. QED BY <1>1, <1>2, <2>1, <2>2, SignalsKeepTaken
<1>6. CASE (\E d \in Callees : Answer(d)) \/ (\E d \in Callees : Reject(d)) \/ (\E e \in Ends : Hangup(e))
  <2>1. OneCall(o)'  BY <1>6, EndKeeps
  <2>2. \E end, entry, out : Signal(end, entry, out)  BY <1>6 DEF Answer, Reject, Hangup
  <2>. QED BY <1>1, <1>2, <2>1, <2>2, SignalsKeepTaken
<1>7. ASSUME NEW end \in Ends,
             (\E t : TransitionVideo(end, t)) \/ (\E on : SetVideoEnabled(end, on))
               \/ (\E turn : SetVideoOrientation(end, turn))
      PROVE  CallInv'
  <2>1. OneCall(o)'  BY <1>7, VideoKeeps
  <2>2. \E entry, out : Signal(end, entry, out)
    BY <1>7 DEF TransitionVideo, SetVideoEnabled, SetVideoOrientation
  <2>. QED BY <1>1, <1>2, <2>1, <2>2, SignalsKeepTaken
<1>8. CASE UNCHANGED signalVars
  BY <1>8 DEF CallInv, OneCall, HandledAsMeant, signalVars
<1>. QED BY <1>3, <1>4, <1>5, <1>6, <1>7, <1>8 DEF SignalsNext

\* All that is on its way and all that the ends keep belongs to one call: each
\* stanza says what its sender means, rings a device at most once, and the ack that
\* settles the codec is ahead of every answer (placeCall, the on... handlers).
THEOREM CallIsOne == SignalsSpec => []CallInv
BY CallStarts, CallContinues, PTL DEF SignalsSpec

\* HandledAsMeant: what onOffer, onCallAck, onAccept, onRelay, onVideoStanza and other
\* handlers read from a stanza is what the build... function put into it.
THEOREM StanzasAreHandledAsMeant == SignalsSpec => []HandledAsMeant
<1>1. CallInv => HandledAsMeant  BY DEF CallInv
<1>. QED BY <1>1, CallIsOne, PTL

\* EndsAgree: once onAccept took the accept of a device, the entries of placeCall and
\* onOffer have the same key, codec and creator, each names the other end, and media
\* that maybeStartMedia started at both are at one relay.
THEOREM EndsOfACallAgree == SignalsSpec => []EndsAgree
<1>1. CallInv => EndsAgree  BY OneCallAgrees DEF CallInv
<1>. QED BY <1>1, CallIsOne, PTL
=============================================================================
