------------------------- MODULE MediaReceiveProofs -------------------------
(***************************************************************************)
(* Proofs about the stream and its statistics (MediaReceive): the two ends *)
(* of the rollover counter agree on every packet, the report is true, a    *)
(* reaction is reported once, and an access unit whose packets arrive in   *)
(* order comes out as it was sent, for any moduli, delays and payloads.    *)
(*                                                                         *)
(* The second part is about the audio playout behind the receive loop: the *)
(* sink gets the frames of a stream in order, each once, and never more    *)
(* than was spoken, for any lengths, losses and failing sinks.  What a sum *)
(* over a sequence comes to is proved by its partial sums, with the least  *)
(* counterexample in place of an induction rule.                           *)
(***************************************************************************)
EXTENDS MediaReceive, FiniteSetTheorems, SequenceTheorems, NaturalsInduction,
        WellFoundedInduction, TLAPS

-----------------------------------------------------------------------------
(* Quotients and remainders.                                               *)

LEMMA Parts ==
  ASSUME NEW m \in Nat \ {0}, NEW n \in Int
  PROVE  /\ n \div m \in Int /\ n % m \in 0..m - 1
         /\ n = m * (n \div m) + (n % m)
         /\ n >= 0 => n \div m >= 0
  OBVIOUS

LEMMA NatParts ==
  ASSUME NEW m \in Nat \ {0}, NEW n \in Nat
  PROVE  \E q \in Nat, r \in 0..m - 1 : n = m * q + r /\ q = n \div m /\ r = n % m
<1>1. n \in Int /\ n >= 0  OBVIOUS
<1>2. n \div m \in Int /\ n \div m >= 0 /\ n % m \in 0..m - 1 /\ n = m * (n \div m) + (n % m)
  BY <1>1, Parts
<1>3. n \div m \in Nat  BY <1>2
<1>. QED BY <1>2, <1>3

LEMMA PartsUnique ==
  ASSUME NEW m \in Nat \ {0}, NEW n \in Int, NEW q \in Int, NEW r \in 0..m - 1,
         n = m * q + r
  PROVE  n \div m = q /\ n % m = r
  OBVIOUS

\* Less than two multiples away is one at most.
LEMMA LessThanTwo ==
  ASSUME NEW m \in Nat \ {0}, NEW k \in Int, -(2 * m) < m * k, m * k < 2 * m
  PROVE  k \in {-1, 0, 1}
<1>1. ASSUME k >= 2 PROVE FALSE
  <2>1. m * k >= m * 2  BY <1>1
  <2>. QED BY <2>1
<1>2. ASSUME k <= -2 PROVE FALSE
  <2>1. m * k <= m * (-2)  BY <1>2
  <2>. QED BY <2>1
<1>. QED BY <1>1, <1>2

\* The next number: the remainder goes up, or falls to zero and the quotient
\* goes up.
LEMMA NextParts ==
  ASSUME NEW m \in Nat \ {0}, NEW n \in Int
  PROVE  /\ (n % m) + 1 < m => (n + 1) \div m = n \div m /\ (n + 1) % m = (n % m) + 1
         /\ (n % m) + 1 >= m => (n + 1) \div m = (n \div m) + 1 /\ (n + 1) % m = 0
<1>1. PICK q \in Int, r \in 0..m - 1 : n = m * q + r /\ n \div m = q /\ n % m = r
  BY Parts
<1>2. ASSUME r + 1 < m PROVE (n + 1) \div m = q /\ (n + 1) % m = r + 1
  <2>1. n + 1 = m * q + (r + 1) /\ r + 1 \in 0..m - 1  BY <1>1, <1>2
  <2>. HIDE <1>1
  <2>. QED BY <2>1, PartsUnique
<1>3. ASSUME r + 1 >= m PROVE (n + 1) \div m = q + 1 /\ (n + 1) % m = 0
  <2>1. n + 1 = m * (q + 1) + 0 /\ 0 \in 0..m - 1  BY <1>1, <1>3
  <2>. QED BY <2>1, PartsUnique
<1>. QED BY <1>1, <1>2, <1>3

LEMMA NextModulo ==
  ASSUME NEW m \in Nat \ {0}, NEW n \in Int
  PROVE  ((n % m) + 1) % m = (n + 1) % m
<1>1. PICK r \in 0..m - 1 : r = n % m  BY Parts
<1>2. ASSUME r + 1 < m PROVE (r + 1) % m = r + 1  BY <1>2
<1>3. ASSUME r + 1 >= m PROVE (r + 1) % m = 0
  <2>1. r + 1 = m  BY <1>3
  <2>. QED BY <2>1
<1>4. r + 1 < m => (n + 1) % m = r + 1  BY <1>1, NextParts
<1>5. r + 1 >= m => (n + 1) % m = 0  BY <1>1, NextParts
<1>6. (r + 1) % m = (n + 1) % m  BY <1>2, <1>3, <1>4, <1>5
<1>. QED BY <1>1, <1>6

\* Around the circle of a modulus above two: forward, back, and no two alike.
LEMMA Circle ==
  ASSUME NEW m \in Nat, m > 2, NEW r \in 0..m - 1, NEW u, u = (r + 1) % m
  PROVE  /\ u \in 0..m - 1 /\ (u + m - 1) % m = r
         /\ u # r /\ (u + 1) % m # r
<1>1. CASE r + 1 < m
  <2>1. u = r + 1  BY <1>1
  <2>2. (u + m - 1) % m = r
    <3>1. u + m - 1 = m * 1 + r /\ u + m - 1 \in Int  BY <2>1
    <3>. QED BY <3>1, PartsUnique
  <2>3. (u + 1) % m # r
    <3>1. CASE u + 1 < m  BY <2>1, <3>1
    <3>2. CASE u + 1 >= m
      <4>1. u + 1 = m * 1 + 0  BY <2>1, <3>2, <1>1
      <4>2. (u + 1) % m = 0  BY <4>1, PartsUnique
      <4>. QED BY <2>1, <3>2, <4>2
    <3>. QED BY <2>1, <3>1, <3>2
  <2>. QED BY <2>1, <2>2, <2>3, <1>1
<1>2. CASE r + 1 >= m
  <2>1. r = m - 1  BY <1>2
  <2>2. u = 0
    <3>1. r + 1 = m * 1 + 0  BY <2>1
    <3>. QED BY <3>1, PartsUnique
  <2>3. (u + m - 1) % m = r  BY <2>1, <2>2
  <2>4. (u + 1) % m = 1  BY <2>2
  <2>. QED BY <2>1, <2>2, <2>3, <2>4
<1>. QED BY <1>1, <1>2

LEMMA Halves == Half \in Nat /\ Half + Half = SeqSpace /\ Half > 1
  BY NumbersAssumption DEF Half

LEMMA MaxPair ==
  ASSUME NEW a \in Int, NEW b \in Int
  PROVE  Max({a, b}) = IF a >= b THEN a ELSE b
  BY DEF Max

-----------------------------------------------------------------------------
(* Stretches of sequences.                                                 *)

\* A stretch of a sequence.
LEMMA Stretch ==
  ASSUME NEW S, NEW s \in Seq(S), NEW a \in Nat, NEW b \in Nat, a <= b, b <= Len(s)
  PROVE  /\ SubSeq(s, a + 1, b) \in Seq(S) /\ Len(SubSeq(s, a + 1, b)) = b - a
         /\ \A i \in 1..b - a : SubSeq(s, a + 1, b)[i] = s[i + a]
<1> DEFINE t == SubSeq(s, a + 1, b)
<1>1. \A i \in a + 1..b : s[i] \in S  OBVIOUS
<1>2. /\ t \in Seq(S) /\ Len(t) = (IF a + 1 <= b THEN b - (a + 1) + 1 ELSE 0)
      /\ \A i \in 1..b - (a + 1) + 1 : t[i] = s[(a + 1) + i - 1]
  BY <1>1, SubSeqProperties
<1> HIDE DEF t
<1>3. \A i \in 1..b - a : t[i] = s[i + a]
  <2> TAKE i \in 1..b - a
  <2>1. (a + 1) + i - 1 = i + a /\ i \in 1..b - (a + 1) + 1  OBVIOUS
  <2>. QED BY <1>2, <2>1
<1>. QED BY <1>2, <1>3 DEF t

LEMMA StretchOfStretch ==
  ASSUME NEW S, NEW s \in Seq(S), NEW m \in Nat, NEW n \in Nat, m <= n, n <= Len(s),
         NEW a \in Nat, NEW b \in Nat, a <= b, b <= n - m
  PROVE  SubSeq(SubSeq(s, m + 1, n), a + 1, b) = SubSeq(s, m + a + 1, m + b)
<1> DEFINE t == SubSeq(s, m + 1, n)
           u == SubSeq(t, a + 1, b)
           v == SubSeq(s, m + a + 1, m + b)
<1>1. t \in Seq(S) /\ Len(t) = n - m /\ \A i \in 1..n - m : t[i] = s[i + m]
  BY Stretch
<1> HIDE DEF t
<1>2. u \in Seq(S) /\ Len(u) = b - a /\ \A i \in 1..b - a : u[i] = t[i + a]
  BY <1>1, Stretch
<1>3. m + a \in Nat /\ m + b \in Nat /\ m + a <= m + b /\ m + b <= Len(s) /\ (m + b) - (m + a) = b - a
  OBVIOUS
<1>4. v \in Seq(S) /\ Len(v) = b - a /\ \A i \in 1..b - a : v[i] = s[i + (m + a)]
  BY <1>3, Stretch
<1> HIDE DEF u, v
<1>5. ASSUME NEW i \in 1..b - a PROVE u[i] = v[i]
  <2>1. i + a \in 1..n - m /\ (i + a) + m = i + (m + a)  OBVIOUS
  <2>. QED BY <2>1, <1>1, <1>2, <1>4
<1>6. u = v  BY <1>2, <1>4, <1>5, SeqEqual
<1>. QED BY <1>6 DEF t, u, v

-----------------------------------------------------------------------------
(* The rollover counter.                                                   *)

\* Advance (RocTracker): the n-th number takes the counter to n.
LEMMA AdvanceCounts ==
  ASSUME NEW t, NEW n \in Nat,
         IF n = 0 THEN t = NewRoc ELSE CountsTo(t, n)
  PROVE  CountsTo(Advance(t, (n + 1) % SeqSpace), n + 1)
<1> DEFINE s == (n + 1) % SeqSpace
           q == n \div SeqSpace
<1>0. SeqSpace \in Nat \ {0} /\ SeqSpace > 2 /\ RocMod \in Nat \ {0} /\ RocMod > 2
  BY NumbersAssumption
<1>a. s \in 0..SeqSpace - 1 /\ q \in Nat
  <2>1. n + 1 \in Int /\ n \in Int /\ n >= 0  OBVIOUS
  <2>2. s \in 0..SeqSpace - 1  BY <1>0, <2>1, Parts
  <2>3. q \in Int /\ q >= 0  BY <1>0, <2>1, Parts
  <2>. QED BY <2>2, <2>3
<1>1. ASSUME n = 0 PROVE CountsTo(Advance(t, s), n + 1)
  <2>1. t = [roc |-> 0, seq |-> 0, initialized |-> FALSE]  BY <1>1 DEF NewRoc
  <2>2. s = 1 /\ (n + 1) \div SeqSpace = 0  BY <1>0, <1>1, PartsUnique
  <2>3. 0 % RocMod = 0  BY <1>0
  <2>4. ~t.initialized /\ Advance(t, s) = [roc |-> 0, seq |-> s, initialized |-> TRUE]
    BY <2>1 DEF Advance, Seeded
  <2>5. Extends(n + 1, 0, s)  BY <2>2, <2>3 DEF Extends
  <2> HIDE DEF s
  <2>. QED BY <2>4, <2>5 DEF CountsTo
<1>b. PICK x \in 0..SeqSpace - 1 :
        /\ x = n % SeqSpace
        /\ x + 1 < SeqSpace => s = x + 1 /\ (n + 1) \div SeqSpace = q
        /\ x + 1 >= SeqSpace => s = 0 /\ (n + 1) \div SeqSpace = q + 1
  <2>1. n \in Int  OBVIOUS
  <2>. QED BY <1>0, <2>1, Parts, NextParts
<1>c. PICK r \in 0..RocMod - 1 : r = q % RocMod /\ (r + 1) % RocMod = (q + 1) % RocMod
  <2>1. q \in Int  BY <1>a
  <2>. QED BY <1>0, <2>1, Parts, NextModulo
<1>2. ASSUME n > 0 PROVE CountsTo(Advance(t, s), n + 1)
  <2>0. DOMAIN t = {"roc", "seq", "initialized"} /\ t.initialized  BY <1>2 DEF CountsTo
  <2>1. t.seq = x /\ t.roc = r  BY <1>2, <1>b, <1>c DEF CountsTo, Extends
  <2> DEFINE new == IF s - x < -Half THEN (r + 1) % RocMod ELSE r
             a == Advance(t, s)
  <2>2. a.roc = new /\ a.seq = s /\ a.initialized /\ DOMAIN a = {"roc", "seq", "initialized"}
    <3> HIDE DEF s
    <3>. QED BY <2>0, <2>1 DEF Advance
  <2>3. Extends(n + 1, new, s)
    <3> HIDE DEF s, q
    <3>1. CASE x + 1 < SeqSpace
      <4>1. s = x + 1  BY <1>b, <3>1
      <4>2. new = r  BY <4>1, Halves
      <4>. QED BY <1>b, <1>c, <3>1, <4>2 DEF Extends, s
    <3>2. CASE x + 1 >= SeqSpace
      <4>1. s = 0  BY <1>b, <3>2
      <4>2. new = (r + 1) % RocMod  BY <1>0, <3>2, <4>1, Halves
      <4>. QED BY <1>b, <1>c, <3>2, <4>2 DEF Extends, s
    <3>. QED BY <1>0, <3>1, <3>2
  <2> HIDE DEF a, new, s
  <2>. QED BY <2>2, <2>3 DEF CountsTo, a
<1>. QED BY <1>1, <1>2

\* GuessRoc (RecvRocTracker): within half the sequence space of the highest
\* packet the guess is the sender's count, and the counter follows the highest.
LEMMA GuessIsRight ==
  ASSUME NEW t, NEW h \in Nat, NEW i \in Nat, CountsTo(t, h), i - h < Half, h - i < Half,
         NEW roc, NEW seq, Extends(i, roc, seq)
  PROVE  /\ GuessRoc(t, seq) = roc
         /\ CountsTo(RocAfter(t, seq), IF i > h THEN i ELSE h)
<1>0. SeqSpace \in Nat \ {0} /\ SeqSpace > 2 /\ RocMod \in Nat \ {0} /\ RocMod > 2
  BY NumbersAssumption
<1>1. PICK p \in Nat, x \in 0..SeqSpace - 1 :
        h = SeqSpace * p + x /\ p = h \div SeqSpace /\ x = h % SeqSpace
  BY <1>0, NatParts
<1>2. PICK q \in Nat, y \in 0..SeqSpace - 1 :
        i = SeqSpace * q + y /\ q = i \div SeqSpace /\ y = i % SeqSpace
  BY <1>0, NatParts
<1>3. DOMAIN t = {"roc", "seq", "initialized"}  BY DEF CountsTo
<1>4. seq = y /\ roc = q % RocMod  BY <1>2 DEF Extends
<1>5. p % RocMod \in 0..RocMod - 1 /\ q % RocMod \in 0..RocMod - 1  BY <1>0, Parts
<1>8. h = SeqSpace * p + x /\ i = SeqSpace * q + y  BY <1>1, <1>2
<1>6. q - p \in {-1, 0, 1}
  <2>1. SeqSpace * (q - p) = (i - h) - (y - x)  BY <1>0, <1>8
  <2>2. -(2 * SeqSpace) < SeqSpace * (q - p) /\ SeqSpace * (q - p) < 2 * SeqSpace
    BY <2>1, <1>0, Halves
  <2>. QED BY <2>2, <1>0, LessThanTwo
<1>7. t.initialized /\ t.seq = x /\ t.roc = p % RocMod  BY <1>1 DEF CountsTo, Extends
<1>a. CASE q = p
  <2>1. i - h = y - x  BY <1>a, <1>0, <1>8
  <2>6. ~(y - x > Half) /\ ~(x - y > Half)  BY <2>1, Halves
  <2>2. GuessRoc(t, seq) = t.roc  BY <2>6, <1>4, <1>7 DEF GuessRoc
  <2> DEFINE a == RocAfter(t, seq)
  <2>3. /\ a.roc = t.roc /\ a.seq = (IF y > x THEN y ELSE x) /\ a.initialized
        /\ DOMAIN a = {"roc", "seq", "initialized"}
    BY <2>2, <1>3, <1>4, <1>7 DEF RocAfter
  <2>4. Extends(i, t.roc, y) /\ Extends(h, t.roc, x)  BY <1>a, <1>1, <1>2, <1>7 DEF Extends
  <2>5. i > h <=> y > x  BY <2>1
  <2>. QED BY <2>2, <2>3, <2>4, <2>5, <1>a, <1>4, <1>7 DEF CountsTo
<1>b. CASE q = p + 1
  <2>1. i - h = SeqSpace + y - x
    <3>1. SeqSpace * q = SeqSpace * p + SeqSpace  BY <1>b, <1>0
    <3>. QED BY <3>1, <1>0, <1>8
  <2>2. x >= Half /\ x - y > Half /\ i > h  BY <2>1, <1>0, Halves
  <2>3. GuessRoc(t, seq) = (t.roc + 1) % RocMod
    BY <2>2, <1>0, <1>4, <1>7, Halves DEF GuessRoc
  <2>4. (t.roc + 1) % RocMod = roc
    <3>1. p \in Int  OBVIOUS
    <3>2. ((p % RocMod) + 1) % RocMod = (p + 1) % RocMod  BY <1>0, <3>1, NextModulo
    <3>. QED BY <3>2, <1>b, <1>4, <1>7
  <2>5. (t.roc + 1) % RocMod # t.roc  BY <1>0, <1>5, <1>7, Circle
  <2> DEFINE a == RocAfter(t, seq)
  <2>6. a.roc = roc /\ a.seq = y /\ a.initialized /\ DOMAIN a = {"roc", "seq", "initialized"}
    BY <2>3, <2>4, <2>5, <1>3, <1>4, <1>7 DEF RocAfter
  <2>7. Extends(i, roc, y)  BY <1>2, <1>4 DEF Extends
  <2>. QED BY <2>2, <2>3, <2>4, <2>6, <2>7 DEF CountsTo
<1>c. CASE p = q + 1
  <2>1. h - i = SeqSpace + x - y
    <3>1. SeqSpace * p = SeqSpace * q + SeqSpace  BY <1>c, <1>0
    <3>. QED BY <3>1, <1>0, <1>8
  <2>2. x < Half /\ y - x > Half /\ ~(i > h)  BY <2>1, <1>0, Halves
  <2>3. GuessRoc(t, seq) = (t.roc + RocMod - 1) % RocMod
    BY <2>2, <1>4, <1>7 DEF GuessRoc
  <2>4. t.roc = (roc + 1) % RocMod
    <3>1. q \in Int  OBVIOUS
    <3>2. ((q % RocMod) + 1) % RocMod = (q + 1) % RocMod  BY <1>0, <3>1, NextModulo
    <3>. QED BY <3>2, <1>c, <1>4, <1>7
  <2>7. roc \in 0..RocMod - 1 /\ RocMod \in Nat  BY <1>0, <1>4, <1>5
  <2>5. (t.roc + RocMod - 1) % RocMod = roc /\ t.roc # roc /\ (t.roc + 1) % RocMod # roc
    BY <2>4, <2>7, <1>0, Circle
  <2>6. RocAfter(t, seq) = t  BY <2>3, <2>5, <1>7 DEF RocAfter
  <2>. QED BY <2>2, <2>3, <2>5, <2>6
<1>. QED BY <1>1, <1>2, <1>6, <1>a, <1>b, <1>c

-----------------------------------------------------------------------------
(* The stream from end to end.                                             *)

LEMMA StreamInit == Init => StreamInv
<1> SUFFICES ASSUME Init PROVE StreamInv  OBVIOUS
<1>0. SeqSpace \in Nat /\ SeqSpace > 2  BY NumbersAssumption
<1>1. kind \in {"audio", "video", "appdata"}  BY StreamAssumption DEF Init
<1>2. peer = [pipe |-> NewSendPipe("peer"), stream |-> Stream(kind), sent |-> 0,
              unit |-> <<>>, rest |-> <<>>]
  BY DEF Init
<1>3. app = [tx |-> NewAppDataSender, close |-> "no"]  BY DEF Init
<1>4. \E k \in Keys : rx = [key |-> k, roc |-> NewRoc]  BY DEF Init, NewRecvPipe
<1>5. kind = "audio" => peer.stream =
        [ssrc |-> "peer", seq |-> 1, timestamp |-> 0, samplesPerPacket |-> FrameLen,
         speechStarted |-> FALSE, audioPacketIndex |-> 0, warpPiggyback |-> FALSE]
  BY <1>2 DEF Stream, NewRtpStream
<1>6. kind = "video" => peer.stream =
        [ssrc |-> "peer", seq |-> 1, timestamp |-> 0, lastSentTimestamp |-> 0, sent |-> FALSE,
         tsStride |-> FrameLen, transportSequence |-> 0, frameNumber |-> 1, firstPacket |-> TRUE]
  BY <1>2 DEF Stream, NewVideoRtpStream
<1>7. Shapes
  <2>1. kind = "audio" => DOMAIN peer.stream = DOMAIN NewRtpStream("peer", FrameLen, FALSE)
    BY <1>2 DEF Stream
  <2>2. kind = "video" => DOMAIN peer.stream = DOMAIN NewVideoRtpStream("peer", FrameLen)
    BY <1>2 DEF Stream
  <2>3. DOMAIN peer = {"pipe", "stream", "sent", "unit", "rest"} /\ peer.pipe = NewSendPipe("peer")
    BY <1>2
  <2>4. DOMAIN app = {"tx", "close"} /\ app.tx = NewAppDataSender /\ app.tx.lock = Free
    BY <1>3 DEF NewAppDataSender
  <2>. QED BY <1>1, <1>4, <2>1, <2>2, <2>3, <2>4 DEF Shapes, NewSendPipe
<1>8. SenderCounts
  <2>1. peer.sent = 0 /\ peer.pipe.key = "peer" /\ peer.pipe.roc = NewRoc  BY <1>2 DEF NewSendPipe
  <2>2. peer.stream.ssrc = "peer"
    <3>1. kind = "appdata" => peer.stream = [ssrc |-> "peer"]  BY <1>2 DEF Stream
    <3>. QED BY <1>1, <1>5, <1>6, <3>1
  <2>3. NextNumber = 1 % SeqSpace
    BY <1>0, <1>1, <1>3, <1>5, <1>6 DEF NextNumber, CopyHeader, NewAppDataSender
  <2>4. app.tx.lock.left = 0  BY <1>3 DEF NewAppDataSender, Free
  <2>. QED BY <2>1, <2>2, <2>3, <2>4 DEF SenderCounts
<1>9. NetCounts /\ LoopCounts /\ DecryptsInStep
  BY <1>4 DEF Init, NetCounts, LoopCounts, DecryptsInStep
<1>. QED BY <1>7, <1>8, <1>9 DEF StreamInv

\* ProtectRTP: the packet carries the number of its place, and the counter
\* has come to it.
LEMMA SealCounts ==
  ASSUME StreamInv, NEW header, header.seq = NextNumber, header.ssrc = "peer",
         NEW payload, NEW unit, NEW part
  PROVE  LET p == Packet(header, payload, unit, part)
             pipe == Protect(peer.pipe, header, 1)
         IN /\ p.index = peer.sent /\ p.sent = payload
            /\ p.wire.key = "peer" /\ p.wire.ssrc = "peer" /\ p.wire.payload = payload
            /\ Extends(peer.sent + 1, p.wire.roc, p.wire.seq)
            /\ CountsTo(pipe.roc, peer.sent + 1)
            /\ pipe.key = "peer" /\ DOMAIN pipe = {"key", "roc", "packets", "octets", "timestamp"}
<1> DEFINE p == Packet(header, payload, unit, part)
           pipe == Protect(peer.pipe, header, 1)
           t == Advance(peer.pipe.roc, header.seq)
<1>1. CountsTo(t, peer.sent + 1)
  BY AdvanceCounts DEF StreamInv, SenderCounts
<1>2. t.seq = header.seq
  BY <1>1, AdvanceCounts DEF StreamInv, SenderCounts, CountsTo, Extends
<1>3. peer.pipe.key = "peer" /\ DOMAIN peer.pipe = {"key", "roc", "packets", "octets", "timestamp"}
  BY DEF StreamInv, Shapes, SenderCounts
<1>4. p.wire = [key |-> "peer", ssrc |-> "peer", roc |-> t.roc, seq |-> header.seq,
                payload |-> payload]
  BY <1>3 DEF Packet, ProtectedPacket, Sealed
<1>5. p.index = peer.sent /\ p.sent = payload  BY DEF Packet
<1>6. pipe.roc = t /\ pipe.key = "peer" /\ DOMAIN pipe = {"key", "roc", "packets", "octets", "timestamp"}
  BY <1>3 DEF Protect
<1>7. Extends(peer.sent + 1, t.roc, header.seq)
  <2> HIDE DEF t
  <2>. QED BY <1>1, <1>2 DEF CountsTo
<1> HIDE DEF p, pipe, t
<1>8. /\ p.wire.key = "peer" /\ p.wire.ssrc = "peer" /\ p.wire.payload = payload
      /\ p.wire.roc = t.roc /\ p.wire.seq = header.seq
  BY <1>4
<1>9. /\ p.index = peer.sent /\ p.sent = payload
      /\ p.wire.key = "peer" /\ p.wire.ssrc = "peer" /\ p.wire.payload = payload
      /\ Extends(peer.sent + 1, p.wire.roc, p.wire.seq)
      /\ CountsTo(pipe.roc, peer.sent + 1)
      /\ pipe.key = "peer" /\ DOMAIN pipe = {"key", "roc", "packets", "octets", "timestamp"}
  BY <1>1, <1>5, <1>6, <1>7, <1>8
<1>. QED BY <1>9 DEF p, pipe

\* What every sending step does to the net.
LEMMA SendCounts ==
  ASSUME StreamInv, NEW header, header.seq = NextNumber, header.ssrc = "peer",
         NEW payload, NEW unit, NEW part,
         peer'.pipe = Protect(peer.pipe, header, 1), peer'.sent = peer.sent + 1,
         net' \subseteq net \cup {Packet(header, payload, unit, part)}
  PROVE  /\ NetCounts'
         /\ peer'.sent \in Nat /\ peer'.sent # 0 /\ CountsTo(peer.pipe.roc, peer.sent)'
         /\ (peer.pipe.key = "peer" /\ DOMAIN peer.pipe = {"key", "roc", "packets", "octets", "timestamp"})'
<1> DEFINE q == Packet(header, payload, unit, part)
           pipe == Protect(peer.pipe, header, 1)
<1>1. peer.sent \in Nat  BY DEF StreamInv, SenderCounts
<1>2. /\ q.index = peer.sent /\ q.sent = payload
      /\ q.wire.key = "peer" /\ q.wire.ssrc = "peer" /\ q.wire.payload = payload
      /\ Extends(peer.sent + 1, q.wire.roc, q.wire.seq)
      /\ CountsTo(pipe.roc, peer.sent + 1)
      /\ pipe.key = "peer" /\ DOMAIN pipe = {"key", "roc", "packets", "octets", "timestamp"}
  BY SealCounts
<1>3. peer'.pipe = pipe  OBVIOUS
<1> HIDE DEF q, pipe
<1>4. CountsTo(peer.pipe.roc, peer.sent)'  BY <1>2, <1>3 DEF CountsTo, Extends
<1>5. ASSUME NEW p \in net'
      PROVE  /\ p.index \in 0..peer'.sent - 1
             /\ p.wire.key = "peer" /\ p.wire.ssrc = "peer" /\ p.wire.payload = p.sent
             /\ Extends(p.index + 1, p.wire.roc, p.wire.seq)
  <2>1. CASE p \in net  BY <1>1, <2>1 DEF StreamInv, NetCounts
  <2>2. CASE p = q  BY <1>1, <1>2, <2>2
  <2>. QED BY <2>1, <2>2 DEF q
<1>6. NetCounts'  BY <1>5 DEF NetCounts, Extends
<1>. QED BY <1>1, <1>2, <1>3, <1>4, <1>6

LEMMA NumberMoves ==
  ASSUME SenderCounts
  PROVE  (NextNumber + 1) % SeqSpace = (peer.sent + 1 + 1) % SeqSpace
<1>1. peer.sent + 1 \in Int /\ SeqSpace \in Nat \ {0}
  BY NumbersAssumption DEF SenderCounts
<1>2. (((peer.sent + 1) % SeqSpace) + 1) % SeqSpace = (peer.sent + 1 + 1) % SeqSpace
  BY <1>1, NextModulo
<1>. QED BY <1>2 DEF SenderCounts

LEMMA StreamSendAudio ==
  ASSUME StreamInv, NEW class, SendAudio(class)
  PROVE  StreamInv'
<1> DEFINE header == AudioHeader(peer.stream, class, FALSE)
           payload == <<peer.sent>>
<1>1. /\ kind = "audio" /\ UNCHANGED <<kind, app, rx, high, opened>>
      /\ net' = Remaining \cup {Packet(header, payload, <<>>, 0)}
      /\ peer' = [peer EXCEPT !.pipe = Protect(@, header, 1),
                              !.stream = NextAudio(@, class), !.sent = @ + 1]
  BY DEF SendAudio, loop, history
<1>2. Shapes /\ SenderCounts /\ LoopCounts /\ DecryptsInStep  BY DEF StreamInv
<1>3. header.seq = NextNumber /\ header.ssrc = "peer"
  BY <1>1, <1>2 DEF AudioHeader, NextNumber, SenderCounts
<1>4. /\ peer'.pipe = Protect(peer.pipe, header, 1) /\ peer'.sent = peer.sent + 1
      /\ peer'.stream = NextAudio(peer.stream, class)
      /\ DOMAIN peer' = {"pipe", "stream", "sent", "unit", "rest"}
  <2> HIDE DEF header
  <2>. QED BY <1>1, <1>2 DEF Shapes
<1>5. net' \subseteq net \cup {Packet(header, payload, <<>>, 0)}
  BY <1>1 DEF Remaining
<1>6. /\ NetCounts'
      /\ peer'.sent \in Nat /\ peer'.sent # 0 /\ CountsTo(peer.pipe.roc, peer.sent)'
      /\ (peer.pipe.key = "peer" /\ DOMAIN peer.pipe = {"key", "roc", "packets", "octets", "timestamp"})'
  <2> HIDE DEF header, payload
  <2>. QED BY <1>3, <1>4, <1>5, SendCounts
<1>7. /\ peer'.stream.seq = (peer.stream.seq + 1) % SeqSpace
      /\ peer'.stream.ssrc = "peer" /\ DOMAIN peer'.stream = DOMAIN peer.stream
  BY <1>1, <1>2, <1>4 DEF NextAudio, Shapes, SenderCounts, NewRtpStream
<1>8. NextNumber' = (peer'.sent + 1) % SeqSpace
  <2>1. NextNumber' = (NextNumber + 1) % SeqSpace  BY <1>1, <1>7 DEF NextNumber
  <2>. QED BY <2>1, <1>2, <1>4, NumberMoves
<1>9. Shapes'  BY <1>1, <1>2, <1>4, <1>6, <1>7 DEF Shapes
<1>10. SenderCounts'  BY <1>1, <1>2, <1>6, <1>7, <1>8 DEF SenderCounts
<1>11. LoopCounts' /\ DecryptsInStep'
  BY <1>1, <1>2 DEF LoopCounts, DecryptsInStep, CountsTo, Extends
<1>. QED BY <1>6, <1>9, <1>10, <1>11 DEF StreamInv

LEMMA StreamSendVideo ==
  ASSUME StreamInv, SendVideo
  PROVE  StreamInv'
<1> DEFINE last == Len(peer.rest) = 1
           header == VideoHeader(peer.stream, last, "delta")
           payload == Head(peer.rest)
           part == Len(PackageH264NALU(peer.unit)) - Len(peer.rest) + 1
<1>1. /\ kind = "video" /\ UNCHANGED <<kind, app, rx, high, opened>>
      /\ net' = Remaining \cup {Packet(header, payload, peer.unit, part)}
      /\ peer' = [peer EXCEPT !.pipe = Protect(@, header, 1),
                              !.stream = NextVideo(@, last),
                              !.sent = @ + 1, !.rest = Tail(@)]
  BY DEF SendVideo, loop, history
<1>2. Shapes /\ SenderCounts /\ LoopCounts /\ DecryptsInStep  BY DEF StreamInv
<1> HIDE DEF last, payload, part
<1>3. header.seq = NextNumber /\ header.ssrc = "peer"
  BY <1>1, <1>2 DEF VideoHeader, NextNumber, SenderCounts
<1>4. /\ peer'.pipe = Protect(peer.pipe, header, 1) /\ peer'.sent = peer.sent + 1
      /\ peer'.stream = NextVideo(peer.stream, last)
      /\ DOMAIN peer' = {"pipe", "stream", "sent", "unit", "rest"}
  <2> HIDE DEF header
  <2>. QED BY <1>1, <1>2 DEF Shapes
<1>5. net' \subseteq net \cup {Packet(header, payload, peer.unit, part)}
  BY <1>1 DEF Remaining
<1>6. /\ NetCounts'
      /\ peer'.sent \in Nat /\ peer'.sent # 0 /\ CountsTo(peer.pipe.roc, peer.sent)'
      /\ (peer.pipe.key = "peer" /\ DOMAIN peer.pipe = {"key", "roc", "packets", "octets", "timestamp"})'
  <2> HIDE DEF header
  <2>. QED BY <1>3, <1>4, <1>5, SendCounts
<1>7. /\ peer'.stream.seq = (peer.stream.seq + 1) % SeqSpace
      /\ peer'.stream.ssrc = "peer" /\ DOMAIN peer'.stream = DOMAIN peer.stream
  BY <1>1, <1>2, <1>4 DEF NextVideo, Shapes, SenderCounts, NewVideoRtpStream
<1>8. NextNumber' = (peer'.sent + 1) % SeqSpace
  <2>1. NextNumber' = (NextNumber + 1) % SeqSpace  BY <1>1, <1>7 DEF NextNumber
  <2>. QED BY <2>1, <1>2, <1>4, NumberMoves
<1>9. Shapes'  BY <1>1, <1>2, <1>4, <1>6, <1>7 DEF Shapes
<1>10. SenderCounts'  BY <1>1, <1>2, <1>6, <1>7, <1>8 DEF SenderCounts
<1>11. LoopCounts' /\ DecryptsInStep'
  BY <1>1, <1>2 DEF LoopCounts, DecryptsInStep, CountsTo, Extends
<1>. QED BY <1>6, <1>9, <1>10, <1>11 DEF StreamInv

LEMMA StreamSendCopy ==
  ASSUME StreamInv, NEW ok, SendCopy(ok)
  PROVE  StreamInv'
<1> DEFINE header == CopyHeader(app.tx)
           payload == <<[id |-> app.tx.transactionID, emoji |-> app.tx.lock.emoji]>>
<1>1. /\ app.tx.lock.left > 0 /\ UNCHANGED <<kind, rx, high, opened>>
      /\ app' = [app EXCEPT !.tx = NextCopy(@, ok)]
      /\ net' \subseteq Remaining \cup {Packet(header, payload, <<>>, 0)}
      /\ peer' = [peer EXCEPT !.pipe = Protect(@, header, 1), !.sent = @ + 1]
  BY DEF SendCopy, loop, history
<1>2. Shapes /\ SenderCounts /\ LoopCounts /\ DecryptsInStep  BY DEF StreamInv
<1>a. kind = "appdata"  BY <1>1, <1>2 DEF SenderCounts
<1> HIDE DEF payload
<1>3. header.seq = NextNumber /\ header.ssrc = "peer"
  BY <1>a DEF CopyHeader, NextNumber
<1>4. /\ peer'.pipe = Protect(peer.pipe, header, 1) /\ peer'.sent = peer.sent + 1
      /\ peer'.stream = peer.stream
      /\ DOMAIN peer' = {"pipe", "stream", "sent", "unit", "rest"}
  <2> HIDE DEF header
  <2>. QED BY <1>1, <1>2 DEF Shapes
<1>5. net' \subseteq net \cup {Packet(header, payload, <<>>, 0)}
  BY <1>1 DEF Remaining
<1>6. /\ NetCounts'
      /\ peer'.sent \in Nat /\ peer'.sent # 0 /\ CountsTo(peer.pipe.roc, peer.sent)'
      /\ (peer.pipe.key = "peer" /\ DOMAIN peer.pipe = {"key", "roc", "packets", "octets", "timestamp"})'
  <2> HIDE DEF header
  <2>. QED BY <1>3, <1>4, <1>5, SendCounts
<1>7. /\ app'.tx.sequenceNumber = NextNumber /\ DOMAIN app' = DOMAIN app
      /\ DOMAIN app'.tx = DOMAIN app.tx /\ DOMAIN app'.tx.lock = DOMAIN app.tx.lock
  <2>1. app'.tx = NextCopy(app.tx, ok) /\ DOMAIN app' = DOMAIN app  BY <1>1, <1>2 DEF Shapes
  <2>2. app'.tx.sequenceNumber = header.seq /\ DOMAIN app'.tx = DOMAIN app.tx
    BY <2>1, <1>2 DEF NextCopy, Shapes, NewAppDataSender
  <2>3. DOMAIN app'.tx.lock = DOMAIN app.tx.lock
    BY <2>1, <1>2 DEF NextCopy, Shapes, NewAppDataSender, Free
  <2>. QED BY <2>1, <2>2, <2>3, <1>3
<1>8. NextNumber' = (peer'.sent + 1) % SeqSpace
  <2>1. NextNumber' = (NextNumber + 1) % SeqSpace
    BY <1>1, <1>a, <1>7 DEF NextNumber, CopyHeader
  <2>. QED BY <2>1, <1>2, <1>4, NumberMoves
<1>9. Shapes'  BY <1>1, <1>2, <1>4, <1>6, <1>7 DEF Shapes
<1>10. SenderCounts'  BY <1>1, <1>2, <1>a, <1>4, <1>6, <1>8 DEF SenderCounts
<1>11. LoopCounts' /\ DecryptsInStep'
  BY <1>1, <1>2 DEF LoopCounts, DecryptsInStep, CountsTo, Extends
<1>. QED BY <1>6, <1>9, <1>10, <1>11 DEF StreamInv

\* A packet that arrives within reach is opened with the counter it was sealed
\* with.
LEMMA StreamReceive ==
  ASSUME StreamInv, NEW p \in net, WithinReach(p), Unprotected(p),
         net' \subseteq net, UNCHANGED <<kind, peer, app>>
  PROVE  StreamInv'
<1> DEFINE u == Unprotect(rx, p.wire)
           guess == GuessRoc(rx.roc, p.wire.seq)
           n == p.index + 1
<1>1. Shapes /\ SenderCounts /\ NetCounts /\ LoopCounts  BY DEF StreamInv
<1>2. /\ p.index \in Nat /\ p.wire.key = "peer" /\ p.wire.payload = p.sent
      /\ Extends(n, p.wire.roc, p.wire.seq)
  BY <1>1 DEF NetCounts, SenderCounts
<1>3. /\ rx' = u.pipe /\ high' = Max({high, p.index})
      /\ opened' = [key |-> rx.key, same |-> u.payload = p.sent]
  BY DEF Unprotected
<1>4. rx'.roc = RocAfter(rx.roc, p.wire.seq) /\ rx'.key = rx.key /\ DOMAIN rx' = {"key", "roc"}
  BY <1>1, <1>3 DEF Unprotect, Shapes
<1>5. guess = p.wire.roc /\ LoopCounts'
  <2>1. ASSUME high = -1 PROVE guess = p.wire.roc /\ LoopCounts'
    <3>1. rx.roc = NewRoc  BY <1>1, <2>1 DEF LoopCounts
    <3>2. n \in 0..SeqSpace - 1
      <4>1. p.index + 1 < SeqSpace  BY <3>1 DEF WithinReach, NewRoc
      <4>. QED BY <4>1, <1>2, NumbersAssumption
    <3>3. n \div SeqSpace = 0 /\ n % SeqSpace = n
      <4>1. n = SeqSpace * 0 + n /\ SeqSpace \in Nat \ {0} /\ n \in Int
        BY <3>2, NumbersAssumption
      <4>. QED BY <4>1, <3>2, PartsUnique
    <3>4. 0 % RocMod = 0  BY NumbersAssumption
    <3>5. p.wire.roc = 0 /\ p.wire.seq = n  BY <1>2, <3>3, <3>4 DEF Extends
    <3>6. guess = 0  BY <3>1 DEF GuessRoc, NewRoc
    <3> DEFINE a == RocAfter(rx.roc, p.wire.seq)
    <3>7. /\ a.roc = 0 /\ a.seq = p.wire.seq /\ a.initialized
          /\ DOMAIN a = {"roc", "seq", "initialized"}
      BY <3>1 DEF RocAfter, NewRoc, Seeded
    <3>8. high' = p.index  BY <1>2, <1>3, <2>1, MaxPair
    <3> HIDE DEF a
    <3>9. CountsTo(a, n)  BY <3>5, <3>7, <1>2 DEF CountsTo
    <3>10. CountsTo(rx.roc, high + 1)'  BY <3>8, <3>9, <1>4 DEF CountsTo, Extends, a
    <3>. QED BY <3>5, <3>6, <3>8, <3>10, <1>2 DEF LoopCounts
  <2>2. ASSUME high # -1 PROVE guess = p.wire.roc /\ LoopCounts'
    <3>1. high \in Nat /\ CountsTo(rx.roc, high + 1)  BY <1>1, <2>2 DEF LoopCounts
    <3>2. p.index - high < Half /\ high - p.index < Half
      <4>1. rx.roc.initialized  BY <3>1 DEF CountsTo
      <4>2. Abs(p.index - high) < Half  BY <4>1 DEF WithinReach
      <4>. QED BY <4>2, <3>1, <1>2, Halves DEF Abs
    <3>3. n - (high + 1) < Half /\ (high + 1) - n < Half /\ n \in Nat /\ high + 1 \in Nat
      BY <3>1, <3>2, <1>2, Halves
    <3>4. /\ guess = p.wire.roc
          /\ CountsTo(RocAfter(rx.roc, p.wire.seq), IF n > high + 1 THEN n ELSE high + 1)
      <4> HIDE DEF n
      <4>. QED BY <3>1, <3>3, <1>2, GuessIsRight
    <3>5. high' \in Nat /\ high' + 1 = (IF n > high + 1 THEN n ELSE high + 1)
      BY <1>2, <1>3, <3>1, MaxPair
    <3>6. CountsTo(rx.roc, high + 1)'  BY <3>4, <3>5, <1>4 DEF CountsTo, Extends
    <3>. QED BY <3>4, <3>5, <3>6 DEF LoopCounts
  <2>. QED BY <2>1, <2>2
<1>6. DecryptsInStep'
  <2>1. rx.key = "peer" => u.payload = p.sent
    <3>1. u.payload = Opened(rx.key, guess, p.wire)  BY DEF Unprotect
    <3>. QED BY <3>1, <1>2, <1>5 DEF Opened
  <2>. QED BY <1>3, <2>1 DEF DecryptsInStep
<1>7. Shapes'  BY <1>1, <1>4 DEF Shapes
<1>8. SenderCounts'
  BY <1>1 DEF SenderCounts, NextNumber, CountsTo, Extends
<1>9. NetCounts'  BY <1>1 DEF NetCounts, Extends
<1>. QED BY <1>5, <1>6, <1>7, <1>8, <1>9 DEF StreamInv

\* The steps that neither send nor receive.
LEMMA StreamRest ==
  ASSUME StreamInv,
         \/ \E bytes \in Bodies : BeginUnit(bytes)
         \/ BeginReaction \/ AskClose \/ DoClose \/ Rekey \/ MakeReport
         \/ \E sink \in BOOLEAN, fails \in Failures : EndLoop(sink, fails)
         \/ UNCHANGED vars
  PROVE  StreamInv'
<1>1. Shapes /\ SenderCounts /\ NetCounts /\ LoopCounts /\ DecryptsInStep  BY DEF StreamInv
<1>2. ASSUME UNCHANGED <<kind, peer, app, net, rx, high, opened>> PROVE StreamInv'
  BY <1>1, <1>2 DEF StreamInv, Shapes, SenderCounts, NetCounts, LoopCounts, DecryptsInStep,
                    NextNumber, CountsTo, Extends
<1>3. ASSUME UNCHANGED <<kind, app, net, rx, high, opened>>, DOMAIN peer' = DOMAIN peer,
             peer'.pipe = peer.pipe, peer'.stream = peer.stream, peer'.sent = peer.sent
      PROVE  StreamInv'
  BY <1>1, <1>3 DEF StreamInv, Shapes, SenderCounts, NetCounts, LoopCounts, DecryptsInStep,
                    NextNumber, CountsTo, Extends
<1>4. ASSUME UNCHANGED <<kind, peer, net, rx, high, opened>>, DOMAIN app' = DOMAIN app,
             DOMAIN app'.tx = DOMAIN app.tx, DOMAIN app'.tx.lock = DOMAIN app.tx.lock,
             app'.tx.lock.left > 0 => kind = "appdata",
             app'.tx.sequenceNumber = app.tx.sequenceNumber
      PROVE  StreamInv'
  BY <1>1, <1>4 DEF StreamInv, Shapes, SenderCounts, NetCounts, LoopCounts, DecryptsInStep,
                    NextNumber, CountsTo, Extends, CopyHeader
<1>5. ASSUME NEW bytes, BeginUnit(bytes) PROVE StreamInv'
  <2>1. /\ UNCHANGED <<kind, app, net, rx, high, opened>> /\ DOMAIN peer' = DOMAIN peer
        /\ peer'.pipe = peer.pipe /\ peer'.stream = peer.stream /\ peer'.sent = peer.sent
    BY <1>1, <1>5 DEF BeginUnit, loop, history, Shapes
  <2>. QED BY <2>1, <1>3
<1>6. ASSUME BeginReaction PROVE StreamInv'
  <2>1. UNCHANGED <<kind, peer, net, rx, high, opened>> /\ kind = "appdata"
        /\ app' = [app EXCEPT !.tx = Begin(@, "emoji")]
    BY <1>6 DEF BeginReaction, loop, history
  <2>2. app'.tx = Begin(app.tx, "emoji") /\ DOMAIN app' = DOMAIN app
    BY <1>1, <2>1 DEF Shapes
  <2>3. /\ DOMAIN app'.tx = DOMAIN app.tx
        /\ app'.tx.sequenceNumber = app.tx.sequenceNumber
        /\ app'.tx.lock = [left |-> Copies, emoji |-> "emoji"]
    BY <1>1, <2>2 DEF Begin, Shapes, NewAppDataSender
  <2>4. DOMAIN app'.tx.lock = DOMAIN app.tx.lock  BY <1>1, <2>3 DEF Shapes, Free
  <2>. QED BY <2>1, <2>2, <2>3, <2>4, <1>4
<1>7. ASSUME AskClose PROVE StreamInv'
  <2>1. UNCHANGED <<kind, peer, net, rx, high, opened>> /\ app'.tx = app.tx
        /\ DOMAIN app' = DOMAIN app
    BY <1>1, <1>7 DEF AskClose, loop, history, Shapes
  <2>. QED BY <2>1, <1>1, <1>4 DEF SenderCounts
<1>8. ASSUME DoClose PROVE StreamInv'
  <2>1. UNCHANGED <<kind, peer, net, rx, high, opened>> /\ app'.tx = CloseSender(app.tx)
        /\ DOMAIN app' = DOMAIN app
    BY <1>1, <1>8 DEF DoClose, loop, history, Shapes
  <2>2. /\ DOMAIN app'.tx = DOMAIN app.tx /\ app'.tx.lock = app.tx.lock
        /\ app'.tx.sequenceNumber = app.tx.sequenceNumber
    BY <1>1, <2>1 DEF CloseSender, Shapes, NewAppDataSender
  <2>. QED BY <2>1, <2>2, <1>1, <1>4 DEF SenderCounts
<1>9. ASSUME Rekey PROVE StreamInv'
  <2>1. UNCHANGED <<kind, peer, app, net, opened>> /\ high' = -1 /\ rx' = RekeyRecv(rx, "peer")
    BY <1>9 DEF Rekey, history, sender
  <2>2. rx'.roc = NewRoc /\ DOMAIN rx' = {"key", "roc"}  BY <1>1, <2>1 DEF RekeyRecv, Shapes
  <2>3. LoopCounts'  BY <2>1, <2>2 DEF LoopCounts
  <2>4. Shapes' /\ SenderCounts' /\ NetCounts' /\ DecryptsInStep'
    BY <1>1, <2>1, <2>2 DEF Shapes, SenderCounts, NetCounts, DecryptsInStep,
                            NextNumber, CountsTo, Extends
  <2>. QED BY <2>3, <2>4 DEF StreamInv
<1>10. ASSUME MakeReport PROVE StreamInv'
  BY <1>10, <1>2 DEF MakeReport, sender
<1>11. ASSUME NEW sink, NEW fails, EndLoop(sink, fails) PROVE StreamInv'
  BY <1>11, <1>2 DEF EndLoop, sender
<1>12. ASSUME UNCHANGED vars PROVE StreamInv'
  BY <1>12, <1>2 DEF vars, sender, loop, history
<1>. QED BY <1>5, <1>6, <1>7, <1>8, <1>9, <1>10, <1>11, <1>12

LEMMA StreamStep == StreamInv /\ [Next]_vars => StreamInv'
<1> SUFFICES ASSUME StreamInv, [Next]_vars PROVE StreamInv'  OBVIOUS
<1>1. ASSUME NEW p \in net, NEW len, NEW sink, NEW fails, ReceiveAudio(p, len, sink, fails)
      PROVE  StreamInv'
  BY <1>1, StreamReceive DEF ReceiveAudio, Arrives, sender
<1>2. ASSUME NEW p \in net, NEW garbled, ReceiveVideo(p, garbled) PROVE StreamInv'
  BY <1>2, StreamReceive DEF ReceiveVideo, Arrives, sender
<1>3. ASSUME NEW p \in net, ReceiveAppData(p) PROVE StreamInv'
  BY <1>3, StreamReceive DEF ReceiveAppData, Arrives, sender
<1>. QED
  BY <1>1, <1>2, <1>3, StreamSendAudio, StreamSendVideo, StreamSendCopy, StreamRest DEF Next

\* RocTracker and RecvRocTracker (DecryptsInStep): a packet that gets through
\* within half the sequence space is opened with the counter it was sealed
\* with, however many wraps either counter went through.
THEOREM OpensWhatWasSealed == Spec => []DecryptsInStep
<1>1. Spec => []StreamInv  BY StreamInit, StreamStep, PTL DEF Spec
<1>2. StreamInv => DecryptsInStep  BY DEF StreamInv
<1>. QED BY <1>1, <1>2, PTL

-----------------------------------------------------------------------------
(* The reception statistics.                                               *)

\* Observe: the highest number follows the highest packet, with its cycles.
LEMMA ObserveFollows ==
  ASSUME NEW s, DOMAIN s = DOMAIN NewReception, NEW h \in Nat, NEW i \in Nat,
         i - h < Half, h - i < Half, NEW seq, seq = (i + 1) % SeqSpace,
         s.max = (h + 1) % SeqSpace, s.cycles \in Int, s.cycles + s.max = h + 1
  PROVE  LET new == SameSource(s, seq)
             top == IF i > h THEN i ELSE h
         IN /\ new.max = (top + 1) % SeqSpace /\ new.cycles \in Int
            /\ new.cycles + new.max = top + 1
            /\ DOMAIN new = DOMAIN s /\ new.received = s.received + 1
            /\ new.ssrc = s.ssrc /\ new.hasSsrc = s.hasSsrc /\ new.base = s.base
            /\ new.expectedPrior = s.expectedPrior /\ new.receivedPrior = s.receivedPrior
<1> DEFINE new == SameSource(s, seq)
           delta == (seq - s.max) % SeqSpace
           ahead == delta # 0 /\ delta < Half
           top == IF i > h THEN i ELSE h
<1>0. SeqSpace \in Nat \ {0}  BY NumbersAssumption
<1>1. PICK p \in Nat, x \in 0..SeqSpace - 1 : h + 1 = SeqSpace * p + x /\ x = (h + 1) % SeqSpace
  <2>1. h + 1 \in Nat  OBVIOUS
  <2>. QED BY <1>0, <2>1, NatParts
<1>2. PICK q \in Nat, y \in 0..SeqSpace - 1 : i + 1 = SeqSpace * q + y /\ y = (i + 1) % SeqSpace
  <2>1. i + 1 \in Nat  OBVIOUS
  <2>. QED BY <1>0, <2>1, NatParts
<1>3. s.max = x /\ seq = y  BY <1>1, <1>2
<1>4. s.cycles \in Int /\ s.cycles + x = h + 1  BY <1>3
<1>5. SeqSpace * (q - p) = (i - h) - (y - x)
  <2>1. h + 1 = SeqSpace * p + x /\ i + 1 = SeqSpace * q + y  BY <1>1, <1>2
  <2>. QED BY <1>0, <2>1
<1>6. q - p \in {-1, 0, 1}
  <2>1. -(2 * SeqSpace) < SeqSpace * (q - p) /\ SeqSpace * (q - p) < 2 * SeqSpace
    BY <1>5, <1>0, Halves
  <2>. QED BY <2>1, <1>0, LessThanTwo
<1>7. /\ DOMAIN new = DOMAIN s /\ new.received = s.received + 1
      /\ new.ssrc = s.ssrc /\ new.hasSsrc = s.hasSsrc /\ new.base = s.base
      /\ new.expectedPrior = s.expectedPrior /\ new.receivedPrior = s.receivedPrior
      /\ new.max = (IF ahead THEN seq ELSE s.max)
      /\ new.cycles = (IF ahead /\ seq < s.max THEN s.cycles + SeqSpace ELSE s.cycles)
  <2> HIDE DEF ahead
  <2>. QED BY DEF SameSource, NewReception, ahead
<1>8. CASE i > h
  <2> DEFINE d == i - h
  <2>1. y - x = SeqSpace * (p - q) + d /\ d \in 0..SeqSpace - 1 /\ d # 0 /\ d < Half
        /\ y - x \in Int /\ p - q \in Int
    BY <1>5, <1>8, <1>0, Halves
  <2>2. delta = d  
    <3> HIDE DEF d
    <3>1. (y - x) % SeqSpace = d  BY <1>0, <2>1, PartsUnique
    <3>. QED BY <3>1, <1>3
  <2>3. ahead
    <3> HIDE DEF d, delta
    <3>. QED BY <2>1, <2>2
  <2>4. new.max = y /\ new.cycles = (IF y < x THEN s.cycles + SeqSpace ELSE s.cycles)
    <3> HIDE DEF new, ahead
    <3>. QED BY <1>3, <1>7, <2>3
  <2>5. y < x => y - x = d - SeqSpace
    <3>1. q - p = 1 => y - x = d - SeqSpace  BY <1>5, <1>0
    <3>2. q - p = 0 => y - x = d  BY <1>5, <1>0
    <3>3. q - p = -1 => y - x = d + SeqSpace  BY <1>5, <1>0
    <3>. QED BY <3>1, <3>2, <3>3, <1>6, <2>1, <1>0
  <2>6. ~(y < x) => y - x = d
    <3>1. q - p = 1 => y - x = d - SeqSpace  BY <1>5, <1>0
    <3>2. q - p = 0 => y - x = d  BY <1>5, <1>0
    <3>3. q - p = -1 => y - x = d + SeqSpace  BY <1>5, <1>0
    <3>. QED BY <3>1, <3>2, <3>3, <1>6, <2>1, <1>0
  <2>7. new.cycles + new.max = i + 1 /\ new.cycles \in Int
    <3>1. i + 1 = h + 1 + d  OBVIOUS
    <3>2. d \in Int  OBVIOUS
    <3> HIDE DEF new, d
    <3>3. CASE y < x
      <4>1. new.max = y /\ new.cycles = s.cycles + SeqSpace  BY <2>4, <3>3
      <4>. QED BY <4>1, <2>5, <3>1, <3>2, <3>3, <1>0, <1>4
    <3>4. CASE ~(y < x)
      <4>1. new.max = y /\ new.cycles = s.cycles  BY <2>4, <3>4
      <4>. QED BY <4>1, <2>6, <3>1, <3>2, <3>4, <1>0, <1>4
    <3>. QED BY <3>3, <3>4
  <2>8. new.max = (i + 1) % SeqSpace  BY <2>4, <1>2
  <2> HIDE DEF new
  <2>. QED BY <2>7, <2>8, <1>7, <1>8 DEF new
<1>9. CASE ~(i > h)
  <2>1. ~ahead
    <3>1. CASE i = h
      <4>1. y - x = SeqSpace * (p - q) + 0 /\ y - x \in Int /\ p - q \in Int /\ 0 \in 0..SeqSpace - 1
        BY <1>5, <3>1, <1>0
      <4>2. (y - x) % SeqSpace = 0  BY <1>0, <4>1, PartsUnique
      <4>. QED BY <4>2, <1>3
    <3>2. CASE i < h
      <4> DEFINE d == (i - h) + SeqSpace
      <4>1. y - x = SeqSpace * (p - q - 1) + d /\ y - x \in Int /\ p - q - 1 \in Int
            /\ d \in 0..SeqSpace - 1 /\ d >= Half
        BY <1>5, <3>2, <1>0, Halves
      <4> HIDE DEF d
      <4>2. (y - x) % SeqSpace = d  BY <1>0, <4>1, PartsUnique
      <4>. QED BY <4>1, <4>2, <1>3, <1>0, Halves
    <3>. QED BY <3>1, <3>2, <1>9
  <2>2. new.max = x /\ new.cycles = s.cycles
    <3> HIDE DEF new, ahead
    <3>. QED BY <1>3, <1>7, <2>1
  <2>3. new.max = (h + 1) % SeqSpace /\ new.cycles + new.max = h + 1
    <3> HIDE DEF new
    <3>. QED BY <2>2, <1>1, <1>4
  <2> HIDE DEF new
  <2>. QED BY <2>2, <2>3, <1>4, <1>7, <1>9 DEF new
<1>. QED BY <1>8, <1>9

LEMMA StatsInit == Init => StatsInv
  BY DEF Init, StatsInv, NewReception

\* A packet of audio or video that arrives within reach.
LEMMA StatsObserve ==
  ASSUME StreamInv, StatsInv, kind # "appdata", NEW p \in net, WithinReach(p), Observed(p),
         kind' = kind, high' = Max({high, p.index})
  PROVE  StatsInv'
<1>1. p.index \in Nat /\ p.wire.ssrc = "peer" /\ p.wire.seq = (p.index + 1) % SeqSpace
  BY DEF StreamInv, SenderCounts, NetCounts, Extends
<1>2. /\ stats' = Observe(stats, "peer", p.wire.seq)
      /\ seen' = [seen EXCEPT !.first = IF @ = -1 THEN p.index ELSE @,
                              !.high = Max({@, p.index})]
  BY <1>1 DEF Observed
<1>3. CASE ~stats.hasSsrc
  <2>1. seen = [first |-> -1, high |-> -1, lostBefore |-> 0] /\ high = -1
    BY <1>3 DEF StatsInv
  <2>2. Max({-1, p.index}) = p.index  BY <1>1, MaxPair
  <2>3. /\ seen'.first = p.index /\ seen'.high = p.index /\ seen'.lostBefore = 0
        /\ DOMAIN seen' = {"first", "high", "lostBefore"}
    BY <1>2, <2>1, <2>2
  <2>4. stats' = NewSource("peer", p.wire.seq)  BY <1>2, <1>3 DEF Observe
  <2>5. p.wire.seq = p.index + 1
    <3>1. rx.roc = NewRoc  BY <2>1 DEF StreamInv, LoopCounts
    <3>2. p.index + 1 < SeqSpace  BY <3>1 DEF WithinReach, NewRoc
    <3>. QED BY <3>2, <1>1, NumbersAssumption
  <2>6. /\ DOMAIN stats' = DOMAIN NewReception /\ stats'.hasSsrc /\ stats'.ssrc = "peer"
        /\ stats'.base = p.wire.seq /\ stats'.max = p.wire.seq /\ stats'.cycles = 0
        /\ stats'.received = 1 /\ stats'.expectedPrior = 0 /\ stats'.receivedPrior = 0
    BY <2>4 DEF NewSource, NewReception
  <2>. QED BY <1>1, <2>3, <2>5, <2>6 DEF StatsInv, NewReception
<1>4. CASE stats.hasSsrc
  <2>1. /\ DOMAIN stats = DOMAIN NewReception /\ DOMAIN seen = {"first", "high", "lostBefore"}
        /\ stats.ssrc = "peer" /\ stats.received \in Nat
        /\ seen.first \in Nat /\ seen.high \in Nat
        /\ stats.base = seen.first + 1
        /\ stats.max = (seen.high + 1) % SeqSpace
        /\ stats.cycles + stats.max = seen.high + 1
        /\ stats.cycles \in Int /\ stats.expectedPrior \in Int /\ stats.receivedPrior \in Nat
        /\ stats.expectedPrior - stats.receivedPrior = seen.lostBefore
    BY <1>4 DEF StatsInv
  <2> DEFINE top == IF p.index > seen.high THEN p.index ELSE seen.high
  <2>2. Max({seen.high, p.index}) = top  BY <1>1, <2>1, MaxPair
  <2>3. /\ seen'.first = seen.first /\ seen'.high = top /\ seen'.lostBefore = seen.lostBefore
        /\ DOMAIN seen' = {"first", "high", "lostBefore"}
    <3> HIDE DEF top
    <3>. QED BY <1>2, <2>1, <2>2
  <2>4. stats' = SameSource(stats, p.wire.seq)  BY <1>2, <1>4, <2>1 DEF Observe
  <2>5. p.index - seen.high < Half /\ seen.high - p.index < Half
    <3>1. Abs(p.index - seen.high) < Half  BY <2>1 DEF WithinReach
    <3>. QED BY <3>1, <1>1, <2>1, Halves DEF Abs
  <2>6. /\ stats'.max = (top + 1) % SeqSpace /\ stats'.cycles \in Int
        /\ stats'.cycles + stats'.max = top + 1
        /\ DOMAIN stats' = DOMAIN stats /\ stats'.received = stats.received + 1
        /\ stats'.ssrc = stats.ssrc /\ stats'.hasSsrc = stats.hasSsrc /\ stats'.base = stats.base
        /\ stats'.expectedPrior = stats.expectedPrior /\ stats'.receivedPrior = stats.receivedPrior
    BY <1>1, <2>1, <2>4, <2>5, ObserveFollows
  <2>7. top \in Nat  BY <1>1, <2>1
  <2> HIDE DEF top
  <2>. QED BY <1>4, <2>1, <2>3, <2>6, <2>7 DEF StatsInv
<1>. QED BY <1>3, <1>4

LEMMA StatsStep == StreamInv /\ StatsInv /\ [Next]_vars => StatsInv'
<1> SUFFICES ASSUME StreamInv, StatsInv, [Next]_vars PROVE StatsInv'  OBVIOUS
<1>1. ASSUME UNCHANGED <<kind, stats, seen>>, high' = high \/ high' = -1 \/ kind = "appdata"
      PROVE  StatsInv'
  BY <1>1 DEF StatsInv, NewReception
<1>2. ASSUME NEW p \in net, NEW len, NEW sink, NEW fails, ReceiveAudio(p, len, sink, fails)
      PROVE  StatsInv'
  BY <1>2, StatsObserve DEF ReceiveAudio, Arrives, Unprotected
<1>3. ASSUME NEW p \in net, NEW garbled, ReceiveVideo(p, garbled) PROVE StatsInv'
  BY <1>3, StatsObserve DEF ReceiveVideo, Arrives, Unprotected
<1>4. ASSUME MakeReport PROVE StatsInv'
  <2>1. /\ stats.hasSsrc /\ stats' = AfterReport(stats) /\ UNCHANGED <<kind, high>>
        /\ seen' = [seen EXCEPT !.lostBefore = Report(stats).cumulative]
    BY <1>4 DEF MakeReport
  <2>2. kind # "appdata"  BY <2>1 DEF StatsInv
  <2>3. /\ DOMAIN stats = DOMAIN NewReception /\ DOMAIN seen = {"first", "high", "lostBefore"}
        /\ stats.ssrc = "peer" /\ stats.received \in Nat
        /\ seen.first \in Nat /\ seen.high \in Nat
        /\ stats.base = seen.first + 1
        /\ stats.max = (seen.high + 1) % SeqSpace
        /\ stats.cycles + stats.max = seen.high + 1
        /\ stats.cycles \in Int
    BY <2>1 DEF StatsInv
  <2>4. Report(stats).cumulative = Expected(stats) - stats.received
    BY <2>1 DEF Report
  <2>5. stats.max \in Int
    BY <2>3, NumbersAssumption, Parts
  <2>6. Expected(stats) \in Int  BY <2>3, <2>5 DEF Expected
  <2>7. /\ stats'.expectedPrior = Expected(stats) /\ stats'.receivedPrior = stats.received
        /\ stats'.received = stats.received /\ stats'.base = stats.base /\ stats'.max = stats.max
        /\ stats'.cycles = stats.cycles /\ stats'.ssrc = "peer" /\ stats'.hasSsrc
        /\ DOMAIN stats' = DOMAIN stats
    BY <2>1, <2>3 DEF AfterReport, NewReception
  <2>8. /\ seen'.first = seen.first /\ seen'.high = seen.high
        /\ seen'.lostBefore = Expected(stats) - stats.received
        /\ DOMAIN seen' = {"first", "high", "lostBefore"}
    BY <2>1, <2>3, <2>4
  <2>. QED BY <2>1, <2>2, <2>3, <2>6, <2>7, <2>8 DEF StatsInv
<1>5. ASSUME NEW class, SendAudio(class) PROVE StatsInv'
  BY <1>1, <1>5 DEF SendAudio, loop, history
<1>6. ASSUME SendVideo PROVE StatsInv'  BY <1>1, <1>6 DEF SendVideo, loop, history
<1>7. ASSUME NEW bytes, BeginUnit(bytes) PROVE StatsInv'
  BY <1>1, <1>7 DEF BeginUnit, loop, history
<1>8. ASSUME BeginReaction \/ AskClose \/ DoClose \/ \E ok \in BOOLEAN : SendCopy(ok)
      PROVE  StatsInv'
  BY <1>1, <1>8 DEF BeginReaction, AskClose, DoClose, SendCopy, loop, history
<1>9. ASSUME Rekey PROVE StatsInv'  BY <1>1, <1>9 DEF Rekey, history
<1>10. ASSUME NEW sink, NEW fails, EndLoop(sink, fails) PROVE StatsInv'
  BY <1>1, <1>10 DEF EndLoop
<1>11. ASSUME NEW p \in net, ReceiveAppData(p) PROVE StatsInv'
  BY <1>1, <1>11 DEF ReceiveAppData
<1>12. ASSUME UNCHANGED vars PROVE StatsInv'
  BY <1>1, <1>12 DEF vars, loop, history
<1>. QED
  BY <1>2, <1>3, <1>4, <1>5, <1>6, <1>7, <1>8, <1>9, <1>10, <1>11, <1>12 DEF Next

\* RtcpReceptionStats (ReportIsTrue): the highest number with its cycles, the
\* number of packets expected and the loss since the last report are those of
\* the stream, whatever was lost, late or repeated.
THEOREM ReportsAreTrue == Spec => []ReportIsTrue
<1>1. Spec => [](StreamInv /\ StatsInv)
  BY StreamInit, StreamStep, StatsInit, StatsStep, PTL DEF Spec
<1>2. StatsInv => ReportIsTrue
  <2> SUFFICES ASSUME StatsInv, stats.hasSsrc
               PROVE  /\ Report(stats).highest = seen.high + 1
                      /\ Expected(stats) = seen.high - seen.first + 1
                      /\ (Expected(stats) - stats.expectedPrior) - (stats.received - stats.receivedPrior)
                           = Report(stats).cumulative - seen.lostBefore
    BY DEF ReportIsTrue
  <2>1. /\ stats.received \in Nat /\ seen.first \in Nat /\ seen.high \in Nat
        /\ stats.base = seen.first + 1
        /\ stats.max = (seen.high + 1) % SeqSpace
        /\ stats.cycles + stats.max = seen.high + 1
        /\ stats.cycles \in Int /\ stats.expectedPrior \in Int /\ stats.receivedPrior \in Nat
        /\ stats.expectedPrior - stats.receivedPrior = seen.lostBefore
    BY DEF StatsInv
  <2>2. stats.max \in Int  BY <2>1, NumbersAssumption, Parts
  <2>3. /\ Report(stats).highest = stats.cycles + stats.max
        /\ Report(stats).cumulative = Expected(stats) - stats.received
    BY DEF Report
  <2>4. Expected(stats) = seen.high - seen.first + 1
    <3>1. Expected(stats) = stats.cycles + stats.max - stats.base + 1  BY DEF Expected
    <3>2. stats.cycles + stats.max - stats.base + 1 = seen.high + 1 - (seen.first + 1) + 1
      BY <2>1, <2>2
    <3>. QED BY <3>1, <3>2, <2>1
  <2>5. (Expected(stats) - stats.expectedPrior) - (stats.received - stats.receivedPrior)
          = Report(stats).cumulative - seen.lostBefore
    <3>1. Expected(stats) \in Int  BY <2>1, <2>4
    <3>. QED BY <3>1, <2>1, <2>3
  <2>. QED BY <2>1, <2>3, <2>4, <2>5
<1>. QED BY <1>1, <1>2, PTL

-----------------------------------------------------------------------------
(* Reactions.                                                              *)

LEMMA ReactionsInit == Init => ReactionsInv
  BY StreamAssumption DEF Init, ReactionsInv, NewAppDataSender, Free

\* receive on one reaction: reported when it is newer than the last.
LEMMA ReceiveOne ==
  ASSUME NEW last \in Nat, NEW r \in Reaction
  PROVE  ReceiveReaction(last, <<r>>) = IF r.id > last THEN [last |-> r.id, report |-> <<r>>]
                                        ELSE [last |-> last, report |-> <<>>]
<1> DEFINE new == {i \in 1..Len(<<r>>) : <<r>>[i].id > last}
<1>0. ReceiveReaction(last, <<r>>) =
        IF new = {} THEN [last |-> last, report |-> <<>>]
        ELSE [last |-> <<r>>[Min(new)].id, report |-> <<<<r>>[Min(new)]>>]
  BY DEF ReceiveReaction
<1>1. CASE r.id > last
  <2>1. new = {1}  BY <1>1
  <2>2. Min({1}) = 1  BY DEF Min
  <2> HIDE DEF new
  <2>3. ReceiveReaction(last, <<r>>) = [last |-> <<r>>[1].id, report |-> <<<<r>>[1]>>]
    BY <1>0, <2>1, <2>2
  <2>. QED BY <1>1, <2>3
<1>2. CASE ~(r.id > last)
  <2>1. new = {}  BY <1>2
  <2> HIDE DEF new
  <2>. QED BY <1>0, <1>2, <2>1
<1>. QED BY <1>1, <1>2

\* A copy arrives: it counts once, if it is newer than all that were due.
LEMMA ReactionsReceive ==
  ASSUME StreamInv, ReactionsInv, NEW p \in net, ReceiveAppData(p)
  PROVE  ReactionsInv'
<1> DEFINE payload == Unprotect(rx, p.wire).payload
           r == IF payload = Noise THEN [last |-> reactions, report |-> <<>>]
                ELSE ReceiveReaction(reactions, payload)
           id == IF payload = Noise THEN 0 ELSE payload[1].id
           count(i) == Cardinality({k \in DOMAIN r.report : r.report[k].id = i})
           times == [i \in DOMAIN reported.times |-> reported.times[i] + count(i)]
           due == IF id > 0 /\ \A i \in reported.due : i < id
                    THEN reported.due \cup {id} ELSE reported.due
<1>1. /\ kind = "appdata" /\ reactions' = r.last
      /\ reported' = [times |-> times, due |-> due]
      /\ net' \subseteq net /\ UNCHANGED <<kind, peer, app>>
  BY DEF ReceiveAppData, Arrives, sender
<1>2. /\ reported.times = [i \in 1..MaxReactions |-> IF i \in reported.due THEN 1 ELSE 0]
      /\ reported.due \subseteq 1..reactions
      /\ reactions \in {0} \cup (1..MaxReactions \cap reported.due)
  BY DEF ReactionsInv
<1>3. PICK x \in Reaction : p.sent = <<x>>  BY <1>1 DEF ReactionsInv
<1>4. payload = Noise \/ payload = <<x>>
  BY <1>3 DEF Unprotect, Opened, StreamInv, NetCounts
<1>5. x.id \in 1..MaxReactions /\ reactions \in Nat /\ MaxReactions \in Nat
  BY <1>2, StreamAssumption DEF Reaction
<1>6. CASE payload = Noise \/ ~(x.id > reactions)
  <2>1. r = [last |-> reactions, report |-> <<>>]
    <3> HIDE DEF payload
    <3>. QED BY <1>4, <1>5, <1>6, ReceiveOne
  <2>2. ASSUME NEW i PROVE count(i) = 0
    <3>1. {k \in DOMAIN r.report : r.report[k].id = i} = {}
      <4> HIDE DEF r
      <4>. QED BY <2>1
    <3>. QED BY <3>1, FS_EmptySet
  <2>3. due = reported.due
    <3>1. CASE payload = Noise  BY <3>1
    <3>2. CASE payload # Noise
      <4>1. id = x.id /\ ~(x.id > reactions)
        <5> HIDE DEF payload
        <5>. QED BY <1>4, <1>6, <3>2
      <4>2. reactions \in reported.due  BY <4>1, <1>2, <1>5
      <4> HIDE DEF id
      <4>. QED BY <4>1, <4>2, <1>5
    <3>. QED BY <3>1, <3>2
  <2>4. times = reported.times
    <3> HIDE DEF count
    <3>. QED BY <1>2, <2>2
  <2>5. reactions' = reactions  BY <1>1, <2>1
  <2> HIDE DEF times, due, r
  <2>. QED BY <1>1, <1>2, <2>3, <2>4, <2>5 DEF ReactionsInv
<1>7. CASE payload # Noise /\ x.id > reactions
  <2>1. payload = <<x>> /\ id = x.id
    <3> HIDE DEF payload
    <3>. QED BY <1>4, <1>7
  <2>2. r = [last |-> x.id, report |-> <<x>>]
    <3> HIDE DEF payload
    <3>. QED BY <2>1, <1>5, <1>7, ReceiveOne
  <2>3. ASSUME NEW i PROVE count(i) = IF i = x.id THEN 1 ELSE 0
    <3>1. r.report = <<x>>
      <4> HIDE DEF r
      <4>. QED BY <2>2
    <3>2. {k \in DOMAIN r.report : r.report[k].id = i} = IF i = x.id THEN {1} ELSE {}
      <4> HIDE DEF r
      <4>. QED BY <3>1
    <3>. QED BY <3>2, FS_EmptySet, FS_Singleton
  <2>4. x.id \notin reported.due /\ \A i \in reported.due : i < x.id
    BY <1>2, <1>5, <1>7
  <2>5. due = reported.due \cup {x.id}
    <3> HIDE DEF id
    <3>. QED BY <2>1, <2>4, <1>5
  <2>6. times = [i \in 1..MaxReactions |-> IF i \in due THEN 1 ELSE 0]
    <3> HIDE DEF count, due
    <3>. QED BY <1>2, <2>3, <2>4, <2>5
  <2>7. reactions' = x.id
    <3> HIDE DEF r
    <3>. QED BY <1>1, <2>2
  <2>8. due \subseteq 1..x.id /\ x.id \in due
    <3> HIDE DEF due
    <3>. QED BY <1>2, <1>5, <1>7, <2>5
  <2> HIDE DEF times, due, r
  <2>. QED BY <1>1, <1>5, <2>6, <2>7, <2>8 DEF ReactionsInv
<1>. QED BY <1>4, <1>6, <1>7

LEMMA ReactionsStep == StreamInv /\ ReactionsInv /\ [Next]_vars => ReactionsInv'
<1> SUFFICES ASSUME StreamInv, ReactionsInv, [Next]_vars PROVE ReactionsInv'  OBVIOUS
<1>1. ASSUME UNCHANGED <<kind, app, reactions, reported>>, net' \subseteq net \/ kind # "appdata"
      PROVE  ReactionsInv'
  BY <1>1 DEF ReactionsInv
<1>2. ASSUME NEW p \in net, NEW len, NEW sink, NEW fails, ReceiveAudio(p, len, sink, fails)
      PROVE  ReactionsInv'
  BY <1>1, <1>2 DEF ReceiveAudio, sender
<1>3. ASSUME NEW p \in net, NEW garbled, ReceiveVideo(p, garbled) PROVE ReactionsInv'
  BY <1>1, <1>3 DEF ReceiveVideo, sender
<1>4. ASSUME MakeReport PROVE ReactionsInv'  BY <1>1, <1>4 DEF MakeReport, sender
<1>5. ASSUME NEW class, SendAudio(class) PROVE ReactionsInv'
  BY <1>1, <1>5 DEF SendAudio, loop, history
<1>6. ASSUME SendVideo PROVE ReactionsInv'  BY <1>1, <1>6 DEF SendVideo, loop, history
<1>7. ASSUME NEW bytes, BeginUnit(bytes) PROVE ReactionsInv'
  BY <1>1, <1>7 DEF BeginUnit, loop, history
<1>8. ASSUME BeginReaction PROVE ReactionsInv'
  <2>1. /\ UNCHANGED <<kind, net, reactions, reported>> /\ app.tx.transactionID < MaxReactions
        /\ app' = [app EXCEPT !.tx = Begin(@, "emoji")]
    BY <1>8 DEF BeginReaction, loop, history
  <2>2. app'.tx = Begin(app.tx, "emoji")  BY <2>1 DEF StreamInv, Shapes
  <2>3. /\ app'.tx.transactionID = app.tx.transactionID + 1
        /\ app'.tx.lock.emoji = "emoji"
    BY <2>2 DEF Begin, StreamInv, Shapes, NewAppDataSender
  <2>4. app'.tx.transactionID \in 1..MaxReactions
    BY <2>1, <2>3, StreamAssumption DEF ReactionsInv
  <2>. QED BY <2>1, <2>3, <2>4, StreamAssumption DEF ReactionsInv
<1>9. ASSUME NEW ok, SendCopy(ok) PROVE ReactionsInv'
  <2> DEFINE header == CopyHeader(app.tx)
             x == [id |-> app.tx.transactionID, emoji |-> app.tx.lock.emoji]
             q == Packet(header, <<x>>, <<>>, 0)
  <2>1. /\ UNCHANGED <<kind, reactions, reported>> /\ app.tx.lock.left > 0
        /\ app' = [app EXCEPT !.tx = NextCopy(@, ok)]
        /\ net' \subseteq net \cup {q}
    BY <1>9 DEF SendCopy, loop, history, Remaining
  <2>2. x \in Reaction  BY <2>1, StreamAssumption DEF ReactionsInv, Reaction
  <2>3. q.sent = <<x>>  BY DEF Packet
  <2>4. app'.tx = NextCopy(app.tx, ok)  BY <2>1 DEF StreamInv, Shapes
  <2>5. /\ app'.tx.transactionID = app.tx.transactionID
        /\ app'.tx.lock.left > 0 => app'.tx.lock.emoji = app.tx.lock.emoji
    BY <2>4 DEF NextCopy, StreamInv, Shapes, NewAppDataSender, Free
  <2>6. app'.tx.transactionID > 0 /\ app.tx.lock.emoji = "emoji"
    BY <2>1, <2>5 DEF ReactionsInv
  <2> HIDE DEF q, x
  <2>7. kind = "appdata" => \A p \in net' : \E r \in Reaction : p.sent = <<r>>
    BY <2>1, <2>2, <2>3 DEF ReactionsInv
  <2>. QED BY <2>1, <2>5, <2>6, <2>7 DEF ReactionsInv
<1>10. ASSUME AskClose PROVE ReactionsInv'
  <2>1. /\ UNCHANGED <<kind, net, reactions, reported>> /\ app'.tx = app.tx
    BY <1>10 DEF AskClose, loop, history, StreamInv, Shapes
  <2>. QED BY <2>1 DEF ReactionsInv
<1>11. ASSUME DoClose PROVE ReactionsInv'
  <2>1. /\ UNCHANGED <<kind, net, reactions, reported>> /\ app'.tx = CloseSender(app.tx)
    BY <1>11 DEF DoClose, loop, history
  <2>2. app'.tx.transactionID = app.tx.transactionID /\ app'.tx.lock = app.tx.lock
    BY <2>1 DEF CloseSender, StreamInv, Shapes, NewAppDataSender
  <2>. QED BY <2>1, <2>2 DEF ReactionsInv
<1>12. ASSUME Rekey PROVE ReactionsInv'  BY <1>1, <1>12 DEF Rekey, history, sender
<1>13. ASSUME NEW sink, NEW fails, EndLoop(sink, fails) PROVE ReactionsInv'
  BY <1>1, <1>13 DEF EndLoop, sender
<1>14. ASSUME UNCHANGED vars PROVE ReactionsInv'
  BY <1>1, <1>14 DEF vars, loop, history, sender
<1>. QED
  BY <1>2, <1>3, <1>4, <1>5, <1>6, <1>7, <1>8, <1>9, <1>10, <1>11, <1>12, <1>13, <1>14,
     ReactionsReceive DEF Next

\* appDataReceiver (ReactionsOnce): a reaction that arrives before any newer one
\* is reported once, however many copies arrive and in whatever order; no other is.
THEOREM ReactionsReportedOnce == Spec => []ReactionsOnce
<1>1. Spec => [](StreamInv /\ ReactionsInv)
  BY StreamInit, StreamStep, ReactionsInit, ReactionsStep, PTL DEF Spec
<1>2. ReactionsInv => ReactionsOnce  BY DEF ReactionsInv, ReactionsOnce
<1>. QED BY <1>1, <1>2, PTL

-----------------------------------------------------------------------------
(* A unit and its parts.                                                   *)

LEMMA UnitIsSeq ==
  ASSUME NEW u, IsUnit(u)
  PROVE  /\ u \in Seq({u[i] : i \in 1..Len(u)}) /\ Len(u) \in Nat /\ Len(u) > 0
         /\ Tail(u) \in Seq({u[i] : i \in 1..Len(u)}) /\ Len(Tail(u)) = Len(u) - 1
         /\ Head(u) \in {u[i] : i \in 1..Len(u)}
         /\ <<Head(u)>> \o Tail(u) = u
<1> DEFINE S == {u[i] : i \in 1..Len(u)}
<1>1. Len(u) \in Nat /\ Len(u) > 0 /\ u = [i \in 1..Len(u) |-> u[i]]
  BY StreamAssumption DEF IsUnit
<1>2. u \in Seq(S)
  <2>1. PICK n \in Nat : n = Len(u) /\ n > 0  BY <1>1
  <2>2. u \in [1..n -> S]  BY <1>1, <2>1
  <2>. QED BY <2>1, <2>2
<1>3. u # <<>>  BY <1>1
<1>4. Tail(u) \in Seq(S) /\ Len(Tail(u)) = Len(u) - 1 /\ Head(u) \in S
      /\ \A i \in 1..Len(Tail(u)) : Tail(u)[i] = u[i + 1]
  <2> HIDE DEF S
  <2>. QED BY <1>2, <1>3, HeadTailProperties
<1>5. <<Head(u)>> \o Tail(u) = u
  <2> DEFINE v == <<Head(u)>> \o Tail(u)
  <2>1. <<Head(u)>> \in Seq(S) /\ Len(<<Head(u)>>) = 1 /\ <<Head(u)>>[1] = u[1]
    <3>1. Head(u) = u[1] OBVIOUS
    <3> HIDE DEF S
    <3>. QED BY <1>4, <3>1
  <2> HIDE DEF S
  <2>2. v \in Seq(S) /\ Len(v) = 1 + Len(Tail(u))
        /\ \A i \in 1..1 + Len(Tail(u)) : v[i] = IF i <= 1 THEN <<Head(u)>>[i] ELSE Tail(u)[i - 1]
    BY <1>4, <2>1, ConcatProperties
  <2>3. Len(v) = Len(u)  BY <1>1, <1>4, <2>2
  <2>4. ASSUME NEW i \in 1..Len(v) PROVE v[i] = u[i]
    <3>1. CASE i = 1  BY <2>1, <2>2, <2>3, <3>1, <1>1, <1>4
    <3>2. CASE i # 1
      <4>1. i - 1 \in 1..Len(Tail(u)) /\ (i - 1) + 1 = i  BY <2>3, <3>2, <1>1, <1>4
      <4>. QED BY <2>2, <4>1, <3>2, <1>4
    <3>. QED BY <3>1, <3>2
  <2> HIDE DEF v
  <2>5. v = u  BY <1>2, <2>2, <2>3, <2>4, SeqEqual
  <2>. QED BY <2>5 DEF v
<1>. QED BY <1>1, <1>2, <1>4, <1>5

LEMMA FragSizes == FragSize \in Nat /\ FragSize > 0 /\ MtuPayload = FragSize + 2
  BY MtuAssumption DEF FragSize

\* The number of fragments.
LEMMA FragCount ==
  ASSUME NEW L \in Nat, L > FragSize, NEW n, n = (L + FragSize - 1) \div FragSize
  PROVE  /\ n \in Nat /\ n > 1 /\ FragSize * (n - 1) < L /\ L <= FragSize * n
         /\ \A i \in 1..n : i # n => FragSize * i < L
<1>0. FragSize \in Nat \ {0}  BY FragSizes
<1>1. L + FragSize - 1 \in Nat  BY <1>0
<1>2. PICK q \in Nat, r \in 0..FragSize - 1 : L + FragSize - 1 = FragSize * q + r /\ n = q
  BY <1>0, <1>1, NatParts
<1>3. FragSize * q >= L /\ FragSize * (q - 1) = FragSize * q - FragSize /\ FragSize * q \in Int
  BY <1>0, <1>2
<1>4. FragSize * (q - 1) < L  BY <1>0, <1>2, <1>3
<1>5. q > 1
  <2>1. q = 0 => FragSize * q = 0  BY <1>0
  <2>2. q = 1 => FragSize * q = FragSize  BY <1>0
  <2>. QED BY <2>1, <2>2, <1>0, <1>3
<1>6. ASSUME NEW i \in 1..q, i # q PROVE FragSize * i < L
  <2>1. FragSize * (q - 1 - i) >= 0  BY <1>0, <1>6
  <2>2. FragSize * (q - 1 - i) = FragSize * (q - 1) - FragSize * i  BY <1>0
  <2>3. FragSize * (q - 1) \in Int /\ FragSize * i \in Int  BY <1>0
  <2>. QED BY <2>1, <2>2, <2>3, <1>4
<1>. QED BY <1>2, <1>3, <1>4, <1>5, <1>6

\* The i-th fragment of a unit begins where the one before it ended, and ends
\* with the unit if it is the last.
FragEnd(u, i) == IF i = PartCount(u) THEN Len(u) - 1 ELSE FragSize * i

LEMMA PackParts ==
  ASSUME NEW u, IsUnit(u)
  PROVE  LET pkg == PackageH264NALU(u)
             n == PartCount(u)
         IN /\ n \in Nat /\ n > 0 /\ pkg \in Seq({pkg[i] : i \in 1..n}) /\ Len(pkg) = n
            /\ IF Len(u) <= MtuPayload THEN n = 1 /\ pkg[1] = Single(u)
               ELSE /\ n > 1
                    /\ \A i \in 1..n :
                         pkg[i] = [form |-> "fua", header |-> Head(u), start |-> i = 1,
                                   end |-> i = n,
                                   body |-> SubSeq(Tail(u), FragSize * (i - 1) + 1, FragEnd(u, i))]
            /\ \A i \in 1..n : FragSize * (i - 1) <= Len(u) - 1
            /\ Len(u) > MtuPayload => \A i \in 1..n : /\ FragSize * (i - 1) \in Nat
                                                      /\ FragSize * (i - 1) <= FragEnd(u, i)
                                                      /\ FragEnd(u, i) <= Len(u) - 1
                                                      /\ FragEnd(u, i) \in Nat
<1> DEFINE pkg == PackageH264NALU(u)
           n == PartCount(u)
           L == Len(u) - 1
<1>1. Len(u) \in Nat /\ Len(u) > 0 /\ u # <<>> /\ Len(Tail(u)) = L /\ L \in Nat
  <2>1. Len(u) \in Nat /\ Len(u) > 0 /\ Len(Tail(u)) = L  BY UnitIsSeq
  <2>. QED BY <2>1
<1>0. FragSize \in Nat /\ FragSize > 0 /\ MtuPayload = FragSize + 2  BY FragSizes
<1>2. CASE Len(u) <= MtuPayload
  <2>1. pkg = <<Single(u)>>  BY <1>1, <1>2 DEF PackageH264NALU
  <2>2. n = 1 /\ pkg[1] = Single(u) /\ Len(pkg) = 1  BY <2>1 DEF PartCount
  <2>3. pkg \in Seq({pkg[i] : i \in 1..1})  BY <2>1
  <2> HIDE DEF pkg, n
  <2>4. FragSize * (1 - 1) <= L  BY <1>0, <1>1
  <2>5. \A i \in 1..n : FragSize * (i - 1) <= Len(u) - 1  BY <2>2, <2>4
  <2>6. ~(Len(u) > MtuPayload)  BY <1>0, <1>1, <1>2
  <2>. QED BY <2>2, <2>3, <2>5, <2>6, <1>2 DEF pkg, n
<1>3. CASE ~(Len(u) <= MtuPayload)
  <2> DEFINE k == (Len(u) - 1 + FragSize - 1) \div FragSize
  <2>1. pkg = [i \in 1..k |-> Fragment(u, (i - 1) * FragSize + 1)]
    BY <1>1, <1>3 DEF PackageH264NALU
  <2>2. k \in Nat /\ k > 1 /\ FragSize * (k - 1) < L /\ L <= FragSize * k
        /\ \A i \in 1..k : i # k => FragSize * i < L
    <3>1. L > FragSize  BY <1>0, <1>1, <1>3
    <3> HIDE DEF L
    <3>2. k = (L + FragSize - 1) \div FragSize  BY DEF L
    <3> HIDE DEF k
    <3>. QED BY <1>1, <3>1, <3>2, FragCount
  <2> HIDE DEF k
  <2>3. n = k /\ Len(pkg) = k
    <3>1. Len([i \in 1..k |-> Fragment(u, (i - 1) * FragSize + 1)]) = k  BY <2>2
    <3>. QED BY <2>1, <3>1 DEF PartCount
  <2>4. pkg \in Seq({pkg[i] : i \in 1..k})
    <3> HIDE DEF pkg
    <3>1. pkg = [i \in 1..k |-> pkg[i]]  BY <2>1
    <3> DEFINE S == {pkg[i] : i \in 1..k}
    <3>2. pkg \in [1..k -> S]  BY <3>1
    <3> HIDE DEF S
    <3>3. pkg \in Seq(S)  BY <2>2, <3>2, SeqDef
    <3>. QED BY <3>3 DEF S
  <2>5. ASSUME NEW i \in 1..k
        PROVE  /\ FragSize * (i - 1) \in Nat /\ FragSize * (i - 1) <= FragEnd(u, i)
               /\ FragEnd(u, i) <= L /\ FragEnd(u, i) \in Nat
               /\ FragSize * (i - 1) <= L
               /\ pkg[i] = [form |-> "fua", header |-> Head(u), start |-> i = 1, end |-> i = n,
                            body |-> SubSeq(Tail(u), FragSize * (i - 1) + 1, FragEnd(u, i))]
    <3> DEFINE x == FragSize * (i - 1)
               first == (i - 1) * FragSize + 1
               last == Min({first + FragSize - 1, Len(Tail(u))})
    <3>1. x \in Nat /\ first = x + 1 /\ FragSize * i = x + FragSize /\ (x = 0 <=> i = 1)
      <4>1. i - 1 \in Nat  BY <2>2
      <4>2. x \in Nat /\ first = x + 1 /\ FragSize * i = x + FragSize  BY <1>0, <4>1
      <4>3. i - 1 >= 1 => x >= 1  BY <1>0, <4>1
      <4>4. i = 1 => x = 0  BY <1>0
      <4>. QED BY <4>1, <4>2, <4>3, <4>4
    <3>2. last = FragEnd(u, i) /\ (last = L <=> i = n) /\ x <= last /\ last <= L /\ last \in Nat
          /\ x <= L
      <4>1. last = IF first + FragSize - 1 <= L THEN first + FragSize - 1 ELSE L
        <5>1. first + FragSize - 1 \in Int  BY <3>1, <1>0
        <5>. QED BY <1>1, <5>1 DEF Min
      <4>2. first + FragSize - 1 = FragSize * i /\ FragSize * i \in Nat  BY <3>1, <1>0
      <4> HIDE DEF first, last, L
      <4>3. CASE i = k
        <5>1. L <= FragSize * i /\ x < L  BY <2>2, <4>3
        <5>2. last = L
          <6>1. CASE L = FragSize * i  BY <6>1, <4>1, <4>2
          <6>2. CASE L # FragSize * i  BY <6>2, <5>1, <4>1, <4>2, <1>1
          <6>. QED BY <6>1, <6>2
        <5>3. FragEnd(u, i) = L  BY <2>3, <4>3 DEF FragEnd, L
        <5>. QED BY <5>1, <5>2, <5>3, <2>3, <4>3, <1>1, <3>1
      <4>4. CASE i # k
        <5>1. FragSize * i < L  BY <2>2, <4>4
        <5>2. last = FragSize * i /\ last # L  BY <5>1, <4>1, <4>2, <1>1
        <5>3. FragEnd(u, i) = FragSize * i  BY <2>3, <4>4 DEF FragEnd
        <5>. QED BY <5>1, <5>2, <5>3, <2>3, <4>2, <4>4, <3>1, <1>0, <1>1
      <4>. QED BY <4>3, <4>4
    <3>3. pkg[i] = Fragment(u, first)  BY <2>1
    <3>4. Fragment(u, first) = [form |-> "fua", header |-> Head(u), start |-> first = 1,
                                end |-> last = L, body |-> SubSeq(Tail(u), first, last)]
      BY <1>1 DEF Fragment
    <3>5. first = 1 <=> i = 1  BY <3>1
    <3> HIDE DEF pkg, n, x, first, last, L
    <3>. QED BY <3>1, <3>2, <3>3, <3>4, <3>5 DEF x
  <2> HIDE DEF pkg, n
  <2>6. /\ n \in Nat /\ n > 0 /\ n > 1 /\ Len(pkg) = n /\ pkg \in Seq({pkg[i] : i \in 1..n})
    BY <2>2, <2>3, <2>4
  <2>7. \A i \in 1..n :
          pkg[i] = [form |-> "fua", header |-> Head(u), start |-> i = 1, end |-> i = n,
                    body |-> SubSeq(Tail(u), FragSize * (i - 1) + 1, FragEnd(u, i))]
    BY <2>3, <2>5
  <2>8. \A i \in 1..n : /\ FragSize * (i - 1) <= Len(u) - 1
                         /\ FragSize * (i - 1) \in Nat /\ FragSize * (i - 1) <= FragEnd(u, i)
                         /\ FragEnd(u, i) <= Len(u) - 1 /\ FragEnd(u, i) \in Nat
    BY <2>3, <2>5
  <2>. QED BY <2>6, <2>7, <2>8, <1>3 DEF pkg, n
<1>. QED BY <1>2, <1>3

-----------------------------------------------------------------------------
(* The depacketizer.                                                       *)

LEMMA DepackShape ==
  ASSUME NEW d, DOMAIN d = DOMAIN NewDepacketizer, NEW p
  PROVE  DOMAIN Depacketize(d, p).depack = DOMAIN NewDepacketizer
<1>1. DOMAIN Idle(d) = DOMAIN NewDepacketizer  BY DEF Idle
<1>2. DOMAIN AddFragment(d, p) = DOMAIN NewDepacketizer  BY DEF AddFragment, NewDepacketizer
<1>3. DOMAIN [fuActive |-> FALSE, fuBuf |-> <<>>] = DOMAIN NewDepacketizer  BY DEF NewDepacketizer
<1>4. Depacketize(d, p).depack \in
        {Idle(d), AddFragment(d, p), [fuActive |-> FALSE, fuBuf |-> <<>>], d}
  BY DEF Depacketize
<1>. QED BY <1>1, <1>2, <1>3, <1>4

\* What the first i fragments of a unit make.
Begun(u, i) == <<Head(u)>> \o SubSeq(Tail(u), 1, i * FragSize)

\* Depacketize: in order, the last part of a unit completes it, and any other
\* adds to what came before.
LEMMA PartsComplete ==
  ASSUME NEW u, IsUnit(u), Len(u) <= MaxReassembly, NEW i \in 1..PartCount(u),
         NEW d, DOMAIN d = DOMAIN NewDepacketizer,
         i > 1 => d.fuActive /\ d.fuBuf = Begun(u, i - 1)
  PROVE  LET r == Depacketize(d, PackageH264NALU(u)[i]) IN
         IF i = PartCount(u) THEN r.nalus = <<u>>
         ELSE r.nalus = <<>> /\ r.depack.fuActive /\ r.depack.fuBuf = Begun(u, i)
<1> DEFINE p == PackageH264NALU(u)[i]
           n == PartCount(u)
           S == {u[j] : j \in 1..Len(u)}
           T == Tail(u)
           r == Depacketize(d, p)
<1>0. FragSize \in Nat /\ FragSize > 0  BY FragSizes
<1>1. /\ u \in Seq(S) /\ Len(u) \in Nat /\ Len(u) > 0 /\ T \in Seq(S)
      /\ Len(T) = Len(u) - 1 /\ Head(u) \in S /\ <<Head(u)>> \o T = u
  BY UnitIsSeq
<1>2. n \in Nat /\ n > 0 /\ i \in 1..n  BY PackParts
<1>3. CASE Len(u) <= MtuPayload
  <2>1. n = 1 /\ i = 1 /\ p = Single(u)
    <3>1. n = 1 /\ PackageH264NALU(u)[1] = Single(u)  BY <1>3, PackParts
    <3>. QED BY <3>1, <1>2
  <2>2. r.nalus = <<u>>  BY <2>1 DEF Depacketize, Single
  <2>. QED BY <2>1, <2>2
<1>4. CASE ~(Len(u) <= MtuPayload)
  <2> DEFINE x == FragSize * (i - 1)
             e == FragEnd(u, i)
             body == SubSeq(T, x + 1, e)
             buf == IF i = 1 THEN <<Head(u)>> ELSE d.fuBuf
             next == AddFragment(d, p)
  <2>1. /\ n > 1
        /\ p = [form |-> "fua", header |-> Head(u), start |-> i = 1, end |-> i = n, body |-> body]
    <3>1. /\ n > 1
          /\ \A j \in 1..n :
               PackageH264NALU(u)[j] =
                 [form |-> "fua", header |-> Head(u), start |-> j = 1, end |-> j = n,
                  body |-> SubSeq(Tail(u), FragSize * (j - 1) + 1, FragEnd(u, j))]
      BY <1>4, PackParts
    <3>. QED BY <3>1, <1>2
  <2>2. x \in Nat /\ e \in Nat /\ x <= e /\ e <= Len(T)
    <3>1. Len(u) > MtuPayload  BY <1>1, <1>4, MtuAssumption
    <3>2. \A j \in 1..n : /\ FragSize * (j - 1) \in Nat
                          /\ FragSize * (j - 1) <= FragEnd(u, j)
                          /\ FragEnd(u, j) <= Len(u) - 1
                          /\ FragEnd(u, j) \in Nat
      BY <3>1, PackParts
    <3> HIDE DEF n
    <3>. QED BY <3>2, <1>1, <1>2
  <2>3. i # 1 => x = (i - 1) * FragSize  BY <1>0, <1>2
  <2>4. i = 1 => x = 0  BY <1>0
  <2> HIDE DEF p, n, S, T, x, e, r, next
  <2>5. body \in Seq(S) /\ Len(body) = e - x  BY <1>1, <2>2, Stretch
  <2>6. buf = <<Head(u)>> \o SubSeq(T, 1, x)
    <3>1. CASE i = 1
      <4>1. SubSeq(T, 1, x) = <<>>  BY <3>1, <2>4, SubSeqEmpty
      <4>2. <<Head(u)>> \in Seq(S)  BY <1>1
      <4>3. <<Head(u)>> \o <<>> = <<Head(u)>>  BY <4>2, ConcatEmptySeq
      <4>. QED BY <3>1, <4>1, <4>3
    <3>2. CASE i # 1
      <4>1. i > 1  BY <1>2, <3>2
      <4>. QED BY <3>2, <4>1, <2>3 DEF Begun, T
    <3>. QED BY <3>1, <3>2
  <2>7. /\ buf \in Seq(S) /\ Len(buf) = 1 + x
        /\ buf \o body = <<Head(u)>> \o SubSeq(T, 1, e)
    <3>1. <<Head(u)>> \in Seq(S) /\ Len(<<Head(u)>>) = 1  BY <1>1
    <3>2. SubSeq(T, 0 + 1, x) \in Seq(S) /\ Len(SubSeq(T, 0 + 1, x)) = x - 0
      <4>1. 0 <= x /\ x <= Len(T)  BY <1>1, <2>2
      <4>. QED BY <1>1, <2>2, <4>1, Stretch
    <3>3. SubSeq(T, 1, x) \in Seq(S) /\ Len(SubSeq(T, 1, x)) = x  BY <3>2, <2>2
    <3> HIDE DEF buf, body
    <3>4. buf \in Seq(S) /\ Len(buf) = 1 + x  BY <2>6, <3>1, <3>3, ConcatProperties
    <3>5. buf \o body = <<Head(u)>> \o (SubSeq(T, 1, x) \o body)
      <4> DEFINE h == <<Head(u)>>
                 w == SubSeq(T, 1, x)
      <4>1. h \in Seq(S) /\ w \in Seq(S) /\ body \in Seq(S) /\ buf = h \o w
        BY <2>5, <2>6, <3>1, <3>3
      <4> HIDE DEF h, w
      <4>2. (h \o w) \o body = h \o (w \o body)  BY <4>1, ConcatAssociative
      <4>. QED BY <4>1, <4>2 DEF h, w
    <3>6. SubSeq(T, 1, x) \o SubSeq(T, x + 1, e) = SubSeq(T, 1, e)
      <4>1. 1 \in 1..Len(T) + 1 /\ x \in 1 - 1..Len(T) /\ e \in x..Len(T)  BY <1>1, <2>2
      <4>. QED BY <1>1, <4>1, ConcatAdjacentSubSeq
    <3>. QED BY <3>4, <3>5, <3>6 DEF body
  <2> HIDE DEF buf, body
  <2>8. next.fuActive /\ next.fuBuf = buf \o body
    <3>1. CASE i = 1
      <4>1. p.start /\ p.header = Head(u) /\ p.body = body  BY <2>1, <3>1
      <4>. QED BY <3>1, <4>1 DEF next, AddFragment, buf
    <3>2. CASE i # 1
      <4>1. ~p.start /\ p.body = body  BY <2>1, <3>2
      <4>2. d.fuActive /\ d.fuBuf = buf  BY <1>2, <3>2 DEF buf
      <4>3. ~(Len(d.fuBuf) + Len(p.body) > MaxReassembly)
        <5>1. Len(d.fuBuf) = 1 + x /\ Len(p.body) = e - x  BY <4>1, <4>2, <2>5, <2>7
        <5>2. Len(d.fuBuf) + Len(p.body) = 1 + e
          <6>1. (1 + x) + (e - x) = 1 + e  BY <2>2
          <6>. QED BY <5>1, <6>1
        <5>3. 1 + e <= Len(u) /\ 1 + e \in Nat /\ MaxReassembly \in Nat
          BY <1>1, <2>2, MtuAssumption
        <5>4. ~(1 + e > MaxReassembly)  BY <5>3, <1>1
        <5>. QED BY <5>2, <5>4
      <4>4. next = [d EXCEPT !.fuBuf = @ \o body]  BY <4>1, <4>2, <4>3 DEF next, AddFragment
      <4>. QED BY <4>2, <4>4 DEF NewDepacketizer
    <3>. QED BY <3>1, <3>2
  <2>9. r = IF i = n /\ next.fuActive
              THEN [depack |-> [fuActive |-> FALSE, fuBuf |-> <<>>], nalus |-> <<next.fuBuf>>]
              ELSE [depack |-> next, nalus |-> <<>>]
    BY <2>1 DEF r, Depacketize, next
  <2>10. CASE i = n
    <3>1. e = Len(T)  BY <2>10, <1>1 DEF e, n, FragEnd
    <3>2. SubSeq(T, 1, Len(T)) = T  BY <1>1, SubSeqFull
    <3>3. next.fuBuf = u  BY <2>7, <2>8, <3>1, <3>2, <1>1
    <3>4. r.nalus = <<u>>  BY <2>8, <2>9, <2>10, <3>3
    <3>. QED BY <3>4, <2>10 DEF r, p, n
  <2>11. CASE i # n
    <3>1. e = i * FragSize  BY <2>11, <1>0, <1>2 DEF e, n, FragEnd
    <3>2. next.fuBuf = Begun(u, i)  BY <2>7, <2>8, <3>1 DEF Begun, T
    <3>3. r.nalus = <<>> /\ r.depack = next  BY <2>9, <2>11
    <3>. QED BY <3>2, <3>3, <2>8, <2>11 DEF r, p, n
  <2>. QED BY <2>10, <2>11
<1>. QED BY <1>3, <1>4

-----------------------------------------------------------------------------
(* The sender.                                                             *)

LEMMA NoUnit == \A u : u = <<>> => PackageH264NALU(u) = <<>> /\ PartCount(u) = 0
  BY DEF PartCount, PackageH264NALU

LEMMA UnitsInit == Init => UnitsInv
<1> SUFFICES ASSUME Init PROVE UnitsInv  OBVIOUS
<1>1. /\ peer.unit = <<>> /\ peer.rest = <<>> /\ peer.sent = 0 /\ net = {}
      /\ video = [depack |-> NewDepacketizer, au |-> <<>>]
      /\ frame = [next |-> 0, whole |-> TRUE, checked |-> FALSE, out |-> <<>>,
                  unit |-> <<>>, part |-> 0]
  BY DEF Init
<1>2. PartCount(peer.unit) = 0 /\ PackageH264NALU(peer.unit) = <<>> /\ PartCount(frame.unit) = 0
  BY <1>1, NoUnit
<1>3. SentParts = 0  BY <1>1, <1>2 DEF SentParts
<1>4. SubSeq(PackageH264NALU(peer.unit), 0 + 1, 0) = <<>>  BY SubSeqEmpty
<1>5. UnitsInOrder
  BY <1>1, <1>2, <1>3, <1>4 DEF UnitsInOrder, Precedes
<1>6. Reassembles  BY <1>1, <1>2 DEF Reassembles
<1>. QED BY <1>1, <1>5, <1>6 DEF UnitsInv, AccessUnitWhole

\* The unit of BeginUnit is one.
LEMMA NewUnit ==
  ASSUME NEW bytes \in Bodies, NEW n, NEW header
  PROVE  IsUnit(<<header>> \o [i \in 1..bytes |-> <<n, i>>])
<1> DEFINE body == [i \in 1..bytes |-> <<n, i>>]
           S == {header} \cup {<<n, i>> : i \in 1..bytes}
           u == <<header>> \o body
<1>1. bytes \in Nat  BY StreamAssumption
<1>2. body \in [1..bytes -> S]  OBVIOUS
<1>3. body \in Seq(S) /\ Len(body) = bytes
  <2> HIDE DEF S
  <2>1. body \in Seq(S)  BY <1>1, <1>2, SeqDef
  <2>2. Len(body) = bytes  BY <1>1
  <2>. QED BY <2>1, <2>2
<1>4. <<header>> \in Seq(S) /\ Len(<<header>>) = 1  OBVIOUS
<1> HIDE DEF body, S
<1>5. u \in Seq(S) /\ Len(u) = 1 + bytes  BY <1>3, <1>4, ConcatProperties
<1>6. u = [i \in 1..Len(u) |-> u[i]]
  <2> HIDE DEF u
  <2>. QED BY <1>5
<1>7. Len(u) = bytes + 1  BY <1>1, <1>5
<1> HIDE DEF u
<1>8. IsUnit(u)  BY <1>6, <1>7 DEF IsUnit
<1>. QED BY <1>8 DEF u, body

LEMMA UnitsBegin ==
  ASSUME StreamInv, kind = "video", UnitsInOrder, NEW bytes \in Bodies, BeginUnit(bytes)
  PROVE  UnitsInOrder'
<1> DEFINE u == <<[type |-> 1, nri |-> 3]>> \o [i \in 1..bytes |-> <<peer.sent, i>>]
           N == PartCount(u)
<1>1. /\ peer.rest = <<>> /\ UNCHANGED <<net, frame>>
      /\ peer' = [peer EXCEPT !.unit = u, !.rest = PackageH264NALU(u)]
  BY DEF BeginUnit, loop, history
<1>2. IsUnit(u)  BY NewUnit
<1> HIDE DEF u
<1>3. peer'.unit = u /\ peer'.rest = PackageH264NALU(u) /\ peer'.sent = peer.sent
  BY <1>1 DEF StreamInv, Shapes
<1>4. N \in Nat /\ N > 0 /\ PackageH264NALU(u) \in Seq({PackageH264NALU(u)[i] : i \in 1..N})
      /\ Len(PackageH264NALU(u)) = N
  BY <1>2, PackParts
<1>5. SentParts' = 0  BY <1>3, <1>4 DEF SentParts, PartCount
<1>6. SubSeq(PackageH264NALU(u), 0 + 1, N) = PackageH264NALU(u)  BY <1>4, SubSeqFull
<1>7. Len(peer.rest) = 0  BY <1>1
<1>8. PartCount(peer.unit) \in Nat
  <2>1. CASE peer.unit = <<>>  BY <2>1, NoUnit
  <2>2. CASE IsUnit(peer.unit)  BY <2>2, PackParts
  <2>. QED BY <2>1, <2>2 DEF UnitsInOrder
<1>9. SentParts = PartCount(peer.unit)  BY <1>7, <1>8 DEF SentParts
\* The last packet sent ended a unit.
<1>10. ASSUME NEW i, NEW unit, NEW part, Precedes(i, unit, part)
       PROVE  /\ \A p \in net' : p.index = i + 1 =>
                   IF part = PartCount(unit) THEN p.part = 1 ELSE p.unit = unit /\ p.part = part + 1
              /\ i + 1 = peer'.sent => part = PartCount(unit)
  BY <1>1, <1>3, <1>9, <1>10 DEF Precedes
<1>11. Precedes(frame.next - 1, frame.unit, frame.part)'
  <2>1. Precedes(frame.next - 1, frame.unit, frame.part)  BY DEF UnitsInOrder
  <2>. QED BY <2>1, <1>1, <1>5, <1>10 DEF Precedes
<1>12. ASSUME NEW p \in net'
       PROVE  /\ IsUnit(p.unit) /\ p.part \in 1..PartCount(p.unit)
              /\ p.sent = PackageH264NALU(p.unit)[p.part]
              /\ p.marker <=> p.part = PartCount(p.unit)
              /\ Precedes(p.index, p.unit, p.part)'
  <2>1. p \in net  BY <1>1
  <2>2. Precedes(p.index, p.unit, p.part)  BY <2>1 DEF UnitsInOrder
  <2>3. Precedes(p.index, p.unit, p.part)'  BY <2>2, <1>5, <1>10 DEF Precedes
  <2>. QED BY <2>1, <2>3 DEF UnitsInOrder
<1>13. SentParts' \in 0..PartCount(peer'.unit)
       /\ peer'.rest = SubSeq(PackageH264NALU(peer'.unit), SentParts' + 1, PartCount(peer'.unit))
  BY <1>3, <1>4, <1>5, <1>6
<1>14. IsUnit(peer'.unit)  BY <1>2, <1>3
<1>. QED BY <1>11, <1>12, <1>13, <1>14 DEF UnitsInOrder

\* SendVideo: the next part of the unit follows the packet before it.
LEMMA UnitsSend ==
  ASSUME StreamInv, UnitsInOrder, Reassembles, SendVideo
  PROVE  UnitsInOrder'
<1> DEFINE u == peer.unit
           N == PartCount(u)
           m == SentParts
           pkg == PackageH264NALU(u)
           last == Len(peer.rest) = 1
           header == VideoHeader(peer.stream, last, "delta")
           part == Len(PackageH264NALU(peer.unit)) - Len(peer.rest) + 1
           q == Packet(header, Head(peer.rest), peer.unit, part)
<1>1. /\ peer.rest # <<>> /\ net' = Remaining \cup {q} /\ UNCHANGED frame
      /\ peer' = [peer EXCEPT !.pipe = Protect(@, header, 1),
                              !.stream = NextVideo(@, last),
                              !.sent = @ + 1, !.rest = Tail(@)]
  BY DEF SendVideo, loop, history
<1>2. peer.sent \in Nat /\ DOMAIN peer = {"pipe", "stream", "sent", "unit", "rest"}
      /\ \A p \in net : p.index \in 0..peer.sent - 1
  BY DEF StreamInv, Shapes, SenderCounts, NetCounts
<1>3. m \in 0..N /\ peer.rest = SubSeq(pkg, m + 1, N)  BY DEF UnitsInOrder
<1>4. IsUnit(u)
  <2>1. ASSUME u = <<>> PROVE FALSE
    <3>1. N = 0 /\ pkg = <<>>  BY <2>1, NoUnit
    <3>2. m = 0  BY <1>3, <3>1
    <3>3. SubSeq(pkg, 0 + 1, 0) = <<>>  BY SubSeqEmpty
    <3> HIDE DEF m, N, pkg
    <3>. QED BY <1>1, <1>3, <3>1, <3>2, <3>3
  <2>. QED BY <2>1 DEF UnitsInOrder
<1>5. N \in Nat /\ N > 0 /\ pkg \in Seq({pkg[i] : i \in 1..N}) /\ Len(pkg) = N
  BY <1>4, PackParts
<1>6. /\ peer'.unit = u /\ peer'.sent = peer.sent + 1 /\ peer'.rest = Tail(peer.rest)
  <2> HIDE DEF header, last
  <2>. QED BY <1>1, <1>2
<1> DEFINE P == {pkg[i] : i \in 1..N}
<1>a. m = N - Len(peer.rest) /\ part = N - Len(peer.rest) + 1  BY DEF SentParts, PartCount
<1>b. /\ q.index = peer.sent /\ q.sent = Head(peer.rest) /\ q.unit = u /\ q.part = part
      /\ q.marker = last
  BY DEF Packet, VideoHeader
<1> HIDE DEF N, m, pkg, P, header, part, q
<1>7. m < N
  <2>1. m = N => SubSeq(pkg, m + 1, N) = <<>>
    <3>1. m = N => N < m + 1 /\ m + 1 \in Int /\ N \in Int  BY <1>5
    <3>. QED BY <3>1, SubSeqEmpty
  <2>. QED BY <2>1, <1>1, <1>3, <1>5
<1>8. /\ Len(peer.rest) = N - m /\ Head(peer.rest) = pkg[m + 1]
      /\ Tail(peer.rest) = SubSeq(pkg, m + 2, N) /\ Len(Tail(peer.rest)) = N - (m + 1)
  <2>1. pkg \in Seq(P) /\ m \in Nat /\ N <= Len(pkg) /\ m <= N
    BY <1>3, <1>5 DEF P
  <2>2. Len(peer.rest) = N - m  BY <1>3, <1>5, <2>1, Stretch
  <2>3. m + 1 \in 1..Len(pkg) /\ N \in m + 1..Len(pkg)  BY <1>5, <1>7, <2>1
  <2>4. Head(peer.rest) = pkg[m + 1] /\ Tail(peer.rest) = SubSeq(pkg, (m + 1) + 1, N)
    BY <1>3, <2>1, <2>3, HeadTailOfSubSeq
  <2>5. (m + 1) + 1 = m + 2 /\ m + 1 \in Nat /\ m + 1 <= N  BY <1>5, <1>7, <2>1
  <2>6. Len(SubSeq(pkg, (m + 1) + 1, N)) = N - (m + 1)  BY <2>1, <2>5, <1>5, Stretch
  <2>. QED BY <2>2, <2>4, <2>5, <2>6
<1>9. part = m + 1  BY <1>a, <1>3, <1>5, <1>8
<1>10. SentParts' = m + 1
  <2>1. SentParts' = N - Len(Tail(peer.rest))  BY <1>6 DEF SentParts, N
  <2>. QED BY <2>1, <1>3, <1>5, <1>8
<1>11. last <=> part = N  BY <1>3, <1>5, <1>8, <1>9
\* The packet before the new one in the stream.
<1>12. ASSUME NEW i \in Int, i < peer.sent, NEW unit, NEW k, Precedes(i, unit, k)
       PROVE  /\ \A p \in net' : p.index = i + 1 =>
                   IF k = PartCount(unit) THEN p.part = 1 ELSE p.unit = unit /\ p.part = k + 1
              /\ i + 1 # peer'.sent
  <2>1. ASSUME i + 1 = peer.sent
        PROVE  IF k = PartCount(unit) THEN q.part = 1 ELSE q.unit = unit /\ q.part = k + 1
    <3>1. IF m = 0 THEN k = PartCount(unit) ELSE unit = u /\ k = m
      BY <1>12, <2>1 DEF Precedes, m
    <3>2. CASE m = 0  BY <3>1, <3>2, <1>b, <1>9
    <3>3. CASE m # 0
      <4>1. k # PartCount(unit)  BY <3>1, <3>3, <1>3, <1>5, <1>7 DEF N
      <4>. QED BY <3>1, <3>3, <4>1, <1>b, <1>9
    <3>. QED BY <3>2, <3>3
  <2>2. ASSUME NEW p \in net', p.index = i + 1
        PROVE  IF k = PartCount(unit) THEN p.part = 1 ELSE p.unit = unit /\ p.part = k + 1
    <3>1. CASE p \in net  BY <1>12, <2>2, <3>1 DEF Precedes
    <3>2. CASE p = q  BY <1>b, <2>1, <2>2, <3>2
    <3>. QED BY <1>1, <3>1, <3>2 DEF Remaining
  <2>3. i + 1 # peer'.sent  BY <1>2, <1>6, <1>12
  <2>. QED BY <2>2, <2>3
<1>13. Precedes(frame.next - 1, frame.unit, frame.part)'
  <2>1. Precedes(frame.next - 1, frame.unit, frame.part)  BY DEF UnitsInOrder
  <2>2. frame.next - 1 \in Int /\ frame.next - 1 < peer.sent  BY <1>2 DEF Reassembles
  <2> DEFINE i == frame.next - 1
  <2>3. frame' = frame  BY <1>1
  <2>4. (\A p \in net' : p.index = i + 1 =>
           IF frame.part = PartCount(frame.unit) THEN p.part = 1
           ELSE p.unit = frame.unit /\ p.part = frame.part + 1)
        /\ i + 1 # peer'.sent
    <3> HIDE DEF i
    <3>1. i \in Int /\ i < peer.sent /\ Precedes(i, frame.unit, frame.part)  BY <2>1, <2>2 DEF i
    <3>. QED BY <3>1, <1>12
  <2> HIDE DEF i
  <2>5. Precedes(i, frame.unit, frame.part)'
    <3>1. i' = i  BY <2>3 DEF i
    <3>. QED BY <2>3, <2>4, <3>1 DEF Precedes
  <2>. QED BY <2>5 DEF i
<1>14. ASSUME NEW p \in net'
       PROVE  /\ IsUnit(p.unit) /\ p.part \in 1..PartCount(p.unit)
              /\ p.sent = PackageH264NALU(p.unit)[p.part]
              /\ p.marker <=> p.part = PartCount(p.unit)
              /\ Precedes(p.index, p.unit, p.part)'
  <2>1. CASE p \in net
    <3>1. Precedes(p.index, p.unit, p.part)  BY <2>1 DEF UnitsInOrder
    <3>2. p.index \in Int /\ p.index < peer.sent  BY <1>2, <2>1
    <3>3. Precedes(p.index, p.unit, p.part)'  BY <3>1, <3>2, <1>12 DEF Precedes
    <3>. QED BY <2>1, <3>3 DEF UnitsInOrder
  <2>2. CASE p = q
    <3>1. /\ IsUnit(p.unit) /\ p.part \in 1..PartCount(p.unit)
          /\ p.sent = PackageH264NALU(p.unit)[p.part]
          /\ p.marker <=> p.part = PartCount(p.unit)
      <4>1. m + 1 \in 1..N  BY <1>3, <1>5, <1>7
      <4>. QED BY <2>2, <4>1, <1>4, <1>b, <1>8, <1>9, <1>11 DEF N, pkg
    <3>2. ASSUME NEW o \in net', o.index = p.index + 1 PROVE FALSE
      <4>1. o.index = peer.sent + 1  BY <2>2, <1>b, <3>2
      <4>2. CASE o \in net  BY <4>1, <4>2, <1>2
      <4>3. CASE o = q  BY <4>1, <4>3, <1>b, <1>2
      <4>. QED BY <1>1, <4>2, <4>3 DEF Remaining
    <3>3. IF SentParts' = 0 THEN p.part = PartCount(p.unit)
          ELSE p.unit = peer'.unit /\ p.part = SentParts'
      BY <2>2, <1>b, <1>3, <1>6, <1>9, <1>10
    <3>4. Precedes(p.index, p.unit, p.part)'  BY <3>2, <3>3 DEF Precedes
    <3>. QED BY <3>1, <3>4
  <2>. QED BY <1>1, <2>1, <2>2 DEF Remaining
<1>15. SentParts' \in 0..PartCount(peer'.unit)
       /\ peer'.rest = SubSeq(PackageH264NALU(peer'.unit), SentParts' + 1, PartCount(peer'.unit))
  <2>1. m + 1 \in 0..N /\ (m + 1) + 1 = m + 2  BY <1>3, <1>5, <1>7
  <2>2. PartCount(peer'.unit) = N /\ PackageH264NALU(peer'.unit) = pkg  BY <1>6 DEF N, pkg
  <2>. QED BY <2>1, <2>2, <1>6, <1>8, <1>10
<1>16. IsUnit(peer'.unit)  BY <1>4, <1>6
<1>. QED BY <1>13, <1>14, <1>15, <1>16 DEF UnitsInOrder

-----------------------------------------------------------------------------
(* The receiver.                                                           *)

\* Precedes after a step, of the same packet.
Follows(i, unit, part) ==
  /\ \A p \in net' : p.index = i + 1 =>
       IF part = PartCount(unit) THEN p.part = 1 ELSE p.unit = unit /\ p.part = part + 1
  /\ i + 1 = peer'.sent =>
       IF SentParts' = 0 THEN part = PartCount(unit)
       ELSE unit = peer'.unit /\ part = SentParts'

\* Fewer packets in flight are still in order, for the same sender.
LEMMA FewerInFlight ==
  ASSUME UnitsInOrder, net' \subseteq net, UNCHANGED peer,
         NEW i, NEW unit, NEW part, Precedes(i, unit, part)
  PROVE  Follows(i, unit, part)
<1>1. SentParts' = SentParts  BY DEF SentParts
<1>. QED BY <1>1 DEF Precedes, Follows

LEMMA OrderKept ==
  ASSUME UnitsInOrder, net' \subseteq net, UNCHANGED peer,
         Precedes(frame.next - 1, frame.unit, frame.part)'
  PROVE  UnitsInOrder'
<1>1. SentParts' = SentParts  BY DEF SentParts
<1>2. ASSUME NEW p \in net'
      PROVE  /\ IsUnit(p.unit) /\ p.part \in 1..PartCount(p.unit)
             /\ p.sent = PackageH264NALU(p.unit)[p.part]
             /\ p.marker <=> p.part = PartCount(p.unit)
             /\ Precedes(p.index, p.unit, p.part)'
  <2>1. p \in net  BY <1>2
  <2>2. Precedes(p.index, p.unit, p.part)  BY <2>1 DEF UnitsInOrder
  <2>3. Follows(p.index, p.unit, p.part)  BY <2>2, FewerInFlight
  <2>4. Precedes(p.index, p.unit, p.part)'  BY <2>3 DEF Follows, Precedes
  <2>. QED BY <2>1, <2>4 DEF UnitsInOrder
<1>3. /\ peer'.unit = <<>> \/ IsUnit(peer'.unit)
      /\ SentParts' \in 0..PartCount(peer'.unit)
      /\ peer'.rest = SubSeq(PackageH264NALU(peer'.unit), SentParts' + 1, PartCount(peer'.unit))
  BY <1>1 DEF UnitsInOrder
<1>. QED BY <1>2, <1>3 DEF UnitsInOrder

LEMMA UnitsReceive ==
  ASSUME UnitsFit, StreamInv, UnitsInv, NEW p \in net, NEW garbled, ReceiveVideo(p, garbled)
  PROVE  UnitsInv'
<1> DEFINE payload == Unprotect(rx, p.wire).payload
           d  == Depacketize(video.depack, IF payload = Noise THEN garbled ELSE payload)
           au == video.au \o d.nalus
           emits == p.marker /\ au # <<>>
           whole == frame.whole /\ p.index = frame.next /\ payload # Noise
           u == p.unit
           N == PartCount(u)
<1>1. /\ kind = "video" /\ UNCHANGED <<kind, peer>> /\ net' \subseteq net
      /\ video' = [depack |-> d.depack, au |-> IF emits THEN <<>> ELSE au]
      /\ frame' = [next |-> p.index + 1, whole |-> p.marker \/ whole,
                   checked |-> p.marker /\ whole, out |-> IF emits THEN au ELSE <<>>,
                   unit |-> u, part |-> p.part]
  BY DEF ReceiveVideo, Arrives, sender
<1>2. UnitsInOrder /\ Reassembles /\ DOMAIN video.depack = DOMAIN NewDepacketizer
  BY <1>1 DEF UnitsInv
<1>3. /\ IsUnit(u) /\ p.part \in 1..N
      /\ p.sent = PackageH264NALU(u)[p.part]
      /\ p.marker <=> p.part = N
      /\ Precedes(p.index, u, p.part)
  BY <1>2 DEF UnitsInOrder
<1>4. p.index \in 0..peer.sent - 1 /\ p.wire.payload = p.sent /\ peer.sent \in Nat
  BY DEF StreamInv, NetCounts, SenderCounts
<1>5. payload = Noise \/ payload = p.sent  BY <1>4 DEF Unprotect, Opened
<1>6. N \in Nat /\ N > 0  BY <1>3, PackParts
<1>7. DOMAIN d.depack = DOMAIN NewDepacketizer  BY <1>2, DepackShape
<1>8. whole => IF p.part = N THEN d.nalus = <<u>>
               ELSE d.nalus = <<>> /\ d.depack.fuActive /\ d.depack.fuBuf = Begun(u, p.part)
  <2> SUFFICES ASSUME whole
               PROVE  IF p.part = N THEN d.nalus = <<u>>
                      ELSE d.nalus = <<>> /\ d.depack.fuActive /\ d.depack.fuBuf = Begun(u, p.part)
    OBVIOUS
  <2>1. d = Depacketize(video.depack, PackageH264NALU(u)[p.part])  BY <1>3, <1>5
  <2>2. IF frame.part = PartCount(frame.unit) THEN p.part = 1
        ELSE u = frame.unit /\ p.part = frame.part + 1
    <3>1. Precedes(frame.next - 1, frame.unit, frame.part)  BY <1>2 DEF UnitsInOrder
    <3>2. p.index = (frame.next - 1) + 1  BY <1>4
    <3>. QED BY <3>1, <3>2 DEF Precedes
  <2>3. p.part > 1 => video.depack.fuActive /\ video.depack.fuBuf = Begun(u, p.part - 1)
    <3> SUFFICES ASSUME p.part > 1
                 PROVE  video.depack.fuActive /\ video.depack.fuBuf = Begun(u, p.part - 1)
      OBVIOUS
    <3>1. frame.part # PartCount(frame.unit) /\ u = frame.unit /\ p.part = frame.part + 1
      BY <2>2
    <3>2. frame.part \in Nat
      <4>1. CASE frame.part = 0  BY <4>1
      <4>2. CASE frame.part # 0
        <5>1. frame.part \in 1..N  BY <1>2, <3>1, <4>2 DEF Reassembles
        <5>. QED BY <5>1, <1>6
      <4>. QED BY <4>1, <4>2
    <3>3. p.part - 1 = frame.part  BY <3>1, <3>2
    <3>4. video.depack.fuActive /\ video.depack.fuBuf = Begun(frame.unit, frame.part)
      BY <1>2, <3>1 DEF Reassembles, Begun
    <3>. QED BY <3>1, <3>3, <3>4
  <2>4. Len(u) <= MaxReassembly
    <3>1. PICK n \in Bodies : Len(u) = n + 1  BY <1>3 DEF IsUnit
    <3>. QED BY <3>1 DEF UnitsFit
  <2> HIDE DEF d, u, N, whole
  <2>5. LET r == Depacketize(video.depack, PackageH264NALU(u)[p.part]) IN
        IF p.part = PartCount(u) THEN r.nalus = <<u>>
        ELSE r.nalus = <<>> /\ r.depack.fuActive /\ r.depack.fuBuf = Begun(u, p.part)
    <3>1. p.part \in 1..PartCount(u)  BY <1>3 DEF N
    <3>2. IsUnit(u)  BY <1>3
    <3> DEFINE v == video.depack
               i == p.part
    <3>3. DOMAIN v = DOMAIN NewDepacketizer  BY <1>2
    <3>4. i > 1 => v.fuActive /\ v.fuBuf = Begun(u, i - 1)  BY <2>3
    <3>5. i \in 1..PartCount(u)  BY <3>1
    <3> HIDE DEF v, i
    <3>6. LET r == Depacketize(v, PackageH264NALU(u)[i]) IN
          IF i = PartCount(u) THEN r.nalus = <<u>>
          ELSE r.nalus = <<>> /\ r.depack.fuActive /\ r.depack.fuBuf = Begun(u, i)
      BY <2>4, <3>2, <3>3, <3>4, <3>5, PartsComplete
    <3>. QED BY <3>6 DEF v, i
  <2>. QED BY <2>1, <2>5 DEF N
<1> HIDE DEF payload, d, au, emits, whole, u, N
<1>9. /\ video'.depack = d.depack /\ video'.au = (IF emits THEN <<>> ELSE au)
      /\ DOMAIN video' = {"depack", "au"}
      /\ frame'.next = p.index + 1 /\ frame'.whole = (p.marker \/ whole)
      /\ frame'.checked = (p.marker /\ whole) /\ frame'.out = (IF emits THEN au ELSE <<>>)
      /\ frame'.unit = u /\ frame'.part = p.part
  BY <1>1
<1>10. UnitsInOrder'
  <2>1. (p.index + 1) - 1 = p.index  BY <1>4
  <2>2. Follows(p.index, u, p.part)  BY <1>1, <1>2, <1>3, FewerInFlight
  <2>3. Precedes(frame.next - 1, frame.unit, frame.part)'
    <3>1. frame'.next - 1 = p.index  BY <1>9, <2>1
    <3>. QED BY <1>9, <2>2, <3>1 DEF Follows, Precedes
  <2>. QED BY <1>1, <1>2, <2>3, OrderKept
\* A whole unit so far: nothing else has been collected.
<1>11. whole => IF p.marker THEN au = <<u>> ELSE au = <<>>
  <2> SUFFICES ASSUME whole PROVE IF p.marker THEN au = <<u>> ELSE au = <<>>  OBVIOUS
  <2>1. video.au = <<>>  BY <1>2 DEF Reassembles, whole
  <2>2. CASE p.marker
    <3>1. d.nalus = <<u>>  BY <1>3, <1>8, <2>2
    <3>2. <<>> \o <<u>> = <<u>>  OBVIOUS
    <3>. QED BY <2>1, <2>2, <3>1, <3>2 DEF au
  <2>3. CASE ~p.marker
    <3>1. d.nalus = <<>>  BY <1>3, <1>8, <2>3
    <3>2. <<>> \o <<>> = <<>>  OBVIOUS
    <3>. QED BY <2>1, <2>3, <3>1, <3>2 DEF au
  <2>. QED BY <2>2, <2>3
<1>12. AccessUnitWhole'
  <2> SUFFICES ASSUME p.marker, whole PROVE frame'.out = <<frame'.unit>>
    BY <1>9 DEF AccessUnitWhole
  <2>1. au = <<u>>  BY <1>11
  <2>2. emits  BY <2>1 DEF emits
  <2>. QED BY <1>9, <2>1, <2>2
<1>13. Reassembles'
  <2>1. frame'.next \in 0..peer'.sent  BY <1>1, <1>4, <1>9
  <2>2. frame'.part # 0 /\ IsUnit(frame'.unit) /\ frame'.part \in 1..PartCount(frame'.unit)
    BY <1>3, <1>6, <1>9 DEF N
  <2>3. ASSUME frame'.whole
        PROVE  /\ video'.au = <<>>
               /\ frame'.part # PartCount(frame'.unit) =>
                    /\ video'.depack.fuActive
                    /\ video'.depack.fuBuf = <<Head(frame'.unit)>>
                         \o SubSeq(Tail(frame'.unit), 1, frame'.part * FragSize)
    <3>1. CASE p.marker
      <4>1. video'.au = <<>>  BY <1>9, <3>1 DEF emits
      <4>2. frame'.part = PartCount(frame'.unit)  BY <1>3, <1>9, <3>1 DEF N
      <4>. QED BY <4>1, <4>2
    <3>2. CASE ~p.marker
      <4>1. whole  BY <1>9, <2>3, <3>2
      <4>2. video'.au = <<>>  BY <1>9, <1>11, <3>2, <4>1 DEF emits
      <4>3. p.part # N  BY <1>3, <3>2
      <4>4. d.depack.fuActive /\ d.depack.fuBuf = Begun(u, p.part)  BY <1>8, <4>1, <4>3
      <4>. QED BY <1>9, <4>2, <4>4 DEF Begun
    <3>. QED BY <3>1, <3>2
  <2>. QED BY <2>1, <2>2, <2>3 DEF Reassembles
<1>14. kind' = "video"  BY <1>1
<1>. QED BY <1>7, <1>9, <1>10, <1>12, <1>13, <1>14 DEF UnitsInv

-----------------------------------------------------------------------------
(* Every step.                                                             *)

\* The steps that leave video alone.
LEMMA UnitsRest ==
  ASSUME UnitsInv, UNCHANGED <<kind, video, frame>>,
         kind = "video" => peer' = peer /\ net' \subseteq net
  PROVE  UnitsInv'
<1>1. CASE kind = "video"
  <2>1. UnitsInOrder /\ Reassembles /\ net' \subseteq net /\ peer' = peer
    BY <1>1 DEF UnitsInv
  <2>2. Precedes(frame.next - 1, frame.unit, frame.part)'
    <3>1. Precedes(frame.next - 1, frame.unit, frame.part)  BY <2>1 DEF UnitsInOrder
    <3>2. Follows(frame.next - 1, frame.unit, frame.part)  BY <2>1, <3>1, FewerInFlight
    <3>. QED BY <3>2 DEF Follows, Precedes
  <2>3. UnitsInOrder'  BY <2>1, <2>2, OrderKept
  <2>4. Reassembles'  BY <2>1 DEF Reassembles
  <2>. QED BY <1>1, <2>3, <2>4 DEF UnitsInv, AccessUnitWhole
<1>2. CASE kind # "video"  BY <1>2 DEF UnitsInv, AccessUnitWhole
<1>. QED BY <1>1, <1>2

\* The steps of the sender of video leave the receiver alone.
LEMMA UnitsSender ==
  ASSUME UnitsInv, kind = "video", UNCHANGED <<kind, video, frame>>, UnitsInOrder',
         peer.sent \in Nat, peer'.sent \in {peer.sent, peer.sent + 1}
  PROVE  UnitsInv'
<1>1. Reassembles'
  <2>1. Reassembles  BY DEF UnitsInv
  <2>2. frame.next \in 0..peer'.sent  BY <2>1 DEF Reassembles
  <2>. QED BY <2>1, <2>2 DEF Reassembles
<1>. QED BY <1>1 DEF UnitsInv, AccessUnitWhole

LEMMA UnitsStep ==
  ASSUME UnitsFit
  PROVE  StreamInv /\ UnitsInv /\ [Next]_vars => UnitsInv'
<1> SUFFICES ASSUME StreamInv, UnitsInv, [Next]_vars PROVE UnitsInv'  OBVIOUS
<1>0. peer.sent \in Nat /\ DOMAIN peer = {"pipe", "stream", "sent", "unit", "rest"}
  BY DEF StreamInv, SenderCounts, Shapes
<1>1. ASSUME NEW bytes \in Bodies, BeginUnit(bytes) PROVE UnitsInv'
  <2>1. kind = "video" /\ UNCHANGED <<kind, video, frame>> /\ peer'.sent = peer.sent
    BY <1>0, <1>1 DEF BeginUnit, loop, history
  <2>2. UnitsInOrder'  BY <1>1, <2>1, UnitsBegin DEF UnitsInv
  <2>. QED BY <1>0, <2>1, <2>2, UnitsSender
<1>2. ASSUME SendVideo PROVE UnitsInv'
  <2>1. kind = "video" /\ UNCHANGED <<kind, video, frame>> /\ peer'.sent = peer.sent + 1
    BY <1>0, <1>2 DEF SendVideo, loop, history
  <2>2. UnitsInOrder'  BY <1>2, <2>1, UnitsSend DEF UnitsInv
  <2>. QED BY <1>0, <2>1, <2>2, UnitsSender
<1>3. ASSUME NEW p \in net, NEW garbled, ReceiveVideo(p, garbled) PROVE UnitsInv'
  BY <1>3, UnitsReceive
<1>4. ASSUME NEW class, SendAudio(class) PROVE UnitsInv'
  BY <1>4, UnitsRest DEF SendAudio, loop, history
<1>5. ASSUME BeginReaction \/ AskClose \/ DoClose PROVE UnitsInv'
  BY <1>5, UnitsRest DEF BeginReaction, AskClose, DoClose, loop, history
<1>6. ASSUME NEW ok, SendCopy(ok) PROVE UnitsInv'
  <2>1. kind = "appdata"  BY <1>6 DEF SendCopy, StreamInv, SenderCounts
  <2>. QED BY <1>6, <2>1, UnitsRest DEF SendCopy, loop, history
<1>7. ASSUME Rekey PROVE UnitsInv'
  BY <1>7, UnitsRest DEF Rekey, sender, history
<1>8. ASSUME NEW p \in net, NEW len, NEW sink, NEW fails, ReceiveAudio(p, len, sink, fails)
      PROVE  UnitsInv'
  BY <1>8, UnitsRest DEF ReceiveAudio
<1>9. ASSUME NEW p \in net, ReceiveAppData(p) PROVE UnitsInv'
  BY <1>9, UnitsRest DEF ReceiveAppData
<1>10. ASSUME NEW sink, NEW fails, EndLoop(sink, fails) PROVE UnitsInv'
  BY <1>10, UnitsRest DEF EndLoop, sender
<1>11. ASSUME MakeReport PROVE UnitsInv'
  BY <1>11, UnitsRest DEF MakeReport, sender
<1>12. ASSUME UNCHANGED vars PROVE UnitsInv'
  BY <1>12, UnitsRest DEF vars, sender, loop, history
<1>. QED
  BY <1>1, <1>2, <1>3, <1>4, <1>5, <1>6, <1>7, <1>8, <1>9, <1>10, <1>11, <1>12 DEF Next

\* Depacketize and videoAU (AccessUnitWhole): an access unit whose packets arrive
\* in order after the end of another comes out as it was sent, if the
\* depacketizer takes units of that size.
THEOREM UnitsComeOutWhole ==
  ASSUME UnitsFit
  PROVE  Spec => []AccessUnitWhole
<1>1. StreamInv /\ UnitsInv /\ [Next]_vars => UnitsInv'  BY UnitsStep
<1>2. Spec => [](StreamInv /\ UnitsInv)
  BY <1>1, StreamInit, StreamStep, UnitsInit, PTL DEF Spec
<1>3. UnitsInv => AccessUnitWhole  BY DEF UnitsInv
<1>. QED BY <1>2, <1>3, PTL

-----------------------------------------------------------------------------
(* Least elements and induction.                                           *)

LEMMA LeastElement ==
  ASSUME NEW T \in SUBSET Nat, T # {}
  PROVE  \E x \in T : \A y \in T : x <= y
<1> DEFINE R == OpToRel(<, Nat)
<1>1. IsWellFoundedOn(R, Nat)  BY NatLessThanWellFounded
<1>2. \A p \in Nat \X Nat : p[1] < p[2] => p \in R  BY DEF OpToRel
<1>3. ASSUME NEW a \in Nat, NEW b \in Nat, a < b PROVE <<a, b>> \in R
  BY <1>2, <1>3
<1>4. PICK x \in T : \A y \in T : <<y, x>> \notin R
  <2> HIDE DEF R
  <2>. QED BY <1>1, WFMin
<1>5. ASSUME NEW y \in T PROVE x <= y
  <2> HIDE DEF R
  <2>1. ~(y < x)  BY <1>3, <1>4
  <2>. QED BY <2>1
<1>. QED BY <1>4, <1>5

LEMMA NatSetInduction ==
  ASSUME NEW S, 0 \in S, \A n \in Nat : n \in S => n + 1 \in S
  PROVE  Nat \subseteq S
<1> SUFFICES ASSUME Nat \ S # {} PROVE FALSE  OBVIOUS
<1>1. PICK x \in Nat \ S : \A y \in Nat \ S : x <= y  BY LeastElement
<1>2. x - 1 \in Nat /\ x - 1 \in S  BY <1>1
<1>. QED BY <1>1, <1>2

-----------------------------------------------------------------------------
(* Sums of lengths.                                                        *)

\* f is the function SamplesIn defines.
SumsUp(f, s) ==
  f = [i \in 0..Len(s) |-> IF i = 0 THEN 0 ELSE f[i - 1] + s[i].len]

\* f holds the partial sums of the first n frames.
Sums(f, s, n) ==
  /\ f \in [0..n -> Nat] /\ f[0] = 0
  /\ \A i \in 1..n : f[i] = f[i - 1] + s[i].len

LEMMA SumsExist ==
  ASSUME NEW s \in Seq(Frames), NEW n \in 0..Len(s)
  PROVE  \E f : Sums(f, s, n)
<1> DEFINE S == {k \in Nat : k <= Len(s) => \E f : Sums(f, s, k)}
<1>1. 0 \in S
  <2> DEFINE f == [i \in 0..0 |-> 0]
  <2>1. f \in [0..0 -> Nat] /\ f[0] = 0  OBVIOUS
  <2> HIDE DEF f
  <2>2. Sums(f, s, 0)  BY <2>1 DEF Sums
  <2>. QED BY <2>2
<1>2. ASSUME NEW k \in Nat, k \in S PROVE k + 1 \in S
  <2> SUFFICES ASSUME k + 1 <= Len(s) PROVE \E f : Sums(f, s, k + 1)  OBVIOUS
  <2>1. PICK f : Sums(f, s, k)  BY <1>2
  <2>2. s[k + 1] \in Frames  OBVIOUS
  <2>3. s[k + 1].len \in Nat  BY <2>2 DEF Frames
  <2> DEFINE g == [i \in 0..k + 1 |-> IF i = k + 1 THEN f[k] + s[k + 1].len ELSE f[i]]
  <2>4. g \in [0..k + 1 -> Nat] /\ g[0] = 0  BY <2>1, <2>3 DEF Sums
  <2>5. \A i \in 1..k + 1 : g[i] = g[i - 1] + s[i].len  BY <2>1 DEF Sums
  <2> HIDE DEF g
  <2>6. Sums(g, s, k + 1)  BY <2>4, <2>5 DEF Sums
  <2>. QED BY <2>6
<1>3. Nat \subseteq S
  <2> HIDE DEF S
  <2>. QED BY <1>1, <1>2, NatSetInduction
<1>. QED BY <1>3

\* Two sums over the same stretch differ by what came before it.
LEMMA SumsAgree ==
  ASSUME NEW s \in Seq(Frames), NEW t \in Seq(Frames), NEW d \in Nat, Len(s) + d <= Len(t),
         NEW f, Sums(f, s, Len(s)), NEW g, Sums(g, t, Len(t)),
         \A i \in 1..Len(s) : s[i] = t[i + d]
  PROVE  g[Len(s) + d] = g[d] + f[Len(s)]
<1> DEFINE S == {j \in Nat : j <= Len(s) => g[j + d] = g[d] + f[j]}
<1>0. Len(s) \in Nat /\ Len(t) \in Nat  OBVIOUS
<1>1. 0 \in S
  <2>1. g[d] \in Nat /\ f[0] = 0  BY <1>0 DEF Sums
  <2>. QED BY <2>1
<1>2. ASSUME NEW j \in Nat, j \in S PROVE j + 1 \in S
  <2> SUFFICES ASSUME j + 1 <= Len(s) PROVE g[j + 1 + d] = g[d] + f[j + 1]  OBVIOUS
  <2>1. g[j + d] = g[d] + f[j]  BY <1>2
  <2>2. f[j + 1] = f[j] + s[j + 1].len /\ f[j] \in Nat /\ f[j + 1] \in Nat
    <3>1. j + 1 \in 1..Len(s) /\ (j + 1) - 1 = j /\ j \in 0..Len(s) /\ j + 1 \in 0..Len(s)
      BY <1>0
    <3>. QED BY <3>1 DEF Sums
  <2>3. g[j + 1 + d] = g[j + d] + t[j + 1 + d].len /\ g[j + d] \in Nat /\ g[d] \in Nat
    <3>1. j + 1 + d \in 1..Len(t) /\ (j + 1 + d) - 1 = j + d /\ j + d \in 0..Len(t)
          /\ d \in 0..Len(t)
      BY <1>0
    <3>. QED BY <3>1 DEF Sums
  <2>4. s[j + 1] = t[j + 1 + d]  BY <1>0
  <2>5. s[j + 1].len \in Nat
    <3>1. s[j + 1] \in Frames  BY <1>0
    <3>. QED BY <3>1 DEF Frames
  <2>6. PICK x \in Nat : x = s[j + 1].len /\ x = t[j + 1 + d].len  BY <2>4, <2>5
  <2>7. f[j + 1] = f[j] + x /\ g[j + 1 + d] = g[j + d] + x
    BY <2>2, <2>3, <2>6
  <2>8. PICK u \in Nat, v \in Nat : u = g[d] /\ v = f[j]  BY <2>2, <2>3
  <2>9. f[j + 1] = v + x  BY <2>7, <2>8
  <2>10. g[j + 1 + d] = (u + v) + x  BY <2>1, <2>7, <2>8
  <2>11. (u + v) + x = u + (v + x)  OBVIOUS
  <2>. QED BY <2>8, <2>9, <2>10, <2>11
<1>3. Nat \subseteq S
  <2> HIDE DEF S
  <2>. QED BY <1>1, <1>2, NatSetInduction
<1>. QED BY <1>0, <1>3

LEMMA SamplesAreSums ==
  ASSUME NEW s \in Seq(Frames), NEW f, Sums(f, s, Len(s))
  PROVE  SamplesIn(s) = f[Len(s)]
<1> DEFINE g == CHOOSE h : SumsUp(h, s)
<1>1. f = [i \in 0..Len(s) |-> IF i = 0 THEN 0 ELSE f[i - 1] + s[i].len]  BY DEF Sums
<1>2. SumsUp(f, s)  BY <1>1 DEF SumsUp
<1>3. SumsUp(g, s)
  <2> HIDE <1>1
  <2>. QED BY <1>2
<1>4. SamplesIn(s) = g[Len(s)]  BY DEF SamplesIn, SumsUp
<1>5. g = [i \in 0..Len(s) |-> IF i = 0 THEN 0 ELSE g[i - 1] + s[i].len]  BY <1>3 DEF SumsUp
<1> HIDE DEF g
<1> DEFINE S == {j \in Nat : j <= Len(s) => g[j] = f[j]}
<1>6. Nat \subseteq S
  <2>1. 0 \in S  BY <1>5 DEF Sums
  <2>2. ASSUME NEW j \in Nat, j \in S PROVE j + 1 \in S
    <3> SUFFICES ASSUME j + 1 <= Len(s) PROVE g[j + 1] = f[j + 1]  OBVIOUS
    <3>1. g[j] = f[j]  BY <2>2
    <3>2. j + 1 \in 1..Len(s) /\ (j + 1) - 1 = j /\ j + 1 \in 0..Len(s) /\ j + 1 # 0  OBVIOUS
    <3>3. g[j + 1] = g[j] + s[j + 1].len  BY <1>5, <3>2
    <3>4. f[j + 1] = f[j] + s[j + 1].len  BY <3>2 DEF Sums
    <3>. QED BY <3>1, <3>3, <3>4
  <2> HIDE DEF S
  <2>. QED BY <2>1, <2>2, NatSetInduction
<1>7. g[Len(s)] = f[Len(s)]  BY <1>6
<1>. QED BY <1>4, <1>7

\* SamplesIn of a stretch: the difference of the sums at its ends.
LEMMA StretchSum ==
  ASSUME NEW s \in Seq(Frames), NEW f, Sums(f, s, Len(s)),
         NEW a \in Nat, NEW b \in Nat, a <= b, b <= Len(s)
  PROVE  /\ SamplesIn(SubSeq(s, a + 1, b)) \in Nat
         /\ f[b] = f[a] + SamplesIn(SubSeq(s, a + 1, b))
<1> DEFINE t == SubSeq(s, a + 1, b)
<1>1. t \in Seq(Frames) /\ Len(t) = b - a /\ \A i \in 1..b - a : t[i] = s[i + a]
  BY Stretch
<1> HIDE DEF t
<1>2. Len(t) \in Nat /\ Len(t) \in 0..Len(t) BY <1>1
<1>3. PICK g : Sums(g, t, Len(t))  BY <1>1, <1>2, SumsExist
<1>4. SamplesIn(t) = g[Len(t)] /\ g[Len(t)] \in Nat
  BY <1>1, <1>2, <1>3, SamplesAreSums DEF Sums
<1>5. f[Len(t) + a] = f[a] + g[Len(t)]
  <2>1. Len(t) + a <= Len(s) /\ Len(s) \in Nat  BY <1>1
  <2>2. \A i \in 1..Len(t) : t[i] = s[i + a]  BY <1>1
  <2>3. t \in Seq(Frames)  BY <1>1
  <2>. QED BY <1>3, <2>1, <2>2, <2>3, SumsAgree
<1>6. Len(t) + a = b  BY <1>1
<1>. QED BY <1>4, <1>5, <1>6 DEF t

\* SamplesIn of a sequence, of none, and of one more frame.
LEMMA SamplesNat ==
  ASSUME NEW s \in Seq(Frames)
  PROVE  SamplesIn(s) \in Nat
<1>1. PICK f : Sums(f, s, Len(s))  BY SumsExist
<1>. QED BY <1>1, SamplesAreSums DEF Sums

LEMMA SamplesNone ==
  ASSUME NEW s, s = <<>>
  PROVE  SamplesIn(s) = 0
<1>1. s \in Seq(Frames) /\ Len(s) = 0 /\ Len(s) \in 0..Len(s)  OBVIOUS
<1>2. PICK f : Sums(f, s, Len(s))  BY <1>1, SumsExist
<1>3. SamplesIn(s) = f[Len(s)]  BY <1>1, <1>2, SamplesAreSums
<1>4. f[0] = 0  BY <1>2 DEF Sums
<1>. QED BY <1>1, <1>3, <1>4

LEMMA SamplesAppend ==
  ASSUME NEW s \in Seq(Frames), NEW e \in Frames
  PROVE  SamplesIn(Append(s, e)) = SamplesIn(s) + e.len
<1> DEFINE t == Append(s, e)
<1>1. /\ t \in Seq(Frames) /\ Len(t) = Len(s) + 1 /\ Len(s) \in Nat
      /\ \A i \in 1..Len(s) : t[i] = s[i]
      /\ t[Len(s) + 1] = e
  BY AppendProperties
<1> HIDE DEF t
<1>2. PICK f : Sums(f, s, Len(s))  BY SumsExist
<1>3. PICK g : Sums(g, t, Len(t))  BY <1>1, SumsExist
<1>4. SamplesIn(s) = f[Len(s)] /\ SamplesIn(t) = g[Len(t)]
  BY <1>1, <1>2, <1>3, SamplesAreSums
<1>5. g[Len(s) + 0] = g[0] + f[Len(s)]
  <2>1. \A i \in 1..Len(s) : s[i] = t[i + 0]  BY <1>1
  <2>2. Len(s) + 0 <= Len(t)  BY <1>1
  <2>. QED BY <1>1, <1>2, <1>3, <2>1, <2>2, SumsAgree
<1>6. g[Len(s)] = f[Len(s)] /\ f[Len(s)] \in Nat
  <2>1. g[0] = 0 /\ f[Len(s)] \in Nat  BY <1>1, <1>2, <1>3 DEF Sums
  <2>. QED BY <1>5, <2>1, <1>1
<1>7. g[Len(t)] = g[Len(s)] + e.len
  <2>1. Len(t) \in 1..Len(t) /\ Len(t) - 1 = Len(s)  BY <1>1
  <2>2. g[Len(t)] = g[Len(t) - 1] + t[Len(t)].len  BY <1>3, <2>1 DEF Sums
  <2>. QED BY <1>1, <2>1, <2>2
<1>. QED BY <1>4, <1>6, <1>7 DEF t

-----------------------------------------------------------------------------
(* What a push does with the frames collected.                             *)

\* Of the frames c, w goes to the sink and the later q is kept.
Pieces(c, w, q) ==
  \E a, b, e \in Nat :
    /\ a <= b /\ b <= e /\ e <= Len(c)
    /\ w = SubSeq(c, a + 1, b) /\ q = SubSeq(c, e + 1, Len(c))

LEMMA PiecesSum ==
  ASSUME NEW c \in Seq(Frames), NEW w, NEW q, Pieces(c, w, q)
  PROVE  /\ w \in Seq(Frames) /\ q \in Seq(Frames)
         /\ SamplesIn(w) \in Nat /\ SamplesIn(q) \in Nat
         /\ SamplesIn(w) + SamplesIn(q) <= SamplesIn(c)
<1>1. PICK a, b, e \in Nat :
        /\ a <= b /\ b <= e /\ e <= Len(c)
        /\ w = SubSeq(c, a + 1, b) /\ q = SubSeq(c, e + 1, Len(c))
  BY DEF Pieces
<1>2. Len(c) \in Nat /\ Len(c) \in 0..Len(c) /\ b <= Len(c)  BY <1>1
<1>3. w \in Seq(Frames) /\ q \in Seq(Frames)  BY <1>1, <1>2, Stretch
<1>4. PICK f : Sums(f, c, Len(c))  BY <1>2, SumsExist
<1>5. SamplesIn(c) = f[Len(c)] /\ f[a] \in Nat /\ f[b] \in Nat /\ f[e] \in Nat /\ f[Len(c)] \in Nat
  <2>1. a \in 0..Len(c) /\ b \in 0..Len(c) /\ e \in 0..Len(c)  BY <1>1, <1>2
  <2>2. f \in [0..Len(c) -> Nat]  BY <1>4 DEF Sums
  <2>. QED BY <2>1, <2>2, <1>2, <1>4, SamplesAreSums
<1>6. SamplesIn(w) \in Nat /\ f[b] = f[a] + SamplesIn(w)
  BY <1>1, <1>2, <1>4, StretchSum
<1>7. SamplesIn(q) \in Nat /\ f[Len(c)] = f[e] + SamplesIn(q)
  BY <1>1, <1>2, <1>4, StretchSum
<1>8. PICK n \in Nat : f[e] = f[b] + n
  <2>1. SamplesIn(SubSeq(c, b + 1, e)) \in Nat /\ f[e] = f[b] + SamplesIn(SubSeq(c, b + 1, e))
    BY <1>1, <1>4, StretchSum
  <2>. QED BY <2>1
<1>9. SamplesIn(w) + SamplesIn(q) <= f[Len(c)]
  <2>1. PICK x \in Nat, y \in Nat, z \in Nat, u \in Nat, v \in Nat :
          x = f[a] /\ y = f[b] /\ z = f[e] /\ u = SamplesIn(w) /\ v = SamplesIn(q)
    BY <1>5, <1>6, <1>7
  <2>2. y = x + u /\ z = y + n /\ f[Len(c)] = z + v  BY <2>1, <1>6, <1>7, <1>8
  <2>3. u + v <= z + v  BY <2>2
  <2>. QED BY <2>1, <2>2, <2>3
<1>. QED BY <1>3, <1>5, <1>6, <1>7, <1>9

LEMMA PiecesAscend ==
  ASSUME NEW c \in Seq(Frames), NEW w, NEW q, Pieces(c, w, q),
         NEW lo \in Int, NEW hi \in Int, Ascends(c, lo, hi)
  PROVE  /\ Ascends(w, lo, hi)
         /\ Ascends(q, IF w = <<>> THEN lo ELSE w[Len(w)].index, hi)
<1>1. PICK a, b, e \in Nat :
        /\ a <= b /\ b <= e /\ e <= Len(c)
        /\ w = SubSeq(c, a + 1, b) /\ q = SubSeq(c, e + 1, Len(c))
  BY DEF Pieces
<1>2. Len(c) \in Nat /\ b <= Len(c)  BY <1>1
<1>3. w \in Seq(Frames) /\ Len(w) = b - a /\ \A i \in 1..b - a : w[i] = c[i + a]
  BY <1>1, <1>2, Stretch
<1>4. q \in Seq(Frames) /\ Len(q) = Len(c) - e /\ \A i \in 1..Len(c) - e : q[i] = c[i + e]
  BY <1>1, <1>2, Stretch
<1>5. \A i \in 1..Len(c) : lo < c[i].index /\ c[i].index < hi  BY DEF Ascends
<1>6. \A i, j \in 1..Len(c) : i < j => c[i].index < c[j].index  BY DEF Ascends
<1>7. Ascends(w, lo, hi)
  <2>1. ASSUME NEW i \in 1..Len(w) PROVE i + a \in 1..Len(c) /\ w[i] = c[i + a]
    <3>1. i \in 1..b - a  BY <1>3
    <3>2. i + a \in 1..Len(c)  BY <3>1, <1>1, <1>2
    <3>. QED BY <3>1, <3>2, <1>3
  <2>2. ASSUME NEW i \in 1..Len(w), NEW j \in 1..Len(w), i < j PROVE w[i].index < w[j].index
    <3>1. i + a < j + a  BY <1>3, <2>2
    <3>. QED BY <2>1, <3>1, <1>6
  <2>. QED BY <2>1, <2>2, <1>5 DEF Ascends
<1>8. ASSUME NEW i \in 1..Len(q) PROVE i + e \in 1..Len(c) /\ q[i] = c[i + e]
  BY <1>1, <1>2, <1>4
<1>9. ASSUME NEW i \in 1..Len(q), NEW j \in 1..Len(q), i < j PROVE q[i].index < q[j].index
  <2>1. i + e < j + e  BY <1>4, <1>9
  <2>. QED BY <1>8, <2>1, <1>6
<1>10. ASSUME NEW i \in 1..Len(q), w # <<>> PROVE w[Len(w)].index < q[i].index
  <2>1. b - a \in 1..b - a  BY <1>1, <1>3, <1>10
  <2>2. w[Len(w)] = c[(b - a) + a]  BY <1>3, <2>1
  <2>3. (b - a) + a = b  BY <1>1
  <2>4. b \in 1..Len(c) /\ b < i + e  BY <1>1, <1>2, <2>1, <1>4
  <2>. QED BY <1>6, <1>8, <2>2, <2>3, <2>4
<1>11. Ascends(q, IF w = <<>> THEN lo ELSE w[Len(w)].index, hi)
  BY <1>5, <1>8, <1>9, <1>10 DEF Ascends
<1>. QED BY <1>7, <1>11

\* Trimmed: the oldest frames go, the newest stays.
LEMMA TrimmedKeeps ==
  ASSUME NEW p, DOMAIN p = DOMAIN NewPlayout, p.prefill \in Seq(Frames), p.prefill # <<>>
  PROVE  LET t == Trimmed(p) IN
         /\ \E m \in Nat : m < Len(p.prefill) /\ t.prefill = SubSeq(p.prefill, m + 1, Len(p.prefill))
         /\ t.prefillSamples = SamplesIn(t.prefill)
         /\ t.pending = p.pending /\ t.started = p.started /\ DOMAIN t = DOMAIN p
<1> DEFINE q == p.prefill
           keep == {i \in 1..Len(q) : i = Len(q) \/ SamplesIn(SubSeq(q, i, Len(q))) <= MaxGap}
           rest == SubSeq(q, Min(keep), Len(q))
           t == Trimmed(p)
<1>1. Len(q) \in keep /\ keep \subseteq Nat /\ keep \subseteq 1..Len(q)  OBVIOUS
<1>2. t = [p EXCEPT !.prefill = rest, !.prefillSamples = SamplesIn(rest)]  BY DEF Trimmed
<1>3. Min(keep) \in keep
  <2> HIDE DEF keep
  <2>. QED BY <1>1, LeastElement DEF Min
<1>4. t.prefill = rest /\ t.prefillSamples = SamplesIn(rest) /\ t.pending = p.pending
      /\ t.started = p.started /\ DOMAIN t = DOMAIN p
  <2> HIDE DEF t, rest
  <2>. QED BY <1>2 DEF NewPlayout
<1>5. PICK m \in Nat : Min(keep) = m + 1 /\ m < Len(q)
  <2>1. Min(keep) \in 1..Len(q)  BY <1>1, <1>3
  <2>2. Min(keep) - 1 \in Nat /\ Min(keep) = (Min(keep) - 1) + 1 /\ Min(keep) - 1 < Len(q)
    <3> HIDE DEF keep
    <3>. QED BY <2>1
  <2>. QED BY <2>2
<1>6. rest = SubSeq(q, m + 1, Len(q))  BY <1>5
<1> HIDE DEF t, rest, keep
<1>7. t.prefill = SubSeq(q, m + 1, Len(q)) /\ t.prefillSamples = SamplesIn(t.prefill)
  BY <1>4, <1>6
<1>. QED BY <1>4, <1>5, <1>7 DEF t

\* Drained: what the sink takes and what stays are the two parts of it.
LEMMA DrainedSplits ==
  ASSUME NEW p, DOMAIN p = DOMAIN NewPlayout, p.prefill \in Seq(Frames),
         NEW fails \in Nat \ {0}
  PROVE  LET r == Drained(p, fails)
             t == r.buffer
         IN /\ \E d \in Nat : /\ d <= Len(p.prefill)
                              /\ r.written = SubSeq(p.prefill, 1, d)
                              /\ t.prefill = SubSeq(p.prefill, d + 1, Len(p.prefill))
            /\ t.prefillSamples = SamplesIn(t.prefill)
            /\ t.pending = p.pending /\ (t.started => t.prefill = <<>>) /\ DOMAIN t = DOMAIN p
<1> DEFINE q == p.prefill
           d == Min({fails - 1, Len(q)})
           rest == SubSeq(q, d + 1, Len(q))
           r == Drained(p, fails)
           t == r.buffer
<1>1. d \in Nat /\ d <= Len(q)
  <2>1. fails - 1 \in Int /\ Len(q) \in Nat  OBVIOUS
  <2>2. d = IF fails - 1 <= Len(q) THEN fails - 1 ELSE Len(q)  BY <2>1 DEF Min
  <2> HIDE DEF d
  <2>. QED BY <2>1, <2>2
<1>2. t = [p EXCEPT !.prefill = rest, !.prefillSamples = SamplesIn(rest), !.started = rest = <<>>]
      /\ r.written = SubSeq(q, 1, d)
  BY DEF Drained, Result
<1>3. t.prefill = rest /\ t.prefillSamples = SamplesIn(rest) /\ t.pending = p.pending
      /\ t.started = (rest = <<>>) /\ DOMAIN t = DOMAIN p
  <2> HIDE DEF t, rest
  <2>. QED BY <1>2 DEF NewPlayout
<1>4. rest = SubSeq(q, d + 1, Len(q))  OBVIOUS
<1>5. r.written = SubSeq(q, 1, d)  BY <1>2
<1> HIDE DEF t, rest, d, r
<1>6. /\ t.prefill = SubSeq(q, d + 1, Len(q)) /\ t.prefillSamples = SamplesIn(t.prefill)
      /\ (t.started => t.prefill = <<>>)
  BY <1>3, <1>4
<1>. QED BY <1>1, <1>3, <1>5, <1>6 DEF t, r

\* alignAudioFrame: a frame no longer than the step.
LEMMA AlignedFrame ==
  ASSUME NEW g \in Frames, NEW n \in Nat
  PROVE  LET r == alignAudioFrame(g, n) IN
         r \in Frames /\ r.len <= n /\ r.index = g.index
<1> DEFINE longest == Max({g.len, FrameLen})
           len == Min({n, longest})
<1>1. g.len \in Nat /\ g = [timestamp |-> g.timestamp, len |-> g.len, index |-> g.index]
      /\ g.timestamp \in Nat /\ g.index \in Nat
  BY DEF Frames
<1>2. longest \in Nat
  <2>1. FrameLen \in Nat  BY PlayoutAssumption
  <2>2. longest = IF g.len >= FrameLen THEN g.len ELSE FrameLen  BY <1>1, <2>1, MaxPair
  <2>. QED BY <1>1, <2>1, <2>2
<1>3. len \in Nat /\ len <= n
  <2> HIDE DEF longest
  <2>1. len = IF n <= longest THEN n ELSE longest  BY <1>2 DEF Min
  <2>. QED BY <1>2, <2>1
<1>4. alignAudioFrame(g, n) = [g EXCEPT !.len = len]  BY DEF alignAudioFrame
<1> HIDE DEF len
<1>5. [g EXCEPT !.len = len] \in Frames  BY <1>3 DEF Frames
<1>6. [g EXCEPT !.len = len].len = len /\ [g EXCEPT !.len = len].index = g.index
  BY DEF Frames
<1>. QED BY <1>3, <1>4, <1>5, <1>6

\* Push, when the playout goes on: of what was collected and the frame that
\* was waiting, a part goes to the sink and a later part stays.
LEMMA PushPieces ==
  ASSUME NEW p, DOMAIN p = DOMAIN NewPlayout, p.prefill \in Seq(Frames),
         p.prefillSamples = SamplesIn(p.prefill), p.started => p.prefill = <<>>,
         p.pending \in Frames,
         NEW f, f.timestamp \in Nat, ~Restarts(p, f.timestamp),
         NEW sink, NEW fails \in Failures
  PROVE  LET delta == (f.timestamp - p.pending.timestamp) % TsMod
             r == Push(p, f, sink, fails)
             b == r.buffer
         IN /\ Pieces(Append(p.prefill, alignAudioFrame(p.pending, delta)), r.written, b.prefill)
            /\ b.prefillSamples = SamplesIn(b.prefill) /\ b.pending = f
            /\ (b.started => b.prefill = <<>>) /\ DOMAIN b = DOMAIN NewPlayout
<1> DEFINE delta == (f.timestamp - p.pending.timestamp) % TsMod
           ready == alignAudioFrame(p.pending, delta)
           next == [p EXCEPT !.pending = f]
           kept == IF p.started THEN <<>> ELSE p.prefill
           c == Append(p.prefill, ready)
           grown == [next EXCEPT !.started = FALSE, !.prefill = Append(kept, ready)]
           more == Trimmed(grown)
           r == Push(p, f, sink, fails)
           b == r.buffer
<1>1. p.pending # NoFrame
  <2>1. DOMAIN p.pending = {"timestamp", "len", "index"}  BY DEF Frames
  <2>2. "index" \notin DOMAIN NoFrame  BY DEF NoFrame
  <2>. QED BY <2>1, <2>2
<1>2. ready \in Frames
  <2>1. f.timestamp - p.pending.timestamp \in Int  BY DEF Frames
  <2>2. PICK n \in Int : n = f.timestamp - p.pending.timestamp  BY <2>1
  <2>3. delta \in Nat
    <3>1. n % TsMod \in 0..TsMod - 1  BY NumbersAssumption
    <3>. QED BY <3>1, <2>2, NumbersAssumption
  <2> HIDE DEF delta
  <2>. QED BY <2>3, AlignedFrame
<1>3. r = IF p.started /\ sink THEN Result(next, IF fails = 1 THEN <<>> ELSE <<ready>>, FALSE)
          ELSE IF ~sink \/ more.prefillSamples < Prefill THEN Result(more, <<>>, FALSE)
          ELSE Drained(more, fails)
  <2> HIDE DEF ready, more
  <2>. QED BY <1>1 DEF Push, ready, more
<1>4. /\ c \in Seq(Frames) /\ c # <<>> /\ Len(c) = Len(p.prefill) + 1
      /\ c[Len(p.prefill) + 1] = ready
  <2> HIDE DEF ready
  <2>. QED BY <1>2, AppendProperties
<1>5. /\ next.pending = f /\ next.prefill = p.prefill /\ next.prefillSamples = p.prefillSamples
      /\ next.started = p.started /\ DOMAIN next = DOMAIN p
  BY DEF NewPlayout
<1>6. kept = p.prefill  OBVIOUS
<1>7. /\ grown.prefill = c /\ grown.pending = f /\ ~grown.started /\ DOMAIN grown = DOMAIN NewPlayout
  <2> HIDE DEF ready, kept, next
  <2>. QED BY <1>5, <1>6 DEF NewPlayout
<1> HIDE DEF delta, ready, next, kept, c, grown, r, b
<1>8. Len(c) \in Nat /\ Len(c) > 0  BY <1>4
<1>9. /\ \E m \in Nat : m < Len(c) /\ more.prefill = SubSeq(c, m + 1, Len(c))
      /\ more.prefillSamples = SamplesIn(more.prefill)
      /\ more.pending = f /\ ~more.started /\ DOMAIN more = DOMAIN NewPlayout
  BY <1>4, <1>7, TrimmedKeeps
<1> HIDE DEF more
<1>a. PICK m \in Nat : m < Len(c) /\ more.prefill = SubSeq(c, m + 1, Len(c))  BY <1>9
<1>b. /\ more.prefill \in Seq(Frames) /\ Len(more.prefill) = Len(c) - m
  <2>1. m <= Len(c) /\ Len(c) <= Len(c) BY <1>8, <1>a
  <2>. QED BY <1>4, <1>8, <1>a, <2>1, Stretch
<1>10. CASE p.started /\ sink
  <2>1. b = next /\ r.written = IF fails = 1 THEN <<>> ELSE <<ready>>
    BY <1>3, <1>10 DEF Result, b
  <2>2. p.prefill = <<>> /\ Len(p.prefill) = 0  BY <1>10
  <2>3. Len(c) = 1 /\ c[1] = ready  BY <1>4, <2>2
  <2>4. SubSeq(c, 1 + 1, Len(c)) = <<>> /\ SubSeq(c, 0 + 1, 0) = <<>>
    BY <2>3, SubSeqEmpty
  <2>5. SubSeq(c, 0 + 1, 1) = <<ready>>
    <3>1. SubSeq(c, 1, Len(c)) = c  BY <1>4, SubSeqFull
    <3>2. <<ready>> \in Seq(Frames) /\ Len(<<ready>>) = 1 /\ <<ready>>[1] = ready  BY <1>2
    <3>3. c = <<ready>>  BY <3>2, <2>3, <1>4, SeqEqual
    <3>. QED BY <3>1, <3>3, <2>3
  <2>6. Pieces(c, r.written, b.prefill)
    <3>1. CASE fails = 1
      <4>1. r.written = SubSeq(c, 0 + 1, 0) /\ b.prefill = SubSeq(c, 1 + 1, Len(c))
        BY <2>1, <2>2, <2>4, <3>1, <1>5
      <4>2. 0 <= 0 /\ 0 <= 1 /\ 1 <= Len(c)  BY <2>3
      <4>. QED BY <4>1, <4>2 DEF Pieces
    <3>2. CASE fails # 1
      <4>1. r.written = SubSeq(c, 0 + 1, 1) /\ b.prefill = SubSeq(c, 1 + 1, Len(c))
        BY <2>1, <2>2, <2>4, <2>5, <3>2, <1>5
      <4>2. 0 <= 1 /\ 1 <= 1 /\ 1 <= Len(c)  BY <2>3
      <4>. QED BY <4>1, <4>2 DEF Pieces
    <3>. QED BY <3>1, <3>2
  <2>. QED BY <2>1, <2>2, <2>6, <1>5 DEF r, b, c, ready, delta
<1>11. CASE ~(p.started /\ sink) /\ (~sink \/ more.prefillSamples < Prefill)
  <2>1. b = more /\ r.written = <<>>  BY <1>3, <1>11 DEF Result, b
  <2>2. SubSeq(c, 0 + 1, 0) = <<>>  BY SubSeqEmpty
  <2>3. 0 <= 0 /\ 0 <= m /\ m <= Len(c)  BY <1>a, <1>8
  <2>4. Pieces(c, r.written, b.prefill)  BY <2>1, <2>2, <2>3, <1>a DEF Pieces
  <2>. QED BY <2>1, <2>4, <1>9 DEF r, b, c, ready, delta
<1>12. CASE ~(p.started /\ sink) /\ ~(~sink \/ more.prefillSamples < Prefill)
  <2>1. r = Drained(more, fails)  BY <1>3, <1>12
  <2>2. fails \in Nat \ {0}  BY DEF Failures
  <2>3. /\ \E d \in Nat : /\ d <= Len(more.prefill)
                          /\ r.written = SubSeq(more.prefill, 1, d)
                          /\ b.prefill = SubSeq(more.prefill, d + 1, Len(more.prefill))
        /\ b.prefillSamples = SamplesIn(b.prefill)
        /\ b.pending = f /\ (b.started => b.prefill = <<>>) /\ DOMAIN b = DOMAIN NewPlayout
    BY <2>1, <2>2, <1>9, <1>b, DrainedSplits DEF b
  <2>a. PICK d \in Nat : /\ d <= Len(more.prefill)
                         /\ r.written = SubSeq(more.prefill, 1, d)
                         /\ b.prefill = SubSeq(more.prefill, d + 1, Len(more.prefill))
    BY <2>3
  <2>4. /\ d <= Len(c) - m
        /\ r.written = SubSeq(more.prefill, 0 + 1, d)
        /\ b.prefill = SubSeq(more.prefill, d + 1, Len(c) - m)
    BY <2>a, <1>b
  <2>5. r.written = SubSeq(c, m + 1, m + d)
    <3>1. SubSeq(SubSeq(c, m + 1, Len(c)), 0 + 1, d) = SubSeq(c, m + 0 + 1, m + d)
      BY <2>4, <1>4, <1>8, <1>a, StretchOfStretch
    <3>2. m + 0 + 1 = m + 1  OBVIOUS
    <3>. QED BY <3>1, <3>2, <2>4, <1>a
  <2>6. b.prefill = SubSeq(c, m + d + 1, Len(c))
    BY <2>4, <1>4, <1>8, <1>a, <1>b, StretchOfStretch
  <2>7. m <= m + d /\ m + d <= m + d /\ m + d <= Len(c) /\ m + d \in Nat  BY <2>4, <1>8, <1>a
  <2>8. Pieces(c, r.written, b.prefill)  BY <2>5, <2>6, <2>7 DEF Pieces
  <2>. QED BY <2>3, <2>8 DEF r, b, c, ready, delta
<1>. QED BY <1>10, <1>11, <1>12

-----------------------------------------------------------------------------
(* The steps of the playout.                                               *)

\* Sums and differences of remainders.
LEMMA RemainderPlus ==
  ASSUME NEW m \in Nat \ {0}, NEW a \in Int, NEW b \in Int
  PROVE  ((a % m) + b) % m = (a + b) % m
<1>1. PICK q \in Int, r \in 0..m - 1 : a = m * q + r /\ r = a % m  BY Parts
<1>2. r + b \in Int  OBVIOUS
<1>3. PICK k \in Int, u \in 0..m - 1 : r + b = m * k + u /\ u = (r + b) % m
  BY <1>2, Parts
<1>4. a + b = m * (q + k) + u
  <2>1. a = m * q + r /\ r + b = m * k + u  BY <1>1, <1>3
  <2>. QED BY <2>1
<1>5. (a + b) % m = u
  <2>1. a + b \in Int /\ q + k \in Int  OBVIOUS
  <2> HIDE <1>1, <1>3
  <2>. QED BY <1>4, <2>1, PartsUnique
<1>. QED BY <1>1, <1>3, <1>5

LEMMA RemainderMinus ==
  ASSUME NEW m \in Nat \ {0}, NEW a \in Int, NEW b \in Int
  PROVE  ((a % m) - (b % m)) % m = (a - b) % m
<1>1. PICK q \in Int, r \in 0..m - 1 : a = m * q + r /\ r = a % m  BY Parts
<1>2. PICK p \in Int, s \in 0..m - 1 : b = m * p + s /\ s = b % m  BY Parts
<1>3. r - s \in Int  OBVIOUS
<1>4. PICK k \in Int, u \in 0..m - 1 : r - s = m * k + u /\ u = (r - s) % m
  BY <1>3, Parts
<1>5. a - b = m * (q - p + k) + u
  <2>1. a = m * q + r /\ b = m * p + s /\ r - s = m * k + u  BY <1>1, <1>2, <1>4
  <2>. QED BY <2>1
<1>6. (a - b) % m = u  BY <1>5, PartsUnique
<1>. QED BY <1>1, <1>2, <1>4, <1>6

\* Restarts: a packet that does not restart the playout is newer than the one
\* that waits, and the step is what was spoken between them.
LEMMA NewerPacket ==
  ASSUME NEW i \in Nat, NEW q \in Nat, i - q < SeqSpace, q - i < SeqSpace,
         NEW p, p.pending.timestamp = (FrameLen * q) % TsMod,
         NEW ts, ts = (FrameLen * i) % TsMod, ~Restarts(p, ts)
  PROVE  i > q /\ (ts - p.pending.timestamp) % TsMod = FrameLen * (i - q)
<1> DEFINE d == i - q
           delta == (ts - p.pending.timestamp) % TsMod
<1>0. /\ FrameLen \in Nat \ {0} /\ MaxGap \in Nat /\ TsMod \in Nat \ {0} /\ SeqSpace \in Nat
      /\ FrameLen * SeqSpace + MaxGap <= TsMod
  BY NumbersAssumption, PlayoutAssumption, StreamAssumption
<1>1. delta # 0 /\ delta <= MaxGap
  <2>1. ts - p.pending.timestamp \in Int
    <3>1. FrameLen * i \in Int /\ FrameLen * q \in Int  BY <1>0
    <3>. QED BY <1>0, <3>1, Parts
  <2>2. delta \in 0..TsMod - 1
    <3>1. PICK n \in Int : n = ts - p.pending.timestamp  BY <2>1
    <3>2. n % TsMod \in 0..TsMod - 1  BY <1>0, Parts
    <3>. QED BY <3>1, <3>2
  <2>3. ~(delta = 0 \/ delta > MaxGap)  BY DEF Restarts
  <2> HIDE DEF delta
  <2>. QED BY <2>2, <2>3, <1>0
<1>2. delta = (FrameLen * d) % TsMod
  <2>1. FrameLen * i \in Int /\ FrameLen * q \in Int /\ FrameLen * d = FrameLen * i - FrameLen * q
    BY <1>0
  <2> HIDE DEF d
  <2>2. (((FrameLen * i) % TsMod) - ((FrameLen * q) % TsMod)) % TsMod = (FrameLen * i - FrameLen * q) % TsMod
    BY <1>0, <2>1, RemainderMinus
  <2>. QED BY <2>1, <2>2
<1>3. d \in Int /\ d < SeqSpace /\ -d < SeqSpace  BY <1>0
<1> HIDE DEF d, delta
<1>a. PICK x \in Int : x = FrameLen * d  BY <1>0, <1>3
<1>4. CASE d >= 0
  <2>1. FrameLen * (SeqSpace - d) >= 0 /\ FrameLen * d >= 0 /\ FrameLen * d \in Int
    BY <1>0, <1>3, <1>4
  <2>b. FrameLen * (SeqSpace - d) = FrameLen * SeqSpace - FrameLen * d  BY <1>0, <1>3
  <2>2. SeqSpace - d >= 1 /\ FrameLen * (SeqSpace - d) >= FrameLen  BY <1>0, <1>3
  <2>3. x \in 0..TsMod - 1
    <3>1. FrameLen * SeqSpace \in Int  BY <1>0
    <3>. QED BY <1>0, <1>a, <2>1, <2>b, <2>2, <3>1
  <2>4. x = TsMod * 0 + x  BY <1>0
  <2>5. x % TsMod = x  BY <1>0, <2>3, <2>4, PartsUnique
  <2>6. delta = FrameLen * d  BY <1>2, <1>a, <2>5
  <2>7. d # 0  BY <2>6, <1>1, <1>0
  <2>8. i > q  BY <2>7, <1>4 DEF d
  <2>. QED BY <2>6, <2>8 DEF delta, d
<1>5. CASE d < 0
  <2>1. SeqSpace + d >= 1 /\ FrameLen * (SeqSpace + d) >= FrameLen  BY <1>0, <1>3
  <2>2. FrameLen * (SeqSpace + d) = FrameLen * SeqSpace + FrameLen * d  BY <1>0, <1>3
  <2>3. FrameLen * d <= -1  BY <1>0, <1>3, <1>5
  <2>4. x + TsMod \in 0..TsMod - 1 /\ x + TsMod > MaxGap
    <3>1. FrameLen * SeqSpace \in Int  BY <1>0
    <3>. QED BY <1>0, <1>a, <2>1, <2>2, <2>3, <3>1
  <2>5. PICK k \in Int : x = TsMod * k + (x + TsMod)
    <3>1. -1 \in Int /\ x = TsMod * (-1) + (x + TsMod)  BY <1>0
    <3>. QED BY <3>1
  <2>6. x % TsMod = x + TsMod
    <3>1. TsMod \in Nat \ {0}  BY <1>0
    <3>. QED BY <3>1, <2>4, <2>5, PartsUnique
  <2>7. delta = x + TsMod  BY <1>2, <1>a, <2>6
  <2>8. x + TsMod \in Int /\ ~(x + TsMod <= MaxGap)  BY <2>4, <1>0
  <2>. QED BY <1>1, <2>7, <2>8
<1>6. d >= 0 \/ d < 0  BY <1>3
<1>. QED BY <1>4, <1>5, <1>6

HeardFields == {"first", "last", "samples", "ever", "disorder", "replay", "late"}

\* Taken: what the sink gets after what it had, in order, is added to it.
LEMMA TakenFollows ==
  ASSUME NEW h, DOMAIN h = HeardFields, h.last \in Int, h.ever \in Int,
         NEW w \in Seq(Frames), NEW hi \in Int, Ascends(w, h.last, hi)
  PROVE  LET t == Taken(h, w)
             newest == w[Len(w)].index
         IN /\ DOMAIN t = HeardFields /\ t.first = h.first /\ t.late = h.late
            /\ t.last = (IF w = <<>> THEN h.last ELSE newest)
            /\ t.last \in Int /\ t.ever \in Int
            /\ (h.last < hi => t.last < hi) /\ (h.ever < hi => t.ever < hi)
            /\ t.samples = (IF w = <<>> THEN h.samples ELSE h.samples + SamplesIn(w))
            /\ (t.disorder => h.disorder)
            /\ Ascends(w, h.ever, hi) => /\ (t.replay => h.replay)
                                         /\ t.ever = (IF w = <<>> THEN h.ever ELSE newest)
<1> DEFINE t == Taken(h, w)
           newest == w[Len(w)].index
           back == \E i \in DOMAIN w : w[i].index <= IF i = 1 THEN h.last ELSE w[i - 1].index
           again == \E i \in DOMAIN w : w[i].index <= h.ever
           ever == Max({h.ever, newest})
<1>1. CASE w = <<>>
  <2>1. t = h  BY <1>1 DEF Taken
  <2> HIDE DEF t, newest
  <2>. QED BY <1>1, <2>1 DEF t, newest
<1>2. CASE w # <<>>
  <2>1. /\ Len(w) \in Nat /\ Len(w) \in 1..Len(w) /\ DOMAIN w = 1..Len(w)
        /\ newest \in Int /\ h.last < newest /\ newest < hi
    <3>1. Len(w) \in Nat /\ Len(w) \in 1..Len(w) /\ DOMAIN w = 1..Len(w)  BY <1>2
    <3>2. w[Len(w)] \in Frames  BY <3>1
    <3>3. newest \in Int  BY <3>2 DEF Frames
    <3>4. h.last < newest /\ newest < hi  BY <3>1 DEF Ascends
    <3>. QED BY <3>1, <3>3, <3>4
  <2>2. t = [h EXCEPT !.last = newest, !.samples = @ + SamplesIn(w), !.ever = ever,
                      !.disorder = @ \/ back, !.replay = @ \/ again]
    BY <1>2 DEF Taken, Last
  <2>3. ~back
    <3> SUFFICES ASSUME NEW i \in DOMAIN w,
                        w[i].index <= IF i = 1 THEN h.last ELSE w[i - 1].index
                 PROVE  FALSE
      OBVIOUS
    <3>1. i \in 1..Len(w) /\ w[i] \in Frames  BY <2>1
    <3>2. w[i].index \in Int  BY <3>1 DEF Frames
    <3>3. CASE i = 1  BY <3>1, <3>2, <3>3 DEF Ascends
    <3>4. CASE i # 1
      <4>1. i - 1 \in 1..Len(w) /\ i - 1 < i  BY <2>1, <3>1, <3>4
      <4>2. w[i - 1] \in Frames  BY <4>1
      <4>3. w[i - 1].index \in Int  BY <4>2 DEF Frames
      <4>4. w[i - 1].index < w[i].index  BY <3>1, <4>1 DEF Ascends
      <4>. QED BY <3>2, <3>4, <4>3, <4>4
    <3>. QED BY <3>3, <3>4
  <2>4. ASSUME Ascends(w, h.ever, hi) PROVE ~again /\ ever = newest
    <3>1. ~again
      <4> SUFFICES ASSUME NEW i \in DOMAIN w, w[i].index <= h.ever PROVE FALSE  OBVIOUS
      <4>1. i \in 1..Len(w) /\ w[i] \in Frames  BY <2>1
      <4>2. w[i].index \in Int  BY <4>1 DEF Frames
      <4>. QED BY <4>1, <4>2, <2>4 DEF Ascends
    <3>2. h.ever < newest  BY <2>1, <2>4 DEF Ascends
    <3> HIDE DEF newest, again
    <3>3. ever = newest  BY <2>1, <3>2, MaxPair
    <3>. QED BY <3>1, <3>3
  <2> HIDE DEF newest, back, again, t
  <2>5. ever \in Int /\ (h.ever < hi => ever < hi)  BY <2>1, MaxPair
  <2> HIDE DEF ever
  <2>6. /\ DOMAIN t = HeardFields /\ t.first = h.first /\ t.late = h.late
        /\ t.last = newest /\ t.samples = h.samples + SamplesIn(w) /\ t.ever = ever
        /\ t.disorder = (h.disorder \/ back) /\ t.replay = (h.replay \/ again)
    BY <2>2 DEF HeardFields
  <2>7. /\ DOMAIN t = HeardFields /\ t.first = h.first /\ t.late = h.late
        /\ t.last = newest /\ t.last \in Int /\ t.ever \in Int
        /\ (h.last < hi => t.last < hi) /\ (h.ever < hi => t.ever < hi)
        /\ t.samples = h.samples + SamplesIn(w)
        /\ (t.disorder => h.disorder)
        /\ Ascends(w, h.ever, hi) => (t.replay => h.replay) /\ t.ever = newest
    BY <2>1, <2>3, <2>4, <2>5, <2>6
  <2>. QED BY <2>7, <1>2 DEF t, newest
<1>. QED BY <1>1, <1>2

LEMMA AscendsAppend ==
  ASSUME NEW s \in Seq(Frames), NEW e \in Frames, NEW lo \in Int, NEW hi \in Int,
         Ascends(s, lo, e.index), lo < e.index, e.index < hi
  PROVE  Ascends(Append(s, e), lo, hi)
<1> DEFINE t == Append(s, e)
<1>1. /\ Len(t) = Len(s) + 1 /\ Len(s) \in Nat
      /\ \A i \in 1..Len(s) : t[i] = s[i]
      /\ t[Len(s) + 1] = e
  BY AppendProperties
<1> HIDE DEF t
<1>2. e.index \in Int  BY DEF Frames
<1>3. \A i \in 1..Len(s) : s[i].index \in Int /\ lo < s[i].index /\ s[i].index < e.index
  <2> TAKE i \in 1..Len(s)
  <2>1. s[i] \in Frames  OBVIOUS
  <2>. QED BY <2>1 DEF Frames, Ascends
<1>4. ASSUME NEW i \in 1..Len(t) PROVE lo < t[i].index /\ t[i].index < hi
  <2>1. CASE i = Len(s) + 1  BY <1>1, <2>1
  <2>2. CASE i # Len(s) + 1
    <3>1. i \in 1..Len(s)  BY <1>1, <2>2
    <3>. QED BY <1>1, <1>2, <1>3, <3>1
  <2>. QED BY <2>1, <2>2
<1>5. ASSUME NEW i \in 1..Len(t), NEW j \in 1..Len(t), i < j PROVE t[i].index < t[j].index
  <2>0. i \in 1..Len(s)  BY <1>1, <1>5
  <2>1. CASE j = Len(s) + 1  BY <1>1, <1>3, <2>0, <2>1
  <2>2. CASE j # Len(s) + 1
    <3>1. j \in 1..Len(s)  BY <1>1, <2>2
    <3>. QED BY <1>1, <1>5, <2>0, <3>1 DEF Ascends
  <2>. QED BY <2>1, <2>2
<1>6. Ascends(t, lo, hi)  BY <1>4, <1>5 DEF Ascends
<1>. QED BY <1>6 DEF t

LEMMA Together ==
  ASSUME NEW m \in Int, NEW a \in Int, NEW b \in Int, NEW c \in Int
  PROVE  /\ m * (b - a) + m * (c - b) = m * (c - a)
         /\ m * (b - a) \in Int /\ m * (c - b) \in Int
  OBVIOUS

LEMMA PlayInit == Init => PlayInv
<1> SUFFICES ASSUME Init PROVE PlayInv  OBVIOUS
<1>1. net = {} /\ peer.sent = 0 /\ kind \in {"audio", "video", "appdata"}
      /\ peer.stream = Stream(kind) /\ play = NewPlayout
  BY StreamAssumption DEF Init
<1>2. heard = [first |-> -1, last |-> -1, samples |-> 0, ever |-> -1,
               disorder |-> FALSE, replay |-> FALSE, late |-> FALSE]
  BY DEF Init
<1>3. Timed
  <2>1. kind = "audio" => peer.stream.samplesPerPacket = FrameLen /\ peer.stream.timestamp = 0
    BY <1>1 DEF Stream, NewRtpStream
  <2>2. (FrameLen * 0) % TsMod = 0  BY NumbersAssumption, PlayoutAssumption
  <2>. QED BY <1>1, <2>1, <2>2 DEF Timed
<1>4. PlayShapes
  <2>1. <<>> \in Seq(Frames) /\ SamplesIn(<<>>) = 0  BY SamplesNone
  <2>2. play.prefill = <<>> /\ play.prefillSamples = 0  BY <1>1 DEF NewPlayout
  <2>. QED BY <1>1, <1>2, <2>1, <2>2 DEF PlayShapes
<1>5. PlaysInOrder /\ NothingWaits /\ play.pending = NoFrame
  BY <1>1, <1>2 DEF PlaysInOrder, NothingWaits, NewPlayout
<1>. QED BY <1>3, <1>4, <1>5 DEF PlayInv

\* Hears: what the sink gets, and whether the packet was late.
LEMMA HearsFollows ==
  ASSUME PlayShapes, NEW w \in Seq(Frames), NEW restarted \in BOOLEAN, NEW p,
         NEW hi \in Int, Hears(w, restarted, p), p.index \in Nat,
         Ascends(w, IF restarted THEN -1 ELSE heard.last, hi)
  PROVE  LET last == IF restarted THEN -1 ELSE heard.last
             samples == IF restarted THEN 0 ELSE heard.samples
             newest == w[Len(w)].index
         IN /\ DOMAIN heard' = HeardFields
            /\ heard'.first = (IF restarted \/ heard.first = -1 THEN p.index ELSE heard.first)
            /\ heard'.late = (heard.late \/ p.index <= seen.high)
            /\ heard'.last = (IF w = <<>> THEN last ELSE newest)
            /\ heard'.last \in Int /\ heard'.ever \in Int
            /\ (last < hi => heard'.last < hi) /\ (heard.ever < hi => heard'.ever < hi)
            /\ heard'.samples = (IF w = <<>> THEN samples ELSE samples + SamplesIn(w))
            /\ (heard'.disorder => heard.disorder)
            /\ Ascends(w, heard.ever, hi) =>
                 /\ (heard'.replay => heard.replay)
                 /\ heard'.ever = (IF w = <<>> THEN heard.ever ELSE newest)
<1> DEFINE last == IF restarted THEN -1 ELSE heard.last
           samples == IF restarted THEN 0 ELSE heard.samples
           first == IF restarted \/ heard.first = -1 THEN p.index ELSE heard.first
           h == IF restarted
                  THEN [heard EXCEPT !.first = p.index, !.last = -1, !.samples = 0]
                  ELSE [heard EXCEPT !.first = IF @ = -1 THEN p.index ELSE @]
           t == Taken(h, w)
<1>1. DOMAIN heard = HeardFields /\ heard.last \in Int /\ heard.ever \in Int
  BY DEF PlayShapes, HeardFields
<1>2. /\ DOMAIN h = HeardFields /\ h.last = last /\ h.ever = heard.ever /\ h.first = first
      /\ h.samples = samples /\ h.disorder = heard.disorder /\ h.replay = heard.replay
      /\ h.late = heard.late
  BY <1>1 DEF HeardFields
<1>3. heard' = [t EXCEPT !.late = @ \/ p.index <= seen.high]  BY DEF Hears
<1>4. last \in Int /\ Ascends(w, last, hi)  BY <1>1
<1> HIDE DEF h
<1>5. LET newest == w[Len(w)].index
      IN /\ DOMAIN t = HeardFields /\ t.first = h.first /\ t.late = h.late
         /\ t.last = (IF w = <<>> THEN h.last ELSE newest)
         /\ t.last \in Int /\ t.ever \in Int
         /\ (h.last < hi => t.last < hi) /\ (h.ever < hi => t.ever < hi)
         /\ t.samples = (IF w = <<>> THEN h.samples ELSE h.samples + SamplesIn(w))
         /\ (t.disorder => h.disorder)
         /\ Ascends(w, h.ever, hi) => /\ (t.replay => h.replay)
                                      /\ t.ever = (IF w = <<>> THEN h.ever ELSE newest)
  <2> HIDE DEF last
  <2>. QED BY <1>1, <1>2, <1>4, TakenFollows
<1> HIDE DEF t, last, samples, first
<1>6. /\ DOMAIN heard' = HeardFields /\ heard'.first = t.first /\ heard'.last = t.last
      /\ heard'.samples = t.samples /\ heard'.ever = t.ever /\ heard'.disorder = t.disorder
      /\ heard'.replay = t.replay /\ heard'.late = (t.late \/ p.index <= seen.high)
  BY <1>3, <1>5 DEF HeardFields
<1>. QED BY <1>2, <1>5, <1>6 DEF last, samples, first

\* Observed: the highest packet so far, for one that is within reach of it.
LEMMA SeenFollows ==
  ASSUME StatsInv, NEW p, p.index \in Nat, WithinReach(p), Observed(p)
  PROVE  /\ seen.high \in Int /\ seen'.high \in Nat
         /\ p.index <= seen'.high /\ seen'.high - p.index < Half
         /\ seen.high # -1 => p.index - seen.high < Half /\ seen.high - p.index < Half
<1>1. seen.high \in Nat \/ seen.high = -1
  BY DEF StatsInv
<1>2. "high" \in DOMAIN seen  BY DEF StatsInv
<1>3. seen'.high = Max({seen.high, p.index})
  <2>1. seen' = [seen EXCEPT !.first = IF @ = -1 THEN p.index ELSE @, !.high = Max({@, p.index})]
    BY DEF Observed
  <2>. QED BY <1>2, <2>1
<1>4. seen'.high = IF seen.high >= p.index THEN seen.high ELSE p.index
  <2>1. seen.high \in Int /\ p.index \in Int  BY <1>1
  <2>. QED BY <1>3, <2>1, MaxPair
<1>5. seen.high # -1 => p.index - seen.high < Half /\ seen.high - p.index < Half
  <2>1. seen.high # -1 => Abs(p.index - seen.high) < Half  BY DEF WithinReach
  <2>. QED BY <1>1, <2>1, Halves DEF Abs
<1>. QED BY <1>1, <1>4, <1>5, Halves

\* An audio packet leaves the playout in order, with what was collected
\* before the frame that waits, and no longer than it took to speak.
LEMMA PlayAudio ==
  ASSUME StreamInv, StatsInv, PlayInv, NEW p \in net, NEW len \in Lens, NEW sink,
         NEW fails \in Failures, ReceiveAudio(p, len, sink, fails)
  PROVE  PlayInv'
<1> DEFINE f == [timestamp |-> p.timestamp, len |-> len, index |-> p.index]
           r == Push(play, f, sink, fails)
           w == r.written
           b == r.buffer
           restarted == play.pending # NoFrame /\ Restarts(play, p.timestamp)
           delta == (f.timestamp - play.pending.timestamp) % TsMod
           ready == alignAudioFrame(play.pending, delta)
           c == Append(play.prefill, ready)
<1>1. /\ kind = "audio" /\ ~ended /\ WithinReach(p) /\ net' \subseteq net
      /\ Observed(p) /\ play' = b /\ Hears(w, restarted, p)
      /\ UNCHANGED <<kind, peer, ended>>
  BY DEF ReceiveAudio, Arrives, sender
<1>2. Timed /\ PlayShapes /\ PlaysInOrder  BY DEF PlayInv
<1>3. p.index \in Nat /\ p.timestamp = (FrameLen * p.index) % TsMod /\ p.timestamp \in Nat
  <2>1. p.index \in 0..peer.sent - 1 /\ peer.sent \in Nat
    BY DEF StreamInv, NetCounts, SenderCounts
  <2>2. p.index \in Nat  BY <2>1
  <2>3. p.timestamp = (FrameLen * p.index) % TsMod  BY <1>1, <1>2 DEF Timed
  <2>4. FrameLen * p.index \in Int /\ TsMod \in Nat \ {0}
    BY <2>2, PlayoutAssumption, NumbersAssumption
  <2>5. (FrameLen * p.index) % TsMod \in 0..TsMod - 1  BY <2>4, Parts
  <2>. QED BY <2>2, <2>3, <2>4, <2>5
<1>4. f \in Frames /\ f.timestamp = p.timestamp /\ f.index = p.index
  BY <1>3, StreamAssumption DEF Frames
<1>5. /\ seen.high \in Int /\ seen'.high \in Nat
      /\ p.index <= seen'.high /\ seen'.high - p.index < Half
      /\ seen.high # -1 => p.index - seen.high < Half /\ seen.high - p.index < Half
  BY <1>1, <1>3, SeenFollows
<1>6. Timed'  BY <1>1, <1>2 DEF Timed
<1>7. /\ DOMAIN play = DOMAIN NewPlayout /\ play.prefill \in Seq(Frames)
      /\ play.prefillSamples = SamplesIn(play.prefill)
      /\ (play.started => play.prefill = <<>>)
      /\ heard.last \in Int /\ heard.ever \in Int /\ heard.samples \in Nat
  BY <1>2 DEF PlayShapes
\* With these parts, the invariant holds afterwards.
<1>8. ASSUME b.pending = f, DOMAIN b = DOMAIN NewPlayout, b.prefill \in Seq(Frames),
             b.prefillSamples = SamplesIn(b.prefill), b.started => b.prefill = <<>>,
             DOMAIN heard' = HeardFields, heard'.last \in Int, heard'.ever \in Int,
             heard'.samples \in Nat, heard'.disorder => heard.disorder,
             heard'.replay => heard'.late,
             heard'.first \in Nat, heard'.last < p.index,
             Ascends(b.prefill, heard'.last, p.index),
             ~heard'.late => heard'.ever < p.index /\ Ascends(b.prefill, heard'.ever, p.index),
             heard'.samples + SamplesIn(b.prefill) <= FrameLen * (p.index - heard'.first)
      PROVE  PlayInv'
  <2> HIDE DEF f, r, b, w, restarted
  <2>1. PlayShapes'  BY <1>1, <1>8 DEF PlayShapes, HeardFields
  <2>2. PlaysInOrder'  BY <1>2, <1>8 DEF PlaysInOrder
  <2>3. play'.pending \in Frames /\ play'.pending # NoFrame
    <3>1. play'.pending = f  BY <1>1, <1>8
    <3>2. DOMAIN f = {"timestamp", "len", "index"} /\ "index" \notin DOMAIN NoFrame
      BY <1>4 DEF Frames, NoFrame
    <3>. QED BY <3>1, <3>2, <1>4
  <2>4. FrameWaits'
    BY <1>1, <1>3, <1>4, <1>5, <1>8, <2>3 DEF FrameWaits, Ascends
  <2>. QED BY <1>1, <1>6, <2>1, <2>2, <2>3, <2>4 DEF PlayInv
<1>9. heard.replay => heard.late  BY <1>2 DEF PlaysInOrder
<1>10. SamplesIn(<<>>) = 0 /\ <<>> \in Seq(Frames) /\ Len(<<>>) = 0 BY SamplesNone
<1>11. \A lo, hi : Ascends(<<>>, lo, hi)  BY DEF Ascends
\* Nothing is written: the first packet, or one that restarts the playout.
<1>12. ASSUME w = <<>>, b.prefill = <<>>, b.prefillSamples = 0, b.pending = f,
              DOMAIN b = DOMAIN NewPlayout,
              IF restarted \/ heard.first = -1 THEN TRUE ELSE FALSE,
              ~restarted => heard.last = -1 /\ heard.samples = 0,
              ~heard.late /\ p.index > seen.high => heard.ever < p.index
       PROVE  PlayInv'
  <2> HIDE DEF f, r, b, w
  <2>a. restarted \in BOOLEAN  OBVIOUS
  <2>b. (IF restarted THEN -1 ELSE heard.last) = -1 /\ (IF restarted THEN 0 ELSE heard.samples) = 0
    BY <1>12
  <2> HIDE DEF restarted
  <2>1. LET last == IF restarted THEN -1 ELSE heard.last
            samples == IF restarted THEN 0 ELSE heard.samples
            newest == w[Len(w)].index
        IN /\ DOMAIN heard' = HeardFields
           /\ heard'.first = (IF restarted \/ heard.first = -1 THEN p.index ELSE heard.first)
           /\ heard'.late = (heard.late \/ p.index <= seen.high)
           /\ heard'.last = (IF w = <<>> THEN last ELSE newest)
           /\ heard'.last \in Int /\ heard'.ever \in Int
           /\ (last < p.index => heard'.last < p.index)
           /\ (heard.ever < p.index => heard'.ever < p.index)
           /\ heard'.samples = (IF w = <<>> THEN samples ELSE samples + SamplesIn(w))
           /\ (heard'.disorder => heard.disorder)
           /\ Ascends(w, heard.ever, p.index) =>
                /\ (heard'.replay => heard.replay)
                /\ heard'.ever = (IF w = <<>> THEN heard.ever ELSE newest)
    <3>1. w \in Seq(Frames) /\ p.index \in Int  BY <1>3, <1>10, <1>12
    <3>2. Ascends(w, IF restarted THEN -1 ELSE heard.last, p.index)  BY <1>11, <1>12
    <3>. QED BY <1>1, <1>2, <1>3, <2>a, <3>1, <3>2, HearsFollows
  <2>2. /\ DOMAIN heard' = HeardFields /\ heard'.first = p.index
        /\ heard'.late = (heard.late \/ p.index <= seen.high)
        /\ heard'.last = -1 /\ heard'.ever = heard.ever /\ heard'.samples = 0
        /\ (heard'.disorder => heard.disorder) /\ (heard'.replay => heard.replay)
    BY <2>1, <2>b, <1>11, <1>12
  <2>3. heard'.samples + SamplesIn(b.prefill) <= FrameLen * (p.index - heard'.first)
    <3>1. FrameLen * (p.index - p.index) = 0  BY <1>3, PlayoutAssumption
    <3>2. SamplesIn(b.prefill) = 0  BY <1>10, <1>12
    <3>. QED BY <3>1, <3>2, <2>2
  <2>4. ASSUME ~heard'.late PROVE heard'.ever < p.index
    <3>1. ~heard.late /\ ~(p.index <= seen.high)  BY <2>2, <2>4
    <3>2. p.index > seen.high  BY <3>1, <1>3, <1>5
    <3>3. heard.ever < p.index  BY <3>1, <3>2, <1>12
    <3>. QED BY <3>3, <2>2
  <2>5. b.prefill \in Seq(Frames) /\ b.prefillSamples = SamplesIn(b.prefill)
        /\ \A lo, hi : Ascends(b.prefill, lo, hi)
    BY <1>10, <1>11, <1>12
  <2>6. heard'.last \in Int /\ heard'.ever \in Int /\ heard'.samples \in Nat
        /\ heard'.first \in Nat /\ heard'.last < p.index
    BY <2>2, <1>3, <1>7
  <2>7. heard'.replay => heard'.late  BY <2>2, <1>9
  <2>. QED BY <1>8, <1>12, <2>2, <2>3, <2>4, <2>5, <2>6, <2>7
<1>13. CASE play.pending = NoFrame
  <2>1. b = [play EXCEPT !.pending = f] /\ w = <<>>  BY <1>13 DEF Push, Result
  <2>2. /\ ~play.started /\ play.prefill = <<>>
        /\ heard.first = -1 /\ heard.last = -1 /\ heard.samples = 0 /\ heard.ever = -1
    BY <1>1, <1>13 DEF PlayInv, NothingWaits
  <2>3. /\ b.prefill = <<>> /\ b.prefillSamples = 0 /\ b.pending = f
        /\ DOMAIN b = DOMAIN NewPlayout
    <3> HIDE DEF f, b
    <3>. QED BY <2>1, <2>2, <1>7, <1>10 DEF NewPlayout
  <2>4. heard.ever < p.index  BY <1>3, <2>2
  <2> HIDE DEF f, b, w
  <2>. QED BY <1>12, <1>13, <2>1, <2>2, <2>3, <2>4
<1>14. ASSUME play.pending # NoFrame
       PROVE  /\ play.pending \in Frames /\ heard.first \in Nat /\ heard.last < play.pending.index
              /\ play.pending.timestamp = (FrameLen * play.pending.index) % TsMod
              /\ seen.high \in Nat /\ play.pending.index <= seen.high
              /\ seen.high - play.pending.index < Half
              /\ Ascends(play.prefill, heard.last, play.pending.index)
              /\ ~heard.late => heard.ever < play.pending.index
                                /\ Ascends(play.prefill, heard.ever, play.pending.index)
              /\ heard.samples + SamplesIn(play.prefill)
                   <= FrameLen * (play.pending.index - heard.first)
  BY <1>7, <1>14 DEF PlayInv, FrameWaits
<1>15. CASE restarted
  <2>1. b = PlayoutReset(play, f) /\ w = <<>>  BY <1>4, <1>15 DEF Push, Result
  <2>2. /\ b.prefill = <<>> /\ b.prefillSamples = 0 /\ b.pending = f
        /\ DOMAIN b = DOMAIN NewPlayout
    <3> HIDE DEF f, b
    <3>. QED BY <2>1 DEF PlayoutReset, NewPlayout
  <2>3. ASSUME ~heard.late, p.index > seen.high PROVE heard.ever < p.index
    <3>1. heard.ever < play.pending.index /\ play.pending.index \in Nat
          /\ play.pending.index <= seen.high /\ seen.high \in Nat
      BY <1>14, <1>15, <2>3 DEF Frames
    <3>. QED BY <3>1, <2>3, <1>3, <1>7
  <2> HIDE DEF f, b, w
  <2>. QED BY <1>12, <1>15, <2>1, <2>2, <2>3
<1>16. CASE play.pending # NoFrame /\ ~restarted
  <2> DEFINE q == play.pending.index
  <2>1. q \in Nat /\ play.pending \in Frames  BY <1>14, <1>16 DEF Frames
  <2>2. p.index - q < SeqSpace /\ q - p.index < SeqSpace
    <3>1. /\ q <= seen.high /\ seen.high - q < Half /\ seen.high \in Nat
          /\ p.index - seen.high < Half /\ seen.high - p.index < Half
      BY <1>5, <1>14, <1>16
    <3> HIDE DEF q
    <3>. QED BY <3>1, <2>1, <1>3, Halves
  <2>3. p.index > q /\ delta = FrameLen * (p.index - q)
    <3>1. ~Restarts(play, p.timestamp) /\ play.pending.timestamp = (FrameLen * q) % TsMod
      BY <1>14, <1>16
    <3>2. (p.timestamp - play.pending.timestamp) % TsMod = FrameLen * (p.index - q) /\ p.index > q
      <4> HIDE DEF q, f, r, b, w, restarted, delta
      <4>. QED BY <1>3, <2>1, <2>2, <3>1, NewerPacket
    <3>. QED BY <3>2, <1>4
  <2>4. ready \in Frames /\ ready.len <= delta /\ ready.index = q /\ delta \in Nat
    <3>1. FrameLen * (p.index - q) \in Nat  BY <1>3, <2>1, <2>3, PlayoutAssumption
    <3>2. delta \in Nat  BY <2>3, <3>1
    <3> HIDE DEF delta
    <3>. QED BY <2>1, <3>2, AlignedFrame
  <2>5. /\ Pieces(c, w, b.prefill)
        /\ b.prefillSamples = SamplesIn(b.prefill) /\ b.pending = f
        /\ (b.started => b.prefill = <<>>) /\ DOMAIN b = DOMAIN NewPlayout
    <3>1. f.timestamp \in Nat /\ ~Restarts(play, f.timestamp)  BY <1>3, <1>4, <1>16
    <3> HIDE DEF f, restarted
    <3>. QED BY <1>7, <2>1, <3>1, PushPieces
  <2> HIDE DEF f, r, b, w, ready, delta, restarted
  <2>6. c \in Seq(Frames)  BY <1>7, <2>4
  <2>7. /\ w \in Seq(Frames) /\ b.prefill \in Seq(Frames)
        /\ SamplesIn(w) \in Nat /\ SamplesIn(b.prefill) \in Nat
        /\ SamplesIn(w) + SamplesIn(b.prefill) <= SamplesIn(c)
    <3> HIDE DEF c
    <3>. QED BY <2>5, <2>6, PiecesSum
  <2>8. SamplesIn(c) = SamplesIn(play.prefill) + ready.len  BY <1>7, <2>4, SamplesAppend
  <2>9. Ascends(c, heard.last, p.index)
    <3>1. Ascends(play.prefill, heard.last, ready.index) /\ heard.last < ready.index
          /\ ready.index < p.index
      BY <1>14, <1>16, <2>3, <2>4
    <3>2. p.index \in Int /\ heard.last \in Int /\ ready \in Frames /\ play.prefill \in Seq(Frames)
      BY <1>3, <1>7, <2>4
    <3>. QED BY <3>1, <3>2, AscendsAppend
  <2>10. ~heard.late => Ascends(c, heard.ever, p.index) /\ heard.ever < p.index
    <3> SUFFICES ASSUME ~heard.late PROVE Ascends(c, heard.ever, p.index) /\ heard.ever < p.index
      OBVIOUS
    <3>1. Ascends(play.prefill, heard.ever, ready.index) /\ heard.ever < ready.index
          /\ ready.index < p.index
      BY <1>14, <1>16, <2>3, <2>4
    <3>2. heard.ever < p.index  BY <3>1, <1>3, <1>7, <2>1, <2>4
    <3>3. p.index \in Int /\ heard.ever \in Int /\ ready \in Frames /\ play.prefill \in Seq(Frames)
      BY <1>3, <1>7, <2>4
    <3>4. Ascends(c, heard.ever, p.index)  BY <3>1, <3>3, AscendsAppend
    <3>. QED BY <3>2, <3>4
  <2> HIDE DEF c
  <2> DEFINE newest == w[Len(w)].index
  <2>11. p.index \in Int  BY <1>3
  <2>12. Ascends(w, heard.last, p.index)
         /\ Ascends(b.prefill, IF w = <<>> THEN heard.last ELSE newest, p.index)
    BY <1>7, <2>5, <2>6, <2>9, <2>11, PiecesAscend
  <2>13. ~heard.late => /\ Ascends(w, heard.ever, p.index)
                        /\ Ascends(b.prefill, IF w = <<>> THEN heard.ever ELSE newest, p.index)
    BY <1>7, <2>5, <2>6, <2>10, <2>11, PiecesAscend
  <2>14. LET last == IF restarted THEN -1 ELSE heard.last
             samples == IF restarted THEN 0 ELSE heard.samples
         IN /\ DOMAIN heard' = HeardFields
            /\ heard'.first = (IF restarted \/ heard.first = -1 THEN p.index ELSE heard.first)
            /\ heard'.late = (heard.late \/ p.index <= seen.high)
            /\ heard'.last = (IF w = <<>> THEN last ELSE newest)
            /\ heard'.last \in Int /\ heard'.ever \in Int
            /\ (last < p.index => heard'.last < p.index)
            /\ (heard.ever < p.index => heard'.ever < p.index)
            /\ heard'.samples = (IF w = <<>> THEN samples ELSE samples + SamplesIn(w))
            /\ (heard'.disorder => heard.disorder)
            /\ Ascends(w, heard.ever, p.index) =>
                 /\ (heard'.replay => heard.replay)
                 /\ heard'.ever = (IF w = <<>> THEN heard.ever ELSE newest)
    <3>1. restarted \in BOOLEAN  BY DEF restarted
    <3>2. Ascends(w, IF restarted THEN -1 ELSE heard.last, p.index)  BY <1>16, <2>12
    <3>. QED BY <1>1, <1>2, <1>3, <2>7, <2>11, <3>1, <3>2, HearsFollows
  <2> HIDE DEF newest
  <2>15. /\ DOMAIN heard' = HeardFields /\ heard'.first = heard.first /\ heard.first \in Nat
         /\ heard'.late = (heard.late \/ p.index <= seen.high)
         /\ heard'.last = (IF w = <<>> THEN heard.last ELSE newest)
         /\ heard'.last \in Int /\ heard'.ever \in Int /\ (heard'.disorder => heard.disorder)
    BY <1>14, <1>16, <2>14
  <2>16. heard'.last < p.index
    <3>1. heard.last < p.index  BY <1>3, <1>7, <1>14, <1>16, <2>1, <2>3
    <3>. QED BY <3>1, <1>16, <2>14
  <2>17. heard'.samples = heard.samples + SamplesIn(w) /\ heard'.samples \in Nat
    <3>1. heard'.samples = (IF w = <<>> THEN heard.samples ELSE heard.samples + SamplesIn(w))
      BY <1>16, <2>14
    <3>2. w = <<>> => SamplesIn(w) = 0  BY <1>10
    <3>. QED BY <3>1, <3>2, <1>7, <2>7
  <2>18. heard'.samples + SamplesIn(b.prefill) <= FrameLen * (p.index - heard'.first)
    <3>1. PICK x \in Nat, y \in Nat, u \in Nat, v \in Nat, n \in Nat :
            /\ x = heard.samples /\ y = SamplesIn(play.prefill) /\ u = SamplesIn(w)
            /\ v = SamplesIn(b.prefill) /\ n = ready.len
      <4>1. SamplesIn(play.prefill) \in Nat  BY <1>7, SamplesNat
      <4>2. ready.len \in Nat  BY <2>4 DEF Frames
      <4>. QED BY <4>1, <4>2, <1>7, <2>7
    <3>2. x + y <= FrameLen * (q - heard.first) /\ n <= FrameLen * (p.index - q) /\ u + v <= y + n
      BY <3>1, <1>14, <1>16, <2>3, <2>4, <2>7, <2>8
    <3>3. FrameLen * (q - heard.first) + FrameLen * (p.index - q) = FrameLen * (p.index - heard.first)
          /\ FrameLen * (q - heard.first) \in Int /\ FrameLen * (p.index - q) \in Int
      <4>1. FrameLen \in Int /\ p.index \in Int /\ q \in Int /\ heard.first \in Int
        BY <1>3, <2>1, <2>15, PlayoutAssumption
      <4> HIDE DEF q
      <4>. QED BY <4>1, Together
    <3>4. x + u + v <= FrameLen * (p.index - heard.first)
      <4> HIDE DEF q
      <4>. QED BY <3>2, <3>3
    <3>. QED BY <3>1, <3>4, <2>15, <2>17
  <2>19. heard'.replay => heard'.late
    <3>1. CASE heard.late  BY <3>1, <2>15
    <3>2. CASE ~heard.late
      <4>1. heard'.replay => heard.replay  BY <3>2, <2>13, <2>14
      <4>. QED BY <4>1, <3>2, <1>9
    <3>. QED BY <3>1, <3>2
  <2>20. ASSUME ~heard'.late
         PROVE  heard'.ever < p.index /\ Ascends(b.prefill, heard'.ever, p.index)
    <3>1. ~heard.late  BY <2>15, <2>20
    <3>2. heard'.ever = (IF w = <<>> THEN heard.ever ELSE newest)  BY <3>1, <2>13, <2>14
    <3>3. heard'.ever < p.index  BY <3>1, <2>10, <2>14
    <3>. QED BY <3>1, <3>2, <3>3, <2>13
  <2>21. Ascends(b.prefill, heard'.last, p.index)  BY <2>12, <2>15
  <2>. QED BY <1>8, <2>5, <2>7, <2>15, <2>16, <2>17, <2>18, <2>19, <2>20, <2>21
<1>. QED BY <1>13, <1>15, <1>16

\* Flush: the frame that waits goes out last, or stays.
LEMMA PlayEnd ==
  ASSUME PlayInv, NEW sink, NEW fails \in Failures, EndLoop(sink, fails)
  PROVE  PlayInv'
<1> DEFINE r == Flush(play, sink, fails)
<1>1. /\ ended' /\ play' = r.buffer /\ heard' = Taken(heard, r.written)
      /\ UNCHANGED <<kind, peer, net, seen>>
  BY DEF EndLoop, sender
<1>2. Timed /\ PlayShapes /\ PlaysInOrder  BY DEF PlayInv
<1>3. Timed'  BY <1>1, <1>2 DEF Timed
<1>4. CASE ~play.started \/ play.pending = NoFrame \/ ~sink
  <2>1. play' = play /\ heard' = heard
    <3>1. r.buffer = play /\ r.written = <<>>  BY <1>4 DEF Flush, Result
    <3>. QED BY <3>1, <1>1 DEF Taken
  <2>. QED BY <1>1, <1>3, <2>1
       DEF PlayInv, PlayShapes, PlaysInOrder, NothingWaits, FrameWaits, Ascends
<1>5. CASE ~(~play.started \/ play.pending = NoFrame \/ ~sink)
  <2>1. /\ play' = [play EXCEPT !.pending = NoFrame]
        /\ r.written = IF fails = 1 THEN <<>> ELSE <<play.pending>>
    BY <1>1, <1>5 DEF Flush, Result
  <2>2. /\ play'.pending = NoFrame /\ play'.prefill = play.prefill
        /\ play'.prefillSamples = play.prefillSamples /\ play'.started = play.started
        /\ DOMAIN play' = DOMAIN play
    BY <2>1, <1>2 DEF PlayShapes, NewPlayout
  <2>3. /\ play.pending \in Frames /\ play.pending.index \in Nat
        /\ heard.last < play.pending.index
        /\ ~heard.late => heard.ever < play.pending.index
    BY <1>5 DEF PlayInv, FrameWaits, Frames
  <2> DEFINE w == r.written
             hi == play.pending.index + 1
  <2>4. w \in Seq(Frames) /\ hi \in Int /\ heard.last < hi
    BY <2>1, <2>3, <1>2 DEF PlayShapes
  <2>5. ASSUME NEW lo \in Int, lo < play.pending.index PROVE Ascends(w, lo, hi)
    <3>1. CASE fails = 1  BY <2>1, <3>1 DEF Ascends
    <3>2. CASE fails # 1
      <4>1. w = <<play.pending>>  BY <2>1, <3>2
      <4>2. Len(w) = 1 /\ w[1] = play.pending  BY <4>1
      <4> HIDE DEF w
      <4>. QED BY <4>2, <2>3, <2>5 DEF Ascends
    <3>. QED BY <3>1, <3>2
  <2>6. /\ DOMAIN heard = HeardFields /\ heard.last \in Int /\ heard.ever \in Int
        /\ heard.samples \in Nat
    BY <1>2 DEF PlayShapes, HeardFields
  <2>7. Ascends(w, heard.last, hi) /\ (~heard.late => Ascends(w, heard.ever, hi))
    <3> HIDE DEF w, hi
    <3>. QED BY <2>3, <2>5, <2>6
  <2> HIDE DEF r, hi
  <2>8. LET t == Taken(heard, w)
            newest == w[Len(w)].index
        IN /\ DOMAIN t = HeardFields /\ t.first = heard.first /\ t.late = heard.late
           /\ t.last = (IF w = <<>> THEN heard.last ELSE newest)
           /\ t.last \in Int /\ t.ever \in Int
           /\ (heard.last < hi => t.last < hi) /\ (heard.ever < hi => t.ever < hi)
           /\ t.samples = (IF w = <<>> THEN heard.samples ELSE heard.samples + SamplesIn(w))
           /\ (t.disorder => heard.disorder)
           /\ Ascends(w, heard.ever, hi) => /\ (t.replay => heard.replay)
                                            /\ t.ever = (IF w = <<>> THEN heard.ever ELSE newest)
    <3> HIDE DEF w
    <3>. QED BY <2>4, <2>6, <2>7, TakenFollows
  <2>9. heard'.samples \in Nat
    <3>1. SamplesIn(w) \in Nat  BY <2>4, SamplesNat
    <3>2. heard'.samples = (IF w = <<>> THEN heard.samples ELSE heard.samples + SamplesIn(w))
      BY <1>1, <2>8
    <3> HIDE DEF w
    <3>. QED BY <3>1, <3>2, <2>6
  <2>10. /\ DOMAIN heard' = HeardFields /\ heard'.last \in Int /\ heard'.ever \in Int
         /\ heard'.late = heard.late /\ (heard'.disorder => heard.disorder)
         /\ (~heard.late => (heard'.replay => heard.replay))
    BY <1>1, <2>7, <2>8
  <2>11. PlayShapes'
    BY <1>2, <2>2, <2>9, <2>10 DEF PlayShapes, HeardFields
  <2>12. PlaysInOrder'
    <3>1. ~heard.disorder /\ (heard.replay => heard.late)  BY <1>2 DEF PlaysInOrder
    <3>. QED BY <3>1, <2>10 DEF PlaysInOrder
  <2>. QED BY <1>1, <1>3, <2>2, <2>11, <2>12 DEF PlayInv, NothingWaits
<1>. QED BY <1>4, <1>5

\* SendAudio: a packet says when it was spoken.
LEMMA PlaySend ==
  ASSUME StreamInv, PlayInv, NEW class, SendAudio(class)
  PROVE  PlayInv'
<1> DEFINE header == AudioHeader(peer.stream, class, FALSE)
           q == Packet(header, <<peer.sent>>, <<>>, 0)
<1>1. /\ kind = "audio" /\ net' = Remaining \cup {q}
      /\ peer' = [peer EXCEPT !.pipe = Protect(@, header, 1),
                              !.stream = NextAudio(@, class), !.sent = @ + 1]
      /\ UNCHANGED <<kind, play, heard, seen, ended>>
  BY DEF SendAudio, loop, history
<1>2. /\ peer.stream.samplesPerPacket = FrameLen
      /\ peer.stream.timestamp = (FrameLen * peer.sent) % TsMod
      /\ \A p \in net : p.timestamp = (FrameLen * p.index) % TsMod
  BY <1>1 DEF PlayInv, Timed
<1>3. peer.sent \in Nat /\ DOMAIN peer = {"pipe", "stream", "sent", "unit", "rest"}
      /\ DOMAIN peer.stream = DOMAIN NewRtpStream("peer", FrameLen, FALSE)
  BY <1>1 DEF StreamInv, Shapes, SenderCounts
<1>4. q.timestamp = (FrameLen * q.index) % TsMod /\ q.index = peer.sent
  BY <1>2 DEF Packet, AudioHeader
<1>5. peer'.stream = NextAudio(peer.stream, class) /\ peer'.sent = peer.sent + 1
  <2> HIDE DEF header
  <2>. QED BY <1>1, <1>3
<1>6. /\ peer'.stream.samplesPerPacket = FrameLen
      /\ peer'.stream.timestamp = (((FrameLen * peer.sent) % TsMod) + FrameLen) % TsMod
  BY <1>2, <1>3, <1>5 DEF NextAudio, NewRtpStream
<1>7. peer'.stream.timestamp = (FrameLen * peer'.sent) % TsMod
  <2>1. /\ FrameLen * peer.sent \in Int /\ FrameLen \in Int /\ TsMod \in Nat \ {0}
        /\ FrameLen * peer.sent + FrameLen = FrameLen * (peer.sent + 1)
    BY <1>3, PlayoutAssumption, NumbersAssumption
  <2>2. (((FrameLen * peer.sent) % TsMod) + FrameLen) % TsMod = (FrameLen * peer.sent + FrameLen) % TsMod
    BY <2>1, RemainderPlus
  <2>. QED BY <2>1, <2>2, <1>5, <1>6
<1>8. \A p \in net' : p.timestamp = (FrameLen * p.index) % TsMod
  <2> HIDE DEF q
  <2>. QED BY <1>1, <1>2, <1>4 DEF Remaining
<1>9. Timed'  BY <1>6, <1>7, <1>8 DEF Timed
<1>. QED BY <1>1, <1>9
     DEF PlayInv, PlayShapes, PlaysInOrder, NothingWaits, FrameWaits, Ascends

\* The steps that leave the playout alone.
LEMMA PlayRest ==
  ASSUME PlayInv, UNCHANGED <<kind, play, heard, ended>>,
         kind = "audio" => peer' = peer /\ net' \subseteq net /\ seen'.high = seen.high
  PROVE  PlayInv'
<1>1. Timed'  BY DEF PlayInv, Timed
<1>2. PlayShapes' /\ PlaysInOrder'  BY DEF PlayInv, PlayShapes, PlaysInOrder
<1>3. CASE play.pending = NoFrame  BY <1>1, <1>2, <1>3 DEF PlayInv, NothingWaits
<1>4. CASE play.pending # NoFrame
  <2>1. kind = "audio" /\ FrameWaits  BY <1>4 DEF PlayInv
  <2>2. FrameWaits'  BY <2>1 DEF FrameWaits, Ascends
  <2>. QED BY <1>1, <1>2, <1>4, <2>1, <2>2 DEF PlayInv
<1>. QED BY <1>3, <1>4

LEMMA PlayStep == StreamInv /\ StatsInv /\ PlayInv /\ [Next]_vars => PlayInv'
<1> SUFFICES ASSUME StreamInv, StatsInv, PlayInv, [Next]_vars PROVE PlayInv'  OBVIOUS
<1>1. ASSUME NEW bytes, BeginUnit(bytes) PROVE PlayInv'
  BY <1>1, PlayRest DEF BeginUnit, loop, history
<1>2. ASSUME SendVideo PROVE PlayInv'
  BY <1>2, PlayRest DEF SendVideo, loop, history
<1>3. ASSUME BeginReaction \/ AskClose \/ DoClose PROVE PlayInv'
  BY <1>3, PlayRest DEF BeginReaction, AskClose, DoClose, loop, history
<1>4. ASSUME NEW ok, SendCopy(ok) PROVE PlayInv'
  <2>1. kind = "appdata"  BY <1>4 DEF SendCopy, StreamInv, SenderCounts
  <2>. QED BY <1>4, <2>1, PlayRest DEF SendCopy, loop, history
<1>5. ASSUME Rekey PROVE PlayInv'
  BY <1>5, PlayRest DEF Rekey, sender, history
<1>6. ASSUME NEW p, NEW garbled, ReceiveVideo(p, garbled) PROVE PlayInv'
  BY <1>6, PlayRest DEF ReceiveVideo
<1>7. ASSUME NEW p, ReceiveAppData(p) PROVE PlayInv'
  BY <1>7, PlayRest DEF ReceiveAppData
<1>8. ASSUME MakeReport PROVE PlayInv'
  <2>1. seen'.high = seen.high
    <3>1. "high" \in DOMAIN seen  BY DEF StatsInv
    <3>. QED BY <3>1, <1>8 DEF MakeReport
  <2>. QED BY <1>8, <2>1, PlayRest DEF MakeReport, sender
<1>9. ASSUME UNCHANGED vars PROVE PlayInv'
  BY <1>9, PlayRest DEF vars, sender, loop, history
<1>. QED
  BY <1>1, <1>2, <1>3, <1>4, <1>5, <1>6, <1>7, <1>8, <1>9, PlaySend, PlayEnd, PlayAudio
  DEF Next

LEMMA PlayHolds == Spec => []PlayInv
<1>1. Spec => [](StreamInv /\ StatsInv)
  BY StreamInit, StreamStep, StatsInit, StatsStep, PTL DEF Spec
<1>. QED BY <1>1, PlayInit, PlayStep, PTL DEF Spec

\* audioPlayoutBuffer (PlaysInOrder): between two restarts the sink gets the
\* frames in the order they were spoken, each once, whatever is lost, late or
\* repeated and whichever writes fail; a frame is heard again only after a late
\* packet restarted the playout.
THEOREM FramesPlayInOrder == Spec => []PlaysInOrder
<1>1. PlayInv => PlaysInOrder  BY DEF PlayInv
<1>. QED BY <1>1, PlayHolds, PTL

\* alignAudioFrame (NeverAhead): what was played and is collected never lasts
\* longer than what was spoken, whatever the decoder returned.
THEOREM PlayoutIsNeverAhead == Spec => []NeverAhead
<1>1. PlayInv => NeverAhead  BY DEF PlayInv, FrameWaits, NeverAhead
<1>. QED BY <1>1, PlayHolds, PTL
=============================================================================
