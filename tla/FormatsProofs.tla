--------------------------- MODULE FormatsProofs ----------------------------
(***************************************************************************)
(* Proofs about two of the layers of Formats, for any tables, frames and   *)
(* sizes: the pitch search of the speech encoder follows the wire; the     *)
(* recorder keeps what it was given; and the frames of a file are its      *)
(* sound, wherever it was cut while it was decoded and resampled.          *)
(***************************************************************************)
EXTENDS MlowStream, AudioFiles, SequenceTheorems, FiniteSetTheorems, NaturalsInduction,
        WellFoundedInduction, TLAPS

-----------------------------------------------------------------------------
(* Speech.                                                                 *)

StreamNext ==
  \/ \E ip \in Unvoiced \cup Voiced : Analyze(ip)
  \/ SendFrame
  \/ SendContainer
  \/ SendRedundant
  \/ \E p \in Pauses : SendPause(p)
  \/ Lose
  \/ Receive

StreamSpec == StreamInit /\ [][StreamNext]_streamVars

\* What the packet under way left behind decides from what the next internal
\* frame is predicted, and the search stands there.
SearchInv ==
  /\ enc.frames \in Seq(Unvoiced \cup Voiced) /\ Len(enc.frames) < 3
  /\ encoded \in Nat /\ DOMAIN enc.lstate = DOMAIN ZeroLsf
  /\ enc.frames # <<>> =>
       enc.est = IF enc.lstate.stage1 = 1
                 THEN [lag |-> enc.lstate.lag, fracLag |-> enc.lstate.fracLag]
                 ELSE NoPredictor
  /\ enc.frames = <<>> /\ encoded > 0 => enc.est = NoPredictor

\* smplReplayPitchState and SmplPitch leave the same predictor, after an internal
\* frame of either kind.
LEMMA PredictorAfter ==
  ASSUME NEW st, DOMAIN st = DOMAIN ZeroLsf, NEW intf, NEW ip, NEW f, f < 3
  PROVE  LET after == AfterInternal(st, intf, ip) IN
         /\ DOMAIN after = DOMAIN ZeroLsf
         /\ EstimatorAfter(ip, f) = IF after.stage1 = 1
                                    THEN [lag |-> after.lag, fracLag |-> after.fracLag]
                                    ELSE NoPredictor
<1> DEFINE adv == AdvanceLsfState(st, intf, ip.lsf.stage1)
           after == AfterInternal(st, intf, ip)
           next == LagsPredictorAfter(ip.pitch)
<1>1. DOMAIN adv = DOMAIN ZeroLsf /\ adv.stage1 = ip.lsf.stage1
  BY DEF AdvanceLsfState, Matches, ZeroLsf
<1>2. next = [lag |-> next.lag, fracLag |-> next.fracLag]
  BY DEF LagsPredictorAfter
<1>3. CASE ip.lsf.stage1 = 1
  <2> HIDE DEF adv, next
  <2>1. after = AfterPitch(adv, SubfrCounts(ip.pulse), ip.pitch)
    BY <1>3 DEF AfterInternal, adv
  <2>2. /\ DOMAIN after = DOMAIN ZeroLsf
        /\ after.stage1 = 1 /\ after.lag = next.lag /\ after.fracLag = next.fracLag
    BY <2>1, <1>1, <1>3 DEF AfterPitch, ZeroLsf, next
  <2>3. EstimatorAfter(ip, f) = next
    BY <1>3 DEF EstimatorAfter, next
  <2>. QED BY <2>2, <2>3, <1>2
<1>4. CASE ip.lsf.stage1 # 1
  <2>1. after = adv  BY <1>4 DEF AfterInternal
  <2>2. EstimatorAfter(ip, f) = NoPredictor  BY <1>4 DEF EstimatorAfter
  <2> HIDE DEF adv, after
  <2>. QED BY <2>1, <2>2, <1>1, <1>4 DEF after
<1>. QED BY <1>3, <1>4

LEMMA SearchAnalyze ==
  ASSUME SearchInv, NEW ip \in Unvoiced \cup Voiced, Analyze(ip)
  PROVE  SearchInv'
<1> DEFINE f == Len(enc.frames) + 1
<1>1. /\ enc.frames \in Seq(Unvoiced \cup Voiced) /\ Len(enc.frames) \in Nat /\ Len(enc.frames) < 3
      /\ encoded \in Nat /\ DOMAIN enc.lstate = DOMAIN ZeroLsf
  BY DEF SearchInv
<1>2. /\ Append(enc.frames, ip) \in Seq(Unvoiced \cup Voiced)
      /\ Append(enc.frames, ip) # <<>> /\ Len(Append(enc.frames, ip)) = f
  BY <1>1
<1>3. CASE f = 3
  <2>1. /\ enc'.frames = <<>> /\ enc'.lstate = ZeroLsf
        /\ enc'.est = EstimatorAfter(ip, 3) /\ encoded' = encoded + 1
    BY <1>3 DEF Analyze
  <2>2. enc'.est = NoPredictor  BY <2>1 DEF EstimatorAfter
  <2>. QED BY <1>1, <2>1, <2>2 DEF SearchInv
<1>4. CASE f # 3
  <2>1. /\ enc'.frames = Append(enc.frames, ip) /\ encoded' = encoded
        /\ enc'.lstate = AfterInternal(enc.lstate, f - 1, ip)
        /\ enc'.est = EstimatorAfter(ip, f)
    BY <1>4 DEF Analyze
  <2>2. f < 3  BY <1>1, <1>4
  <2>3. /\ DOMAIN enc'.lstate = DOMAIN ZeroLsf
        /\ enc'.est = IF enc'.lstate.stage1 = 1
                      THEN [lag |-> enc'.lstate.lag, fracLag |-> enc'.lstate.fracLag]
                      ELSE NoPredictor
    BY <1>1, <2>1, <2>2, PredictorAfter
  <2>. QED BY <1>1, <1>2, <2>1, <2>2, <2>3 DEF SearchInv
<1>. QED BY <1>3, <1>4

\* The pitch search of the encoder (smplAnalyzeInternal, ResetCond) starts from
\* the predictor that the entropy coder will use for a voiced frame, whatever
\* frames came before, but for the very first one.
THEOREM SearchMatchesWire == StreamSpec => []SearchFollowsWire
<1>1. StreamInit => SearchInv
  BY DEF StreamInit, SearchInv, NewEncoderState, ZeroLsf
<1>2. SearchInv /\ [StreamNext]_streamVars => SearchInv'
  <2> SUFFICES ASSUME SearchInv, [StreamNext]_streamVars PROVE SearchInv'  OBVIOUS
  <2>1. CASE UNCHANGED <<enc, encoded>>  BY <2>1 DEF SearchInv
  <2>2. ASSUME NEW ip \in Unvoiced \cup Voiced, Analyze(ip) PROVE SearchInv'
    BY <2>2, SearchAnalyze
  <2>3. SendFrame \/ SendContainer \/ SendRedundant \/ (\E p \in Pauses : SendPause(p))
          \/ Lose \/ Receive \/ UNCHANGED streamVars => UNCHANGED <<enc, encoded>>
    BY DEF SendFrame, SendContainer, SendRedundant, SendPause, Lose, Receive, Post, streamVars
  <2>. QED BY <2>1, <2>2, <2>3 DEF StreamNext
<1>3. SearchInv => SearchFollowsWire
  <2> SUFFICES ASSUME SearchInv, encoded > 0 \/ enc.frames # <<>>
               PROVE  LET st == AdvanceLsfState(enc.lstate, Len(enc.frames), 1) IN
                      enc.est = [lag |-> st.lag, fracLag |-> st.fracLag]
    BY DEF SearchFollowsWire
  <2>1. CASE enc.frames = <<>>
    BY <2>1 DEF SearchInv, AdvanceLsfState, Matches, NoPredictor
  <2>2. CASE enc.frames # <<>>
    <3>1. Len(enc.frames) # 0  BY <2>2 DEF SearchInv
    <3>. QED BY <2>2, <3>1 DEF SearchInv, AdvanceLsfState, Matches, NoPredictor
  <2>. QED BY <2>1, <2>2
<1>. QED BY <1>1, <1>2, <1>3, PTL DEF StreamSpec

-----------------------------------------------------------------------------
(* The recorder.                                                           *)

FilesNext ==
  \/ \E f \in Recordings : Open(f)
  \/ OpenRecording
  \/ ReadFrame
  \/ ReadPcmFrame
  \/ CloseSource
  \/ \E frame \in PeerFrames : WriteFrame(frame)
  \/ CloseRecorder

FilesSpec == AudioInit /\ [][FilesNext]_audioVars

\* What fits in a word of a file.
FileWords == -WordTop..WordTop - 1

RecorderType ==
  [header : Nat, disk : Seq(FileWords), buffered : Seq(FileWords), dataLen : Nat,
   closed : BOOLEAN, heard : Seq(FileWords)]

\* File and buffer together are what was heard; the sizes are written at the end.
RecorderInv ==
  /\ recorder \in RecorderType
  /\ recorder.disk \o recorder.buffered = recorder.heard
  /\ recorder.dataLen = Len(recorder.heard)
  /\ Len(recorder.buffered) <= WriteBuffer
  /\ IF recorder.closed THEN recorder.header = recorder.dataLen /\ recorder.buffered = <<>>
     ELSE recorder.header = 0

\* A recording that is closed holds what was heard, and says so.
RecordingIsWhole ==
  recorder.closed =>
    recorder.disk = recorder.heard /\ recorder.header = Len(recorder.disk)

LEMMA ClampedFits == ASSUME NEW v \in Int PROVE Clamped(v) \in FileWords
<1>1. WordTop \in Nat /\ WordTop > 0  BY AudioAssumption
<1>2. \A a, b \in Int : Min({a, b}) = (IF a <= b THEN a ELSE b)
                        /\ Max({a, b}) = (IF a >= b THEN a ELSE b)
  BY DEF Min, Max
<1> DEFINE low == Min({v, WordTop - 1})
<1>3. low \in Int /\ low <= WordTop - 1  BY <1>1, <1>2
<1>4. Clamped(v) = IF -WordTop >= low THEN -WordTop ELSE low
  <2> HIDE DEF low
  <2>1. Max({-WordTop, low}) = IF -WordTop >= low THEN -WordTop ELSE low
    BY <1>1, <1>2, <1>3
  <2>. QED BY <2>1 DEF Clamped, low
<1> HIDE DEF low
<1>. QED BY <1>1, <1>3, <1>4 DEF FileWords

\* A sequence cut in two.
LEMMA CutInTwo ==
  ASSUME NEW S, NEW s \in Seq(S), NEW n \in 0..Len(s)
  PROVE  LET left == SubSeq(s, 1, n)  right == SubSeq(s, n + 1, Len(s)) IN
         /\ left \in Seq(S) /\ right \in Seq(S) /\ Len(right) = Len(s) - n
         /\ left \o right = s
<1> DEFINE left == SubSeq(s, 1, n)
           right == SubSeq(s, n + 1, Len(s))
<1>1. /\ left \in Seq(S) /\ Len(left) = n
      /\ \A i \in 1..n : left[i] = s[i]
  <2>1. \A i \in 1..n : s[i] \in S  OBVIOUS
  <2>2. n \in Int /\ (1 <= n => n - 1 + 1 = n) /\ (~(1 <= n) => n = 0)  OBVIOUS
  <2>3. \A i \in 1..n : 1 + i - 1 = i /\ i \in 1..(n - 1 + 1)  OBVIOUS
  <2>. QED BY <2>1, <2>2, <2>3, SubSeqProperties
<1>2. /\ right \in Seq(S) /\ Len(right) = Len(s) - n
      /\ \A i \in 1..(Len(s) - n) : right[i] = s[n + i]
  <2>1. \A i \in (n + 1)..Len(s) : s[i] \in S  OBVIOUS
  <2>2. Len(right) = IF n + 1 <= Len(s) THEN Len(s) - (n + 1) + 1 ELSE 0
    BY <2>1, SubSeqProperties
  <2>3. \A i \in 1..(Len(s) - (n + 1) + 1) : right[i] = s[(n + 1) + i - 1]
    BY <2>1, SubSeqProperties
  <2>4. right \in Seq(S)  BY <2>1, SubSeqProperties
  <2> HIDE DEF right
  <2>5. \A i \in 1..(Len(s) - n) : (n + 1) + i - 1 = n + i /\ i \in 1..(Len(s) - (n + 1) + 1)
    OBVIOUS
  <2>. QED BY <2>2, <2>3, <2>4, <2>5
<1> HIDE DEF left, right
<1>3. /\ left \o right \in Seq(S) /\ Len(left \o right) = Len(s)
      /\ \A i \in 1..Len(s) : (left \o right)[i] = s[i]
  <2>1. /\ left \o right \in Seq(S) /\ Len(left \o right) = n + (Len(s) - n)
        /\ \A i \in 1..(n + (Len(s) - n)) :
             (left \o right)[i] = IF i <= n THEN left[i] ELSE right[i - n]
    BY <1>1, <1>2, ConcatProperties
  <2>2. \A i \in 1..Len(s) : IF i <= n THEN i \in 1..n ELSE i - n \in 1..(Len(s) - n) /\ n + (i - n) = i
    OBVIOUS
  <2>. QED BY <2>1, <2>2, <1>1, <1>2
<1>4. left \o right = s  BY <1>3, SeqEqual
<1>. QED BY <1>1, <1>2, <1>4 DEF left, right

\* bufio.Writer: nothing is lost between file and buffer.
LEMMA WrittenKeeps ==
  ASSUME NEW r \in RecorderType, Len(r.buffered) <= WriteBuffer, NEW words \in Seq(FileWords)
  PROVE  LET w == Written(r, words) IN
         /\ w \in RecorderType /\ Len(w.buffered) <= WriteBuffer
         /\ w.disk \o w.buffered = (r.disk \o r.buffered) \o words
         /\ w.heard = r.heard /\ w.dataLen = r.dataLen /\ w.header = r.header /\ w.closed = r.closed
<1> DEFINE all == r.buffered \o words
           over == Len(all) - WriteBuffer
           kept == CASE over <= 0 -> Len(all)
                     [] r.buffered # <<>> /\ over \in 1..WriteBuffer -> over
                     [] OTHER -> 0
           n == Len(all) - kept
           left == SubSeq(all, 1, n)
           right == SubSeq(all, n + 1, Len(all))
           w == Written(r, words)
<1>1. /\ r.disk \in Seq(FileWords) /\ r.buffered \in Seq(FileWords)
      /\ WriteBuffer \in Nat
  BY AudioAssumption DEF RecorderType
<1>2. all \in Seq(FileWords) /\ Len(all) \in Nat  BY <1>1
<1>3. w = [r EXCEPT !.disk = r.disk \o left, !.buffered = right]  BY DEF Written
<1> HIDE DEF all, w
<1>4. kept \in 0..Len(all) /\ kept <= WriteBuffer
  <2>1. CASE over <= 0  BY <2>1, <1>1, <1>2
  <2>2. CASE ~(over <= 0) /\ r.buffered # <<>> /\ over \in 1..WriteBuffer
    <3>1. kept = over  BY <2>2
    <3>. QED BY <3>1, <2>2, <1>1, <1>2
  <2>3. CASE ~(over <= 0) /\ ~(r.buffered # <<>> /\ over \in 1..WriteBuffer)
    <3>1. kept = 0  BY <2>3
    <3>. QED BY <3>1, <1>1, <1>2
  <2>. QED BY <2>1, <2>2, <2>3
<1> HIDE DEF kept
<1>5. n \in 0..Len(all) /\ Len(all) - n = kept  BY <1>2, <1>4
<1> HIDE DEF n
<1>6. left \in Seq(FileWords) /\ right \in Seq(FileWords) /\ Len(right) = kept /\ left \o right = all
  BY <1>2, <1>5, CutInTwo
<1> HIDE DEF left, right
<1>7. r.disk \o left \in Seq(FileWords)  BY <1>1, <1>6
<1>8. (r.disk \o left) \o right = (r.disk \o r.buffered) \o words
  <2>0. \A s, t, u \in Seq(FileWords) : (s \o t) \o u = s \o (t \o u)
    BY ConcatAssociative
  <2>1. (r.disk \o left) \o right = r.disk \o (left \o right)
    BY <2>0, <1>1, <1>6, Zenon
  <2>2. r.disk \o (r.buffered \o words) = (r.disk \o r.buffered) \o words
    BY <2>0, <1>1, Zenon
  <2>. QED BY <2>1, <2>2, <1>6 DEF all
<1>9. w \in RecorderType  BY <1>3, <1>6, <1>7 DEF RecorderType
<1>10. /\ w.disk = r.disk \o left /\ w.buffered = right
       /\ w.heard = r.heard /\ w.dataLen = r.dataLen /\ w.header = r.header /\ w.closed = r.closed
  BY <1>3 DEF RecorderType
<1>. QED BY <1>4, <1>6, <1>8, <1>9, <1>10 DEF w

LEMMA RecorderWrite ==
  ASSUME RecorderInv, NEW frame \in PeerFrames, WriteFrame(frame)
  PROVE  RecorderInv'
<1> DEFINE words == [i \in DOMAIN frame |-> Clamped(frame[i])]
           w == Written(recorder, words)
<1>1. frame \in Seq(Int)  BY AudioAssumption
<1>2. words \in Seq(FileWords) /\ Len(words) \in Nat
  <2>1. PICK n \in Nat : frame \in [1..n -> Int]  BY <1>1
  <2>2. DOMAIN frame = 1..n /\ \A i \in 1..n : Clamped(frame[i]) \in FileWords
    BY <2>1, ClampedFits
  <2>3. words \in [1..n -> FileWords]  BY <2>2
  <2> HIDE DEF words
  <2>. QED BY <2>3
<1>3. CASE recorder.closed
  BY <1>3 DEF RecorderInv, WriteFrame
<1>4. CASE ~recorder.closed
  <2> HIDE DEF words
  <2>1. recorder' = [w EXCEPT !.dataLen = w.dataLen + Len(words), !.heard = w.heard \o words]
    BY <1>4 DEF WriteFrame, words
  <2>2. /\ w \in RecorderType /\ Len(w.buffered) <= WriteBuffer
        /\ w.disk \o w.buffered = (recorder.disk \o recorder.buffered) \o words
        /\ w.heard = recorder.heard /\ w.dataLen = recorder.dataLen
        /\ w.header = recorder.header /\ w.closed = recorder.closed
    BY <1>2, WrittenKeeps DEF RecorderInv
  <2> HIDE DEF w
  <2>3. /\ recorder.heard \in Seq(FileWords)
        /\ recorder.disk \o recorder.buffered = recorder.heard
        /\ recorder.dataLen = Len(recorder.heard) /\ recorder.header = 0
    BY <1>4 DEF RecorderInv, RecorderType
  <2>4. /\ w.heard \o words \in Seq(FileWords)
        /\ Len(w.heard \o words) = w.dataLen + Len(words) /\ w.dataLen + Len(words) \in Nat
    BY <1>2, <2>2, <2>3
  <2>5. /\ recorder'.disk = w.disk /\ recorder'.buffered = w.buffered
        /\ recorder'.dataLen = w.dataLen + Len(words) /\ recorder'.heard = w.heard \o words
        /\ recorder'.header = w.header /\ recorder'.closed = w.closed
    BY <2>1, <2>2 DEF RecorderType
  <2>6. recorder' \in RecorderType  BY <2>1, <2>2, <2>4 DEF RecorderType
  <2>. QED BY <1>4, <2>2, <2>3, <2>4, <2>5, <2>6 DEF RecorderInv
<1>. QED BY <1>3, <1>4

LEMMA RecorderClose ==
  ASSUME RecorderInv, CloseRecorder
  PROVE  RecorderInv'
<1>1. /\ recorder \in RecorderType /\ recorder.disk \o recorder.buffered = recorder.heard
      /\ recorder.dataLen = Len(recorder.heard)
  BY DEF RecorderInv
<1>2. recorder' = [recorder EXCEPT !.closed = TRUE, !.disk = recorder.heard, !.buffered = <<>>,
                                   !.header = recorder.dataLen]
  BY <1>1 DEF CloseRecorder
<1>3. recorder' \in RecorderType
  <2>1. recorder.heard \in Seq(FileWords) /\ recorder.dataLen \in Nat
    BY <1>1 DEF RecorderType
  <2>2. <<>> \in Seq(FileWords)  OBVIOUS
  <2>. QED BY <1>1, <1>2, <2>1, <2>2 DEF RecorderType
<1>4. /\ recorder'.closed /\ recorder'.disk = recorder.heard /\ recorder'.buffered = <<>>
      /\ recorder'.header = recorder.dataLen /\ recorder'.heard = recorder.heard
      /\ recorder'.dataLen = recorder.dataLen
  BY <1>1, <1>2 DEF RecorderType
<1>5. recorder.heard \o <<>> = recorder.heard  BY <1>1 DEF RecorderType
<1>6. Len(<<>>) = 0 /\ 0 <= WriteBuffer  BY AudioAssumption
<1>. QED BY <1>1, <1>3, <1>4, <1>5, <1>6 DEF RecorderInv

LEMMA RecorderStep == RecorderInv /\ [FilesNext]_audioVars => RecorderInv'
<1> SUFFICES ASSUME RecorderInv, [FilesNext]_audioVars PROVE RecorderInv'  OBVIOUS
<1>1. CASE UNCHANGED recorder  BY <1>1 DEF RecorderInv
<1>2. ASSUME NEW frame \in PeerFrames, WriteFrame(frame) PROVE RecorderInv'
  BY <1>2, RecorderWrite
<1>3. CASE CloseRecorder  BY <1>3, RecorderClose
<1>4. (\E f \in Recordings : Open(f)) \/ OpenRecording \/ ReadFrame \/ ReadPcmFrame
        \/ CloseSource \/ UNCHANGED audioVars => UNCHANGED recorder
  BY DEF Open, OpenRecording, ReadFrame, ReadPcmFrame, CloseSource, audioVars
<1>. QED BY <1>1, <1>2, <1>3, <1>4 DEF FilesNext

\* wavRecorder (sink.go): whatever frames come and however they meet the buffer,
\* a closed recording is what was heard, and its header says how much that is.
THEOREM RecordingKeepsSound == FilesSpec => []RecordingIsWhole
<1>1. AudioInit => RecorderInv
  BY AudioAssumption DEF AudioInit, RecorderInv, RecorderType
<1>2. RecorderInv /\ [FilesNext]_audioVars => RecorderInv'
  BY RecorderStep
<1>3. RecorderInv => RecordingIsWhole
  BY DEF RecorderInv, RecordingIsWhole, RecorderType
<1>. QED BY <1>1, <1>2, <1>3, PTL DEF FilesSpec

-----------------------------------------------------------------------------
(* Numbers.                                                                *)


LEMMA LeastElement ==
  ASSUME NEW T \in SUBSET Nat, T # {}
  PROVE  \E x \in T : \A y \in T : x <= y
<1> DEFINE R == OpToRel(<, Nat)
<1>1. IsWellFoundedOn(R, Nat)  BY NatLessThanWellFounded
<1>2. \A p \in Nat \X Nat : p[1] < p[2] => p \in R  BY DEF OpToRel
<1>3. ASSUME NEW a \in Nat, NEW b \in Nat, a < b PROVE <<a, b>> \in R
  BY <1>2, <1>3
<1>4. PICK x \in T : \A y \in T : <<y, x>> \notin R
  <2> HIDE DEF R
  <2>. QED BY <1>1, WFMin
<1>5. ASSUME NEW y \in T PROVE x <= y
  <2> HIDE DEF R
  <2>1. ~(y < x)  BY <1>3, <1>4
  <2>. QED BY <2>1
<1>. QED BY <1>4, <1>5

LEMMA GreatestElement ==
  ASSUME NEW n \in Nat, NEW T \in SUBSET (1..n), T # {}
  PROVE  \E x \in T : \A y \in T : y <= x
<1> DEFINE D == {k \in 0..n : \E x \in T : x + k = n}
<1>1. \A x \in T : x \in 1..n /\ n - x \in 0..n /\ x + (n - x) = n  OBVIOUS
<1>2. D # {} /\ D \in SUBSET Nat
  <2>1. PICK x \in T : n - x \in 0..n /\ x + (n - x) = n  BY <1>1
  <2>2. n - x \in D  BY <2>1
  <2>3. D \in SUBSET Nat  OBVIOUS
  <2> HIDE DEF D
  <2>. QED BY <2>2, <2>3
<1>3. PICK k \in D : \A j \in D : k <= j
  <2> HIDE DEF D
  <2>. QED BY <1>2, LeastElement
<1>4. PICK x \in T : x + k = n /\ k \in 0..n  BY <1>3
<1>5. ASSUME NEW y \in T PROVE y <= x
  <2>1. n - y \in D  BY <1>1
  <2>2. k <= n - y  BY <1>3, <2>1
  <2>. QED BY <1>1, <1>4, <2>2
<1>. QED BY <1>5

LEMMA NatSetInduction ==
  ASSUME NEW S, 0 \in S, \A n \in Nat : n \in S => n + 1 \in S
  PROVE  Nat \subseteq S
<1> SUFFICES ASSUME Nat \ S # {} PROVE FALSE  OBVIOUS
<1>1. PICK x \in Nat \ S : \A y \in Nat \ S : x <= y  BY LeastElement
<1>2. x - 1 \in Nat /\ x - 1 \in S  BY <1>1
<1>. QED BY <1>1, <1>2

-----------------------------------------------------------------------------
LEMMA Divided ==
  ASSUME NEW m \in Nat \ {0}, NEW n \in Int
  PROVE  /\ n \div m \in Int /\ n % m \in 0..m - 1
         /\ n = m * (n \div m) + (n % m)
         /\ n >= 0 => n \div m >= 0
  OBVIOUS

LEMMA NatDivided ==
  ASSUME NEW m \in Nat \ {0}, NEW n \in Nat
  PROVE  \E q \in Nat, r \in 0..m - 1 : n = m * q + r /\ q = n \div m /\ r = n % m
<1>1. n \in Int /\ n >= 0  OBVIOUS
<1>2. n \div m \in Int /\ n \div m >= 0 /\ n % m \in 0..m - 1 /\ n = m * (n \div m) + (n % m)
  BY <1>1, Divided
<1>3. n \div m \in Nat  BY <1>2
<1>. QED BY <1>2, <1>3

LEMMA DivisionIsUnique ==
  ASSUME NEW m \in Nat \ {0}, NEW n \in Int, NEW q \in Int, NEW r \in 0..m - 1,
         n = m * q + r
  PROVE  n \div m = q /\ n % m = r
  OBVIOUS

\* Whole multiples change the quotient only.
LEMMA DivisionShifts ==
  ASSUME NEW p \in Int, NEW m \in Nat \ {0}, NEW c \in Int
  PROVE  (p + c * m) \div m = p \div m + c /\ (p + c * m) % m = p % m
<1>1. PICK q \in Int, r \in 0..m - 1 : q = p \div m /\ r = p % m /\ p = m * q + r
  BY Divided
<1>2. PICK n \in Int : n = p + c * m  OBVIOUS
<1>3. n = m * (q + c) + r
  <2>1. m * (q + c) = m * q + c * m  OBVIOUS
  <2>. QED BY <1>1, <1>2, <2>1
<1>4. q + c \in Int  OBVIOUS
<1>5. n \div m = q + c /\ n % m = r
  BY <1>3, <1>4, DivisionIsUnique
<1>. QED BY <1>1, <1>2, <1>5

\* A quotient is below a number as what is divided is below its multiple.
LEMMA QuotientBelow ==
  ASSUME NEW p \in Int, NEW m \in Nat \ {0}, NEW c \in Int
  PROVE  p \div m < c <=> p < c * m
<1>1. PICK q \in Int, r \in 0..m - 1 : q = p \div m /\ r = p % m /\ p = m * q + r
  BY Divided
<1>2. m * q \in Int /\ m * c \in Int /\ c * m = m * c  OBVIOUS
<1>3. ASSUME NEW x \in Int, NEW y \in Int, x < y PROVE m * x + m <= m * y
  <2>1. PICK e \in Nat : y = x + e + 1
    <3>1. y - x - 1 \in Nat  BY <1>3
    <3>. QED BY <3>1
  <2>2. m * y = m * x + m * e + m  BY <2>1
  <2>3. m * e \in Nat /\ m * x \in Int  OBVIOUS
  <2>. QED BY <2>2, <2>3
<1>4. ASSUME q < c PROVE p < c * m
  BY <1>1, <1>2, <1>3, <1>4
<1>5. ASSUME ~(q < c) PROVE ~(p < c * m)
  <2>1. CASE q = c  BY <1>1, <1>2, <2>1
  <2>2. CASE c < q
    <3>1. m * c + m <= m * q  BY <2>2, <1>3
    <3>. QED BY <1>1, <1>2, <3>1
  <2>. QED BY <1>5, <2>1, <2>2
<1>. QED BY <1>1, <1>4, <1>5

-----------------------------------------------------------------------------
(* The resampler.                                                          *)

\* n steps of this size stay before the end.
StepsBefore(n, start, step, end) ==
  n \in Nat /\ \A k \in Nat : k < n <=> start + k * step < end

\* Positions counts those that are before the last sample.
LEMMA PositionsBefore ==
  ASSUME NEW samples, Len(samples) \in Nat, NEW start \in Nat, NEW step \in Nat \ {0}
  PROVE  StepsBefore(Positions(samples, start, step), start, step, (Len(samples) - 1) * SampleRate)
<1> DEFINE L == Len(samples)
           end == (L - 1) * SampleRate
           T == {m \in Nat : start + m * step >= end}
           P == {k \in 0..(L * SampleRate) : (start + k * step) \div SampleRate + 1 < L}
<1>0. SampleRate \in Nat \ {0} /\ L \in Nat /\ L * SampleRate \in Nat /\ end \in Int
      /\ end <= L * SampleRate
  BY AudioAssumption
<1>1. \A k \in Nat : k * step \in Nat /\ k * step >= k  OBVIOUS
<1>2. L * SampleRate \in T  BY <1>0, <1>1
<1>3. PICK n \in T : \A m \in T : n <= m
  <2> HIDE DEF end, L
  <2>. QED BY <1>2, LeastElement
<1>4. n \in Nat /\ n <= L * SampleRate
  <2> HIDE DEF end, L
  <2>. QED BY <1>2, <1>3
<1>5. ASSUME NEW k \in Nat PROVE k < n <=> start + k * step < end
  <2>0. start + k * step \in Int  OBVIOUS
  <2>1. ASSUME k < n PROVE start + k * step < end
    <3>1. k \notin T  BY <1>3, <1>4, <2>1
    <3> HIDE DEF end
    <3>. QED BY <3>1, <2>0, <1>0
  <2>2. ASSUME ~(k < n) PROVE ~(start + k * step < end)
    <3>1. PICK e \in Nat : k = n + e
      <4>1. k - n \in Nat  BY <2>2, <1>4
      <4>. QED BY <4>1, <1>4
    <3>2. k * step = n * step + e * step /\ e * step \in Nat /\ n * step \in Nat  BY <3>1, <1>4
    <3>3. start + n * step >= end  BY <1>3
    <3> HIDE DEF end
    <3>. QED BY <3>2, <3>3, <1>0
  <2>. QED BY <2>1, <2>2
<1>6. \A k \in Nat : (start + k * step) \div SampleRate + 1 < L <=> start + k * step < end
  <2> SUFFICES ASSUME NEW k \in Nat
               PROVE  (start + k * step) \div SampleRate + 1 < L <=> start + k * step < end
    OBVIOUS
  <2>1. PICK p \in Int : p = start + k * step  OBVIOUS
  <2>2. L - 1 \in Int  BY <1>0
  <2>3. p \div SampleRate < L - 1 <=> p < (L - 1) * SampleRate
    BY <1>0, <2>2, QuotientBelow
  <2>4. p \div SampleRate \in Int  BY <1>0, Divided
  <2>. QED BY <1>0, <2>1, <2>3, <2>4
<1>7. P = 0..n - 1
  <2>1. ASSUME NEW k \in P PROVE k \in 0..n - 1
    <3>1. k \in Nat /\ (start + k * step) \div SampleRate + 1 < L  BY <1>0
    <3>2. k < n
      <4> HIDE DEF P, T, end, L
      <4>. QED BY <3>1, <1>5, <1>6
    <3>. QED BY <3>1, <3>2, <1>4
  <2>2. ASSUME NEW k \in 0..n - 1 PROVE k \in P
    <3>1. k \in Nat /\ k < n /\ k \in 0..(L * SampleRate)  BY <1>0, <1>4
    <3>2. (start + k * step) \div SampleRate + 1 < L
      <4> HIDE DEF P, T, end, L
      <4>. QED BY <3>1, <1>5, <1>6
    <3>. QED BY <3>1, <3>2
  <2> HIDE DEF P
  <2>. QED BY <2>1, <2>2
<1>8. Cardinality(0..n - 1) = n
  <2>1. 0 \in Int /\ n - 1 \in Int  BY <1>4
  <2>2. Cardinality(0..n - 1) = IF 0 > n - 1 THEN 0 ELSE n - 1 - 0 + 1
    BY <2>1, FS_Interval
  <2>. QED BY <2>2, <1>4
<1>9. Positions(samples, start, step) = n
  <2> HIDE DEF P, T
  <2>1. Positions(samples, start, step) = Cardinality(P)  BY DEF Positions, P
  <2>. QED BY <2>1, <1>7, <1>8
<1> HIDE DEF P, T
<1>. QED BY <1>4, <1>5, <1>9 DEF StepsBefore

\* What channels together make, and what a frame may hold.
Mixes == {Mix(g) : g \in Seq(Int)}
Tones == Int \cup Mixes \cup {Between(m, p) : m \in Seq(Mixes), p \in Nat}

\* The same samples at another place, with the position moved as far.
LEMMA BetweenShifts ==
  ASSUME NEW s, NEW t, NEW p \in Nat, NEW c \in Nat,
         LET i == p \div SampleRate + 1 IN s[i] = t[i + c] /\ s[i + 1] = t[i + 1 + c]
  PROVE  Between(t, p + c * SampleRate) = Between(s, p)
<1>1. SampleRate \in Nat \ {0}  BY AudioAssumption
<1>2. /\ (p + c * SampleRate) \div SampleRate = p \div SampleRate + c
      /\ (p + c * SampleRate) % SampleRate = p % SampleRate
  <2>1. p \in Int /\ c \in Int  OBVIOUS
  <2>2. \A m \in Nat \ {0} : (p + c * m) \div m = p \div m + c /\ (p + c * m) % m = p % m
    BY <2>1, DivisionShifts
  <2>. QED BY <1>1, <2>2
<1>3. p \div SampleRate \in Int  BY <1>1, Divided
<1>4. PICK i \in Int : i = p \div SampleRate + 1  BY <1>3
<1>5. (p + c * SampleRate) \div SampleRate + 1 = i + c /\ i + c + 1 = i + 1 + c
  BY <1>2, <1>3, <1>4
<1>. QED BY <1>2, <1>4, <1>5 DEF Between

\* A resampler between chunks: the position is not before the sample it keeps.
Resampler(d) ==
  /\ d \in [inRate : Nat \ {0}, channels : Nat \ {0}, pos : Int, last : Seq(Mixes)]
  /\ Len(d.last) <= 1
  /\ d.pos + Len(d.last) * SampleRate >= 0
  /\ ReadBuffer % d.channels = 0

LEMMA ProcessKeeps ==
  ASSUME NEW d, Resampler(d), NEW mono \in Seq(Mixes)
  PROVE  /\ Process(d, mono).out \in Seq(Tones)
         /\ Resampler(Process(d, mono).d)
         /\ Process(d, mono).d.channels = d.channels /\ Process(d, mono).d.inRate = d.inRate
<1> DEFINE samples == d.last \o mono
           start == d.pos + Len(d.last) * SampleRate
           n == Positions(samples, start, d.inRate)
           out == [k \in 1..n |-> Between(samples, start + (k - 1) * d.inRate)]
           pos == d.pos + n * d.inRate - Len(mono) * SampleRate
           after == [d EXCEPT !.pos = pos, !.last = <<Last(mono)>>]
<1>0. /\ SampleRate \in Nat \ {0} /\ d.inRate \in Nat \ {0} /\ d.pos \in Int
      /\ d.last \in Seq(Mixes) /\ Len(d.last) \in Nat /\ Len(mono) \in Nat
      /\ start \in Nat
  BY AudioAssumption DEF Resampler
<1>1. CASE mono = <<>> \/ d.inRate = SampleRate
  <2>1. Process(d, mono) = [d |-> d, out |-> mono]  BY <1>1 DEF Process
  <2>2. Mixes \subseteq Tones  BY DEF Tones
  <2>3. mono \in Seq(Tones)  BY <2>2, SeqMonotonic
  <2>. QED BY <2>1, <2>3
<1>2. CASE ~(mono = <<>> \/ d.inRate = SampleRate)
  <2>1. Process(d, mono) = [d |-> after, out |-> out]  BY <1>2 DEF Process
  <2>2. samples \in Seq(Mixes) /\ Len(samples) = Len(d.last) + Len(mono)
    BY <1>0, ConcatProperties
  <2>3. /\ n \in Nat
        /\ \A k \in Nat : k < n <=> start + k * d.inRate < (Len(samples) - 1) * SampleRate
    <3> HIDE DEF start, samples
    <3>1. Len(samples) \in Nat  BY <2>2
    <3>. QED BY <1>0, <3>1, PositionsBefore DEF StepsBefore
  <2> HIDE DEF n
  <2>4. out \in Seq(Tones)
    <3>1. ASSUME NEW k \in 1..n PROVE Between(samples, start + (k - 1) * d.inRate) \in Tones
      <4>1. start + (k - 1) * d.inRate \in Nat
        <5>1. (k - 1) \in Nat  BY <2>3
        <5>2. (k - 1) * d.inRate \in Nat  BY <5>1, <1>0
        <5>. QED BY <5>2, <1>0
      <4> HIDE DEF samples, start
      <4>. QED BY <2>2, <4>1 DEF Tones
    <3> HIDE DEF samples, start
    <3>2. out \in [1..n -> Tones]  BY <3>1
    <3> HIDE DEF out
    <3>. QED BY <3>2, <2>3
  <2>5. Last(mono) \in Mixes /\ Len(mono) >= 1
    <3>1. Len(mono) \in 1..Len(mono)  BY <1>2, <1>0
    <3>. QED BY <3>1, ElementOfSeq DEF Last
  <2>6. <<Last(mono)>> \in Seq(Mixes) /\ Len(<<Last(mono)>>) = 1  BY <2>5
  <2>7. start + n * d.inRate >= (Len(samples) - 1) * SampleRate
    <3>1. ~(start + n * d.inRate < (Len(samples) - 1) * SampleRate)  BY <2>3
    <3>2. (Len(samples) - 1) * SampleRate \in Int /\ n * d.inRate \in Int  BY <1>0, <2>2, <2>3
    <3> HIDE DEF start, samples
    <3>. QED BY <3>1, <3>2, <1>0
  <2>8. PICK moved \in Int, old \in Int, kept \in Int :
          moved = n * d.inRate /\ old = Len(mono) * SampleRate /\ kept = Len(d.last) * SampleRate
    <3>1. n * d.inRate \in Int /\ Len(mono) * SampleRate \in Int /\ Len(d.last) * SampleRate \in Int
      <4> HIDE DEF samples, start
      <4>. QED BY <1>0, <2>3
    <3>. QED BY <3>1
  <2>9. pos \in Int /\ pos + SampleRate >= 0
    <3>1. (Len(samples) - 1) * SampleRate = kept + old - SampleRate
      <4>1. Len(samples) - 1 = Len(d.last) + Len(mono) - 1  BY <2>2
      <4>2. \A a, b \in Nat : (a + b - 1) * SampleRate = a * SampleRate + b * SampleRate - SampleRate
        BY <1>0
      <4> HIDE DEF samples
      <4>. QED BY <4>1, <4>2, <1>0, <2>8
    <3>2. /\ start = d.pos + kept /\ pos = d.pos + moved - old
          /\ moved \in Int /\ old \in Int /\ kept \in Int
      BY <2>8
    <3>3. start + moved >= kept + old - SampleRate
      <4> HIDE DEF samples, start, pos
      <4>. QED BY <3>1, <2>7, <2>8
    <3>4. d.pos \in Int /\ SampleRate \in Int  BY <1>0
    <3>5. ASSUME NEW a \in Int, a + kept + moved >= kept + old - SampleRate
          PROVE  a + moved - old \in Int /\ a + moved - old + SampleRate >= 0
      BY <3>2, <3>4, <3>5
    <3> HIDE DEF samples, start, pos
    <3>6. d.pos + kept + moved >= kept + old - SampleRate  BY <3>2, <3>3
    <3>. QED BY <3>2, <3>4, <3>5, <3>6
  <2> HIDE DEF pos
  <2>10. /\ after \in [inRate : Nat \ {0}, channels : Nat \ {0}, pos : Int, last : Seq(Mixes)]
         /\ after.pos = pos
         /\ after.last = <<Last(mono)>> /\ after.channels = d.channels /\ after.inRate = d.inRate
    BY <2>6, <2>9 DEF Resampler
  <2> HIDE DEF after
  <2>11. Resampler(after)
    <3>1. Len(after.last) * SampleRate = SampleRate  BY <2>6, <2>10, <1>0
    <3>. QED BY <2>6, <2>9, <2>10, <3>1 DEF Resampler
  <2>. QED BY <2>1, <2>4, <2>10, <2>11
<1>. QED BY <1>1, <1>2

\* A chunk in two parts has as many positions as it has in one.
LEMMA PositionsAdd ==
  ASSUME NEW start \in Nat, NEW next \in Nat, NEW step \in Nat \ {0},
         NEW c \in Nat, NEW e \in Nat, NEW n1 \in Nat, NEW n2 \in Nat, NEW n \in Nat,
         next = start + n1 * step - c,
         StepsBefore(n1, start, step, c), StepsBefore(n2, next, step, e),
         StepsBefore(n, start, step, c + e)
  PROVE  n = n1 + n2
<1> USE DEF StepsBefore
<1>1. \A k \in Nat : start + (n1 + k) * step = (next + k * step) + c
  <2> SUFFICES ASSUME NEW k \in Nat PROVE start + (n1 + k) * step = (next + k * step) + c  OBVIOUS
  <2>1. (n1 + k) * step = n1 * step + k * step  OBVIOUS
  <2>2. n1 * step \in Int /\ k * step \in Int  OBVIOUS
  <2>. QED BY <2>1, <2>2
<1>2. \A k \in Nat : k < n2 <=> n1 + k < n
  <2> SUFFICES ASSUME NEW k \in Nat PROVE k < n2 <=> n1 + k < n  OBVIOUS
  <2>1. PICK x \in Int : x = next + k * step  OBVIOUS
  <2>2. start + (n1 + k) * step = x + c  BY <1>1, <2>1
  <2>3. n1 + k \in Nat  OBVIOUS
  <2>4. n1 + k < n <=> x + c < c + e  BY <2>2, <2>3
  <2>5. k < n2 <=> x < e  BY <2>1
  <2>. QED BY <2>4, <2>5
<1>3. n >= n1
  <2> SUFFICES ASSUME n < n1 PROVE FALSE  OBVIOUS
  <2>1. PICK x \in Int : x = start + n * step  OBVIOUS
  <2>2. x < c  BY <2>1
  <2>3. ~(x < c + e)  BY <2>1
  <2>. QED BY <2>2, <2>3
<1>4. n - n1 \in Nat  BY <1>3
<1>5. PICK k \in Nat : n = n1 + k  BY <1>4
<1>6. ~(k < n2)  BY <1>2, <1>5
<1>7. ~(n2 < k)
  <2>1. ~(n1 + n2 < n)  BY <1>2
  <2>. QED BY <1>5, <2>1
<1>. QED BY <1>5, <1>6, <1>7

Associates(V) == \A s, t, u \in Seq(V) : s \o (t \o u) = (s \o t) \o u

LEMMA ConcatAssociates ==
  ASSUME NEW V PROVE Associates(V)
BY ConcatAssociative DEF Associates

\* downmixResampler.process (source.go) is stateful "so streaming decoders can feed
\* it a frame at a time without gaps at chunk boundaries": two chunks give what
\* both in one piece give.
THEOREM ChunksResampleAsOne ==
  ASSUME NEW d, Resampler(d), NEW a \in Seq(Mixes), NEW b \in Seq(Mixes)
  PROVE  Process(d, a \o b).out = Process(d, a).out \o Process(Process(d, a).d, b).out
<1> DEFINE d1 == Process(d, a).d
           S == d.last \o a
           T == d.last \o (a \o b)
           U == d1.last \o b
           start == d.pos + Len(d.last) * SampleRate
           next == d1.pos + Len(d1.last) * SampleRate
           step == d.inRate
           n1 == Positions(S, start, step)
           n2 == Positions(U, next, step)
           n == Positions(T, start, step)
<1>0. /\ SampleRate \in Nat \ {0} /\ step \in Nat \ {0} /\ d.pos \in Int /\ start \in Nat
      /\ d.last \in Seq(Mixes) /\ Len(d.last) \in Nat /\ Len(a) \in Nat /\ Len(b) \in Nat
  BY AudioAssumption DEF Resampler
<1>a. /\ Process(d, a).out \in Seq(Tones) /\ Resampler(d1) /\ d1.inRate = step
  BY ProcessKeeps
<1>b. Process(d1, b).out \in Seq(Tones)
  <2> HIDE DEF d1
  <2>. QED BY <1>a, ProcessKeeps
<1>1. CASE step = SampleRate
  <2>1. Process(d, a) = [d |-> d, out |-> a] /\ Process(d, b) = [d |-> d, out |-> b]
        /\ Process(d, a \o b) = [d |-> d, out |-> a \o b]
    BY <1>1 DEF Process
  <2>2. Process(d, a).d = d /\ Process(d, a).out = a /\ Process(d, b).out = b
        /\ Process(d, a \o b).out = a \o b
    BY <2>1
  <2>. QED BY <2>2
<1>2. CASE a = <<>>
  <2>1. Process(d, a).d = d /\ Process(d, a).out = <<>>
    <3>1. Process(d, a) = [d |-> d, out |-> <<>>]  BY <1>2 DEF Process
    <3>. QED BY <3>1
  <2>2. a \o b = b  BY <1>2
  <2>3. Process(d, b).out \in Seq(Tones)  BY ProcessKeeps
  <2>4. <<>> \o Process(d, b).out = Process(d, b).out  BY <2>3, ConcatEmptySeq
  <2>. QED BY <2>1, <2>2, <2>4
<1>3. CASE b = <<>>
  <2>1. Process(d1, b).out = <<>>  BY <1>3 DEF Process
  <2>2. a \o b = a  BY <1>3
  <2>3. Process(d, a).out \o <<>> = Process(d, a).out  BY <1>a, ConcatEmptySeq
  <2> HIDE DEF d1
  <2>. QED BY <2>1, <2>2, <2>3 DEF d1
<1>4. CASE step # SampleRate /\ a # <<>> /\ b # <<>>
  <2>1. /\ a \o b \in Seq(Mixes) /\ Len(a \o b) = Len(a) + Len(b) /\ Len(a) >= 1 /\ Len(b) >= 1
        /\ a \o b # <<>>
        /\ \A i \in 1..Len(a) + Len(b) : (a \o b)[i] = IF i <= Len(a) THEN a[i] ELSE b[i - Len(a)]
    BY <1>0, <1>4, ConcatProperties
  <2>2. /\ Process(d, a).out = [k \in 1..n1 |-> Between(S, start + (k - 1) * step)]
        /\ d1 = [d EXCEPT !.pos = d.pos + n1 * step - Len(a) * SampleRate, !.last = <<Last(a)>>]
    BY <1>4 DEF Process
  <2>3. Process(d, a \o b).out = [k \in 1..n |-> Between(T, start + (k - 1) * step)]
    BY <1>4, <2>1 DEF Process
  <2>4. Process(d1, b).out = [k \in 1..n2 |-> Between(U, next + (k - 1) * step)]
    <3> HIDE DEF d1
    <3>. QED BY <1>4, <1>a DEF Process
  <2>5. d1.pos = d.pos + n1 * step - Len(a) * SampleRate /\ d1.last = <<Last(a)>>
    <3> HIDE DEF d1, n1
    <3>. QED BY <2>2 DEF Resampler
  <2>6. /\ S \in Seq(Mixes) /\ Len(S) = Len(d.last) + Len(a)
        /\ \A i \in 1..Len(S) : S[i] = IF i <= Len(d.last) THEN d.last[i] ELSE a[i - Len(d.last)]
    BY <1>0, ConcatProperties
  <2>7. /\ T \in Seq(Mixes) /\ Len(T) = Len(S) + Len(b)
        /\ \A i \in 1..Len(S) : T[i] = S[i]
        /\ \A i \in 1..Len(b) : T[i + Len(S)] = b[i]
    <3>1. T = S \o b
      <4>1. d.last \in Seq(Mixes) /\ a \in Seq(Mixes) /\ b \in Seq(Mixes)  BY <1>0
      <4>2. Associates(Mixes)  BY ConcatAssociates
      <4>3. d.last \o (a \o b) = (d.last \o a) \o b  BY <4>1, <4>2, Zenon DEF Associates
      <4>. QED BY <4>3
    <3> HIDE DEF S, T
    <3>2. /\ T \in Seq(Mixes) /\ Len(T) = Len(S) + Len(b)
          /\ \A i \in 1..Len(S) + Len(b) : T[i] = IF i <= Len(S) THEN S[i] ELSE b[i - Len(S)]
      BY <2>6, <3>1, ConcatProperties
    <3>3. Len(S) \in Nat  BY <2>6, <1>0
    <3>4. ASSUME NEW i \in 1..Len(b) PROVE T[i + Len(S)] = b[i]
      <4>1. i + Len(S) \in 1..Len(S) + Len(b) /\ ~(i + Len(S) <= Len(S)) /\ i + Len(S) - Len(S) = i
        BY <3>3, <1>0
      <4>. QED BY <4>1, <3>2
    <3>5. ASSUME NEW i \in 1..Len(S) PROVE T[i] = S[i]
      <4>1. i \in 1..Len(S) + Len(b) /\ i <= Len(S)  BY <3>3, <1>0
      <4>. QED BY <4>1, <3>2
    <3>. QED BY <3>2, <3>4, <3>5
  <2>8. /\ U \in Seq(Mixes) /\ Len(U) = 1 + Len(b)
        /\ \A i \in 1..Len(U) : U[i] = T[i + (Len(S) - 1)]
    <3>1. Last(a) = a[Len(a)] /\ a[Len(a)] \in Mixes
      <4>1. Len(a) \in 1..Len(a)  BY <2>1, <1>0
      <4>. QED BY <4>1, ElementOfSeq DEF Last
    <3>2. <<Last(a)>> \in Seq(Mixes) /\ Len(<<Last(a)>>) = 1 /\ <<Last(a)>>[1] = a[Len(a)]
      BY <3>1
    <3>3. /\ U \in Seq(Mixes) /\ Len(U) = 1 + Len(b)
          /\ \A i \in 1..1 + Len(b) : U[i] = IF i <= 1 THEN <<Last(a)>>[i] ELSE b[i - 1]
      <4>1. U = <<Last(a)>> \o b  BY <2>5
      <4> HIDE DEF U
      <4>. QED BY <3>2, <4>1, ConcatProperties
    <3> HIDE DEF U, S, T
    <3>4. ASSUME NEW i \in 1..1 + Len(b) PROVE U[i] = T[i + (Len(S) - 1)]
      <4>1. CASE i = 1
        <5>1. U[i] = a[Len(a)]  BY <4>1, <3>2, <3>3
        <5>2. i + (Len(S) - 1) = Len(S) /\ Len(S) \in 1..Len(S) /\ ~(Len(S) <= Len(d.last))
              /\ Len(S) - Len(d.last) = Len(a)
          BY <4>1, <2>6, <2>1, <1>0
        <5>3. S[Len(S)] = a[Len(a)]  BY <5>2, <2>6
        <5>. QED BY <5>1, <5>2, <5>3, <2>7
      <4>2. CASE i # 1
        <5>1. ~(i <= 1) /\ i - 1 \in 1..Len(b) /\ (i - 1) + Len(S) = i + (Len(S) - 1)
          BY <4>2, <2>6, <1>0
        <5>2. U[i] = b[i - 1]  BY <5>1, <3>3
        <5>3. T[(i - 1) + Len(S)] = b[i - 1]  BY <5>1, <2>7
        <5>. QED BY <5>1, <5>2, <5>3
      <4>. QED BY <4>1, <4>2
    <3>. QED BY <3>3, <3>4
  <2> HIDE DEF S, T, U, start
  <2>9. PICK c \in Nat, e \in Nat :
          /\ c = (Len(S) - 1) * SampleRate /\ e = Len(b) * SampleRate
          /\ (Len(T) - 1) * SampleRate = c + e /\ (Len(U) - 1) * SampleRate = e
    <3>1. PICK x \in Nat : Len(S) = x + 1
      <4>1. Len(S) - 1 \in Nat /\ Len(S) = (Len(S) - 1) + 1  BY <1>0, <2>1, <2>6
      <4>. QED BY <4>1
    <3>2. Len(S) - 1 = x /\ Len(T) - 1 = x + Len(b) /\ Len(U) - 1 = Len(b)
      BY <3>1, <2>7, <2>8, <1>0
    <3>3. x * SampleRate \in Nat /\ Len(b) * SampleRate \in Nat
          /\ (x + Len(b)) * SampleRate = x * SampleRate + Len(b) * SampleRate
      BY <1>0
    <3>. QED BY <3>2, <3>3
  <2>10. next \in Nat
    <3> HIDE DEF d1
    <3>1. PICK x \in Int : x = d1.pos + Len(d1.last) * SampleRate /\ x >= 0
      BY <1>a, <1>0 DEF Resampler
    <3>. QED BY <3>1
  <2>11. StepsBefore(n1, start, step, c)
    <3>1. Len(S) \in Nat  BY <2>6
    <3>. QED BY <1>0, <3>1, <2>9, PositionsBefore
  <2>12. StepsBefore(n, start, step, c + e)
    <3>1. Len(T) \in Nat  BY <2>7
    <3>. QED BY <1>0, <3>1, <2>9, PositionsBefore
  <2> HIDE DEF d1, n1, n
  <2>13. next = start + n1 * step - c
    <3>1. Len(d1.last) = 1  BY <2>5
    <3>2. PICK x \in Int : x = n1 * step  BY <2>11, <1>0 DEF StepsBefore
    <3>3. c = Len(d.last) * SampleRate + Len(a) * SampleRate - SampleRate
      <4>1. PICK i \in Nat, j \in Nat : i = Len(d.last) /\ j = Len(a)  BY <1>0
      <4>2. Len(S) - 1 = i + j - 1  BY <4>1, <2>6
      <4>3. (i + j - 1) * SampleRate = i * SampleRate + j * SampleRate - SampleRate  BY <1>0
      <4>4. c = (i + j - 1) * SampleRate  BY <4>2, <2>9
      <4>. QED BY <4>1, <4>3, <4>4
    <3>4. PICK y \in Int, z \in Int : y = Len(d.last) * SampleRate /\ z = Len(a) * SampleRate
      BY <1>0
    <3>5. start = d.pos + y  BY <3>4 DEF start
    <3>6. next = d.pos + x - z + SampleRate  BY <3>1, <3>2, <3>4, <2>5, <1>0
    <3>7. c = y + z - SampleRate  BY <3>3, <3>4
    <3>8. d.pos \in Int /\ SampleRate \in Int  BY <1>0
    <3>. QED BY <3>2, <3>5, <3>6, <3>7, <3>8
  <2> HIDE DEF next
  <2>14. StepsBefore(n2, next, step, e)
    <3>1. Len(U) \in Nat  BY <2>8
    <3>2. StepsBefore(n2, next, step, (Len(U) - 1) * SampleRate)
      BY <1>0, <2>10, <3>1, PositionsBefore
    <3>. QED BY <3>2, <2>9
  <2> HIDE DEF n2
  <2>15. n1 \in Nat /\ n2 \in Nat /\ n \in Nat /\ n = n1 + n2
    <3> HIDE DEF step
    <3>1. n1 \in Nat /\ n2 \in Nat /\ n \in Nat  BY <2>11, <2>12, <2>14 DEF StepsBefore
    <3>. QED BY <3>1, <1>0, <2>10, <2>11, <2>12, <2>13, <2>14, PositionsAdd
  <2> DEFINE out1 == [k \in 1..n1 |-> Between(S, start + (k - 1) * step)]
             out2 == [k \in 1..n2 |-> Between(U, next + (k - 1) * step)]
             out == [k \in 1..n |-> Between(T, start + (k - 1) * step)]
  <2>16. out1 \in Seq(Tones) /\ out2 \in Seq(Tones) /\ Len(out1) = n1 /\ Len(out2) = n2
    <3>1. out1 \in Seq(Tones)  BY <1>a, <2>2
    <3>2. out2 \in Seq(Tones)  BY <1>b, <2>4
    <3>. QED BY <3>1, <3>2, <2>15
  <2>17. ASSUME NEW k \in 1..n1 PROVE out[k] = out1[k]
    <3>1. PICK p \in Nat : p = start + (k - 1) * step
      <4>1. k - 1 \in Nat  BY <2>15
      <4>2. (k - 1) * step \in Nat  BY <4>1, <1>0
      <4>. QED BY <4>2, <1>0
    <3>2. p < c
      <4>1. k - 1 \in Nat /\ k - 1 < n1  BY <2>15
      <4>. QED BY <4>1, <3>1, <2>11 DEF StepsBefore
    <3>3. PICK q \in Int : q = p \div SampleRate /\ q >= 0
      <4>1. p \in Int /\ p >= 0  OBVIOUS
      <4>. QED BY <4>1, <1>0, Divided
    <3>4. q < Len(S) - 1
      <4>1. p \in Int /\ Len(S) - 1 \in Int  BY <2>6
      <4>2. p < (Len(S) - 1) * SampleRate  BY <3>2, <2>9
      <4>. QED BY <4>1, <4>2, <3>3, <1>0, QuotientBelow
    <3>5. T[q + 1] = S[q + 1] /\ T[q + 1 + 1] = S[q + 1 + 1]
      <4>1. Len(S) \in Nat  BY <2>6
      <4>2. q + 1 \in 1..Len(S) /\ q + 1 + 1 \in 1..Len(S)  BY <4>1, <3>3, <3>4
      <4>. QED BY <4>2, <2>7
    <3>6. Between(T, p) = Between(S, p)  BY <3>3, <3>5 DEF Between
    <3>7. k \in 1..n  BY <2>15
    <3>. QED BY <3>1, <3>6, <3>7
  <2>18. ASSUME NEW k \in 1..n2 PROVE out[k + n1] = out2[k]
    <3>1. PICK p \in Nat : p = next + (k - 1) * step
      <4>1. k - 1 \in Nat  BY <2>15
      <4>2. (k - 1) * step \in Nat  BY <4>1, <1>0
      <4>. QED BY <4>2, <2>10
    <3>2. p < e
      <4>1. k - 1 \in Nat /\ k - 1 < n2  BY <2>15
      <4>. QED BY <4>1, <3>1, <2>14 DEF StepsBefore
    <3>3. PICK q \in Int : q = p \div SampleRate /\ q >= 0
      <4>1. p \in Int /\ p >= 0  OBVIOUS
      <4>. QED BY <4>1, <1>0, Divided
    <3>4. q < Len(b)
      <4>1. p \in Int /\ Len(b) \in Int  BY <1>0
      <4>2. p < Len(b) * SampleRate  BY <3>2, <2>9
      <4>. QED BY <4>1, <4>2, <3>3, <1>0, QuotientBelow
    <3>5. /\ U[q + 1] = T[q + 1 + (Len(S) - 1)]
          /\ U[q + 1 + 1] = T[q + 1 + 1 + (Len(S) - 1)]
      <4>1. q + 1 \in 1..Len(U) /\ q + 1 + 1 \in 1..Len(U)  BY <1>0, <2>8, <3>3, <3>4
      <4>. QED BY <4>1, <2>8
    <3>6. Between(T, p + (Len(S) - 1) * SampleRate) = Between(U, p)
      <4>1. Len(S) - 1 \in Nat  BY <1>0, <2>1, <2>6
      <4>. QED BY <4>1, <3>3, <3>5, BetweenShifts
    <3>7. start + ((k + n1) - 1) * step = p + c
      <4>1. ((k + n1) - 1) * step = (k - 1) * step + n1 * step  BY <2>15, <1>0
      <4>2. PICK x \in Int, y \in Int : x = (k - 1) * step /\ y = n1 * step  BY <2>15, <1>0
      <4>3. p = next + x /\ next = start + y - c /\ ((k + n1) - 1) * step = x + y
        BY <4>1, <4>2, <3>1, <2>13
      <4>. QED BY <4>3, <1>0, <2>10
    <3>8. k + n1 \in 1..n  BY <2>15
    <3>9. out[k + n1] = Between(T, start + ((k + n1) - 1) * step)
      <4>1. \A i \in 1..n : out[i] = Between(T, start + (i - 1) * step)  OBVIOUS
      <4> HIDE DEF out
      <4>. QED BY <4>1, <3>8, Zenon
    <3>10. out2[k] = Between(U, p)  BY <3>1
    <3>11. Between(T, p + c) = Between(U, p)  BY <3>6, <2>9
    <3> HIDE DEF out, out2
    <3>. QED BY <3>7, <3>9, <3>10, <3>11
  <2>19. out = out1 \o out2
    <3>1. /\ out1 \o out2 \in Seq(Tones) /\ Len(out1 \o out2) = n1 + n2
          /\ \A i \in 1..n1 + n2 : (out1 \o out2)[i] = IF i <= n1 THEN out1[i] ELSE out2[i - n1]
      <4> HIDE DEF out1, out2
      <4>. QED BY <2>16, ConcatProperties
    <3>2. out \in Seq(Tones) /\ Len(out) = n
      <4>1. out \in Seq(Tones)
        <5>1. out = Process(d, a \o b).out  BY <2>3
        <5>. QED BY <5>1, <2>1, ProcessKeeps
      <4>. QED BY <4>1, <2>15
    <3> HIDE DEF out, out1, out2
    <3>3. ASSUME NEW i \in 1..n PROVE out[i] = (out1 \o out2)[i]
      <4>1. CASE i <= n1
        <5>1. i \in 1..n1  BY <4>1, <2>15
        <5>. QED BY <4>1, <5>1, <3>1, <2>15, <2>17
      <4>2. CASE ~(i <= n1)
        <5>1. i - n1 \in 1..n2 /\ (i - n1) + n1 = i  BY <4>2, <2>15
        <5>2. out[i] = out2[i - n1]  BY <5>1, <2>18
        <5>. QED BY <4>2, <5>2, <3>1, <2>15
      <4>. QED BY <4>1, <4>2
    <3>. QED BY <3>1, <3>2, <3>3, <2>15, SeqEqual
  <2> HIDE DEF out, out1, out2
  <2>20. Process(d, a).out = out1 /\ Process(d1, b).out = out2 /\ Process(d, a \o b).out = out
    BY <2>2, <2>3, <2>4 DEF out, out1, out2
  <2>. QED BY <2>19, <2>20 DEF d1
<1>. QED BY <1>1, <1>2, <1>3, <1>4

-----------------------------------------------------------------------------
(* Words to samples.                                                       *)

LEMMA Stretch ==
  ASSUME NEW V, NEW s \in Seq(V), NEW a \in Nat, NEW e \in Nat, a + e <= Len(s)
  PROVE  LET t == SubSeq(s, a + 1, a + e) IN
         /\ t \in Seq(V) /\ Len(t) = e
         /\ \A i \in 1..e : t[i] = s[a + i]
<1> DEFINE t == SubSeq(s, a + 1, a + e)
<1>1. \A i \in (a + 1)..(a + e) : s[i] \in V
  <2>1. Len(s) \in Nat  OBVIOUS
  <2>. QED BY <2>1
<1>2. /\ t \in Seq(V)
      /\ Len(t) = IF a + 1 <= a + e THEN a + e - (a + 1) + 1 ELSE 0
      /\ \A i \in 1..(a + e - (a + 1) + 1) : t[i] = s[(a + 1) + i - 1]
  BY <1>1, SubSeqProperties
<1> HIDE DEF t
<1>3. Len(t) = e  BY <1>2
<1>4. ASSUME NEW i \in 1..e PROVE t[i] = s[a + i]
  <2>1. i \in 1..(a + e - (a + 1) + 1) /\ (a + 1) + i - 1 = a + i  OBVIOUS
  <2>. QED BY <1>2, <2>1
<1>. QED BY <1>2, <1>3, <1>4 DEF t

\* e values behind a in s are those behind c in t.
Alike(s, a, t, c, e) ==
  a + e <= Len(s) /\ c + e <= Len(t) /\ \A i \in 1..e : s[a + i] = t[c + i]

LEMMA SameStretch ==
  ASSUME NEW V, NEW s \in Seq(V), NEW t \in Seq(V), NEW a \in Nat, NEW c \in Nat, NEW e \in Nat,
         Alike(s, a, t, c, e)
  PROVE  SubSeq(s, a + 1, a + e) = SubSeq(t, c + 1, c + e)
<1>0. a + e <= Len(s) /\ c + e <= Len(t) /\ \A i \in 1..e : s[a + i] = t[c + i]  BY DEF Alike
<1> DEFINE x == SubSeq(s, a + 1, a + e)
           y == SubSeq(t, c + 1, c + e)
<1>1. x \in Seq(V) /\ Len(x) = e /\ \A i \in 1..e : x[i] = s[a + i]  BY <1>0, Stretch
<1>2. y \in Seq(V) /\ Len(y) = e /\ \A i \in 1..e : y[i] = t[c + i]  BY <1>0, Stretch
<1> HIDE DEF x, y
<1>3. \A i \in 1..Len(x) : x[i] = y[i]  BY <1>0, <1>1, <1>2
<1>4. x = y  BY <1>1, <1>2, <1>3, SeqEqual
<1>. QED BY <1>4 DEF x, y

\* The groups of a WAV file, one after the other.
LEMMA WavMonoGroups ==
  ASSUME NEW words \in Seq(Int), NEW channels \in Nat \ {0},
         NEW q \in Nat, NEW r \in 0..channels - 1, Len(words) = channels * q + r
  PROVE  /\ WavMono(words, channels) \in Seq(Mixes) /\ Len(WavMono(words, channels)) = q
         /\ \A i \in 1..q : /\ WavMono(words, channels)[i]
                                = Mix(SubSeq(words, (i - 1) * channels + 1, (i - 1) * channels + channels))
                          /\ (i - 1) * channels \in Nat /\ (i - 1) * channels + channels <= Len(words)
<1> DEFINE mono == [i \in 1..q |-> Mix(SubSeq(words, (i - 1) * channels + 1, i * channels))]
<1>1. Len(words) \div channels = q
  <2>1. Len(words) \in Int /\ q \in Int  OBVIOUS
  <2>. QED BY <2>1, DivisionIsUnique
<1>2. WavMono(words, channels) = mono  BY <1>1 DEF WavMono
<1>3. ASSUME NEW i \in 1..q
      PROVE  /\ (i - 1) * channels \in Nat /\ (i - 1) * channels + channels <= Len(words)
             /\ i * channels = (i - 1) * channels + channels
  <2>1. i - 1 \in Nat /\ q - i \in Nat  OBVIOUS
  <2>2. (i - 1) * channels \in Nat /\ (q - i) * channels \in Nat  BY <2>1
  <2>3. i * channels = (i - 1) * channels + channels  OBVIOUS
  <2>4. channels * q = (q - i) * channels + i * channels  OBVIOUS
  <2>5. PICK x \in Nat, y \in Nat, z \in Int : x = (i - 1) * channels /\ y = (q - i) * channels /\ z = channels * q
    BY <2>2
  <2>6. Len(words) = z + r /\ z = y + x + channels  BY <2>3, <2>4, <2>5
  <2>7. x + channels <= Len(words)  BY <2>6
  <2>. QED BY <2>2, <2>3, <2>5, <2>7
<1>4. ASSUME NEW i \in 1..q
      PROVE  /\ mono[i] = Mix(SubSeq(words, (i - 1) * channels + 1, (i - 1) * channels + channels))
             /\ mono[i] \in Mixes
  <2>1. mono[i] = Mix(SubSeq(words, (i - 1) * channels + 1, (i - 1) * channels + channels))
    <3>1. mono[i] = Mix(SubSeq(words, (i - 1) * channels + 1, i * channels))  OBVIOUS
    <3> HIDE DEF mono
    <3>. QED BY <3>1, <1>3
  <2>2. SubSeq(words, (i - 1) * channels + 1, (i - 1) * channels + channels) \in Seq(Int)
    BY <1>3, Stretch
  <2> HIDE DEF mono
  <2>. QED BY <2>1, <2>2 DEF Mixes
<1>5. mono \in Seq(Mixes) /\ Len(mono) = q
  <2>1. \A i \in 1..q : mono[i] \in Mixes  BY <1>4
  <2>2. mono \in [1..q -> Mixes]
    <3>1. DOMAIN mono = 1..q /\ mono = [i \in 1..q |-> mono[i]]  OBVIOUS
    <3> HIDE DEF mono
    <3>. QED BY <2>1, <3>1
  <2> HIDE DEF mono
  <2>. QED BY <2>2
<1> HIDE DEF mono
<1>. QED BY <1>2, <1>3, <1>4, <1>5

LEMMA WavMonoType ==
  ASSUME NEW words \in Seq(Int), NEW channels \in Nat \ {0}
  PROVE  /\ WavMono(words, channels) \in Seq(Mixes)
         /\ Len(words) < channels => WavMono(words, channels) = <<>>
<1>1. Len(words) \in Nat  OBVIOUS
<1>2. PICK q \in Nat, r \in 0..channels - 1 : Len(words) = channels * q + r
  BY <1>1, NatDivided
<1>3. WavMono(words, channels) \in Seq(Mixes) /\ Len(WavMono(words, channels)) = q
  BY <1>2, WavMonoGroups
<1>4. ASSUME Len(words) < channels PROVE q = 0
  <2> SUFFICES ASSUME q >= 1 PROVE FALSE  OBVIOUS
  <2>1. channels * q >= channels  OBVIOUS
  <2>2. PICK z \in Int : z = channels * q  OBVIOUS
  <2>. QED BY <2>1, <2>2, <1>2, <1>4
<1>. QED BY <1>3, <1>4

\* A cut between groups leaves them as they are.
LEMMA WavMonoSplits ==
  ASSUME NEW words \in Seq(Int), NEW channels \in Nat \ {0}, NEW n \in 0..Len(words),
         n % channels = 0 \/ n = Len(words)
  PROVE  WavMono(words, channels)
           = WavMono(SubSeq(words, 1, n), channels) \o WavMono(SubSeq(words, n + 1, Len(words)), channels)
<1> DEFINE left == SubSeq(words, 1, n)
           right == SubSeq(words, n + 1, Len(words))
<1>0. Len(words) \in Nat /\ n \in Nat  OBVIOUS
<1>1. /\ left \in Seq(Int) /\ Len(left) = n
      /\ \A i \in 1..n : left[i] = words[i]
  <2>1. 0 + n <= Len(words) /\ 0 + 1 = 1 /\ 0 + n = n /\ \A i \in 1..n : 0 + i = i  OBVIOUS
  <2>2. SubSeq(words, 0 + 1, 0 + n) = left  BY <2>1
  <2> HIDE DEF left
  <2>. QED BY <1>0, <2>1, <2>2, Stretch
<1>2. /\ right \in Seq(Int) /\ Len(right) = Len(words) - n
      /\ \A i \in 1..(Len(words) - n) : right[i] = words[n + i]
  <2>1. PICK e \in Nat : e = Len(words) - n /\ n + e = Len(words)
    <3>1. Len(words) - n \in Nat /\ n + (Len(words) - n) = Len(words)  OBVIOUS
    <3>. QED BY <3>1
  <2>2. SubSeq(words, n + 1, n + e) = right  BY <2>1
  <2>3. n + e <= Len(words)  BY <2>1
  <2>4. LET t == SubSeq(words, n + 1, n + e) IN
        t \in Seq(Int) /\ Len(t) = e /\ \A i \in 1..e : t[i] = words[n + i]
    BY <1>0, <2>3, Stretch
  <2> HIDE DEF right
  <2>. QED BY <2>1, <2>2, <2>4
<1>3. CASE n = Len(words)
  <2>1. left = words  BY <1>3, SubSeqFull
  <2>2. Len(right) < channels  BY <1>2, <1>3, <1>0
  <2> HIDE DEF left, right
  <2>3. WavMono(right, channels) = <<>> /\ WavMono(words, channels) \in Seq(Mixes)
    BY <1>2, <2>2, WavMonoType
  <2>4. WavMono(words, channels) \o <<>> = WavMono(words, channels)  BY <2>3, ConcatEmptySeq
  <2>. QED BY <2>1, <2>3, <2>4 DEF left, right
<1>4. CASE n % channels = 0
  <2>1. PICK q \in Nat : n = channels * q
    <3>1. PICK q \in Nat, r \in 0..channels - 1 : n = channels * q + r /\ r = n % channels
      BY <1>0, NatDivided
    <3>2. r = 0  BY <3>1, <1>4
    <3>3. channels * q \in Int  OBVIOUS
    <3>4. n = channels * q + r  BY <3>1
    <3>5. n = channels * q  BY <3>2, <3>3, <3>4
    <3>. QED BY <3>5, Zenon
  <2>2. PICK x \in Nat, r \in 0..channels - 1 : Len(words) - n = channels * x + r
    <3>1. Len(words) - n \in Nat  BY <1>0
    <3>. QED BY <3>1, NatDivided
  <2>3. Len(words) = channels * (q + x) + r
    <3>1. channels * (q + x) = channels * q + channels * x  OBVIOUS
    <3>2. PICK y \in Int, z \in Int : y = channels * q /\ z = channels * x  OBVIOUS
    <3>. QED BY <3>1, <3>2, <2>1, <2>2, <1>0
  <2> DEFINE W == WavMono(words, channels)
             A == WavMono(left, channels)
             B == WavMono(right, channels)
  <2> HIDE DEF left, right
  <2>4. /\ W \in Seq(Mixes) /\ Len(W) = q + x
        /\ \A i \in 1..q + x : /\ W[i] = Mix(SubSeq(words, (i - 1) * channels + 1, (i - 1) * channels + channels))
                              /\ (i - 1) * channels \in Nat /\ (i - 1) * channels + channels <= Len(words)
    <3>1. q + x \in Nat  OBVIOUS
    <3>. QED BY <2>3, <3>1, WavMonoGroups
  <2>5. /\ A \in Seq(Mixes) /\ Len(A) = q
        /\ \A i \in 1..q : /\ A[i] = Mix(SubSeq(left, (i - 1) * channels + 1, (i - 1) * channels + channels))
                          /\ (i - 1) * channels \in Nat /\ (i - 1) * channels + channels <= Len(left)
    <3>1. Len(left) = channels * q + 0 /\ 0 \in 0..channels - 1  BY <1>1, <2>1
    <3>. QED BY <1>1, <3>1, WavMonoGroups
  <2>6. /\ B \in Seq(Mixes) /\ Len(B) = x
        /\ \A i \in 1..x : /\ B[i] = Mix(SubSeq(right, (i - 1) * channels + 1, (i - 1) * channels + channels))
                          /\ (i - 1) * channels \in Nat /\ (i - 1) * channels + channels <= Len(right)
    BY <1>2, <2>2, WavMonoGroups
  <2> HIDE DEF W, A, B
  <2>7. ASSUME NEW i \in 1..q PROVE W[i] = A[i]
    <3>1. i \in 1..q + x  OBVIOUS
    <3>2. PICK a \in Nat : a = (i - 1) * channels  BY <2>5
    <3>3. a + channels <= Len(words) /\ a + channels <= Len(left)  BY <3>1, <3>2, <2>4, <2>5
    <3>4. ASSUME NEW j \in 1..channels PROVE words[a + j] = left[a + j]
      <4>1. a + j \in 1..n  BY <3>3, <1>1, <1>0
      <4>. QED BY <4>1, <1>1
    <3>5. SubSeq(words, a + 1, a + channels) = SubSeq(left, a + 1, a + channels)
      <4>1. Alike(words, a, left, a, channels)  BY <3>3, <3>4 DEF Alike
      <4>. QED BY <4>1, <1>1, SameStretch
    <3>. QED BY <3>1, <3>2, <3>5, <2>4, <2>5
  <2>8. ASSUME NEW i \in 1..x PROVE W[i + q] = B[i]
    <3>1. i + q \in 1..q + x  OBVIOUS
    <3>2. PICK a \in Nat : a = (i - 1) * channels  BY <2>6
    <3>3. PICK c \in Nat : c = ((i + q) - 1) * channels  BY <3>1, <2>4
    <3>4. c = n + a
      <4>1. ((i + q) - 1) * channels = channels * q + (i - 1) * channels  OBVIOUS
      <4>. QED BY <4>1, <3>2, <3>3, <2>1
    <3>5. c + channels <= Len(words) /\ a + channels <= Len(right)  BY <3>1, <3>2, <3>3, <2>4, <2>6
    <3>6. ASSUME NEW j \in 1..channels PROVE words[c + j] = right[a + j]
      <4>1. a + j \in 1..(Len(words) - n) /\ n + (a + j) = c + j  BY <3>4, <3>5, <1>0, <1>2
      <4>. QED BY <4>1, <1>2
    <3>7. SubSeq(words, c + 1, c + channels) = SubSeq(right, a + 1, a + channels)
      <4>1. channels \in Nat /\ words \in Seq(Int) /\ right \in Seq(Int)  BY <1>2
      <4>2. Alike(words, c, right, a, channels)  BY <3>5, <3>6 DEF Alike
      <4>. QED BY <4>1, <4>2, SameStretch
    <3>8. W[i + q] = Mix(SubSeq(words, c + 1, c + channels))  BY <3>1, <3>3, <2>4
    <3>9. B[i] = Mix(SubSeq(right, a + 1, a + channels))  BY <3>2, <2>6
    <3>. QED BY <3>7, <3>8, <3>9
  <2>9. /\ A \o B \in Seq(Mixes) /\ Len(A \o B) = q + x
        /\ \A i \in 1..q + x : (A \o B)[i] = IF i <= q THEN A[i] ELSE B[i - q]
    <3>1. A \in Seq(Mixes) /\ B \in Seq(Mixes) /\ Len(A) = q /\ Len(B) = x  BY <2>5, <2>6
    <3>. QED BY <3>1, ConcatProperties
  <2>10. ASSUME NEW i \in 1..q + x PROVE W[i] = (A \o B)[i]
    <3>1. CASE i <= q
      <4>1. i \in 1..q  BY <3>1
      <4>. QED BY <3>1, <4>1, <2>7, <2>9
    <3>2. CASE ~(i <= q)
      <4>1. i - q \in 1..x /\ (i - q) + q = i  BY <3>2
      <4>2. W[i] = B[i - q]  BY <4>1, <2>8
      <4>. QED BY <3>2, <4>2, <2>9
    <3>. QED BY <3>1, <3>2
  <2>11. W = A \o B  BY <2>4, <2>9, <2>10, SeqEqual
  <2>. QED BY <2>11 DEF W, A, B, left, right
<1>. QED BY <1>3, <1>4

-----------------------------------------------------------------------------
(* Packets to samples.                                                     *)

\* g holds the first n sequences joined, step by step.
Joined(g, seqs, n, V) ==
  /\ g \in [1..n -> Seq(V)]
  /\ \A i \in 1..n : g[i] = IF i = 1 THEN seqs[i] ELSE g[i - 1] \o seqs[i]

Flattens(g, seqs) ==
  g = [i \in 1..Len(seqs) |-> IF i = 1 THEN seqs[i] ELSE g[i - 1] \o seqs[i]]

LEMMA JoinedExists ==
  ASSUME NEW V, NEW seqs \in Seq(Seq(V)), NEW n \in 0..Len(seqs)
  PROVE  \E g : Joined(g, seqs, n, V)
<1> DEFINE S == {k \in Nat : k <= Len(seqs) => \E g : Joined(g, seqs, k, V)}
<1>1. 0 \in S
  <2> DEFINE g == [i \in 1..0 |-> <<>>]
  <2>1. g \in [1..0 -> Seq(V)]  OBVIOUS
  <2> HIDE DEF g
  <2>2. Joined(g, seqs, 0, V)  BY <2>1 DEF Joined
  <2>. QED BY <2>2
<1>2. ASSUME NEW k \in Nat, k \in S PROVE k + 1 \in S
  <2> SUFFICES ASSUME k + 1 <= Len(seqs) PROVE \E g : Joined(g, seqs, k + 1, V)  OBVIOUS
  <2>1. PICK f : Joined(f, seqs, k, V)  BY <1>2
  <2>2. seqs[k + 1] \in Seq(V)
    <3>1. k + 1 \in 1..Len(seqs)  OBVIOUS
    <3>. QED BY <3>1, ElementOfSeq
  <2> DEFINE next == IF k = 0 THEN seqs[1] ELSE f[k] \o seqs[k + 1]
             g == [i \in 1..k + 1 |-> IF i = k + 1 THEN next ELSE f[i]]
  <2>3. next \in Seq(V)
    <3>1. CASE k = 0  BY <3>1, <2>2
    <3>2. CASE k # 0
      <4>1. f[k] \in Seq(V)  BY <2>1, <3>2 DEF Joined
      <4>. QED BY <4>1, <2>2, <3>2, ConcatProperties
    <3>. QED BY <3>1, <3>2
  <2>4. g \in [1..k + 1 -> Seq(V)]
    <3> HIDE DEF next
    <3>. QED BY <2>1, <2>3 DEF Joined
  <2>5. g[k + 1] = next /\ \A i \in 1..k : g[i] = f[i]
    <3> HIDE DEF next
    <3>. QED OBVIOUS
  <2> HIDE DEF g
  <2>6. ASSUME NEW i \in 1..k + 1 PROVE g[i] = IF i = 1 THEN seqs[i] ELSE g[i - 1] \o seqs[i]
    <3>1. CASE i = k + 1
      <4>1. CASE k = 0  BY <3>1, <4>1, <2>5
      <4>2. CASE k # 0
        <5>1. i - 1 = k /\ k \in 1..k /\ i # 1  BY <3>1, <4>2
        <5>. QED BY <3>1, <4>2, <5>1, <2>5
      <4>. QED BY <4>1, <4>2
    <3>2. CASE i # k + 1
      <4>1. i \in 1..k /\ (i # 1 => i - 1 \in 1..k)  BY <3>2
      <4>2. f[i] = IF i = 1 THEN seqs[i] ELSE f[i - 1] \o seqs[i]  BY <4>1, <2>1 DEF Joined
      <4>. QED BY <4>1, <4>2, <2>5
    <3>. QED BY <3>1, <3>2
  <2>7. Joined(g, seqs, k + 1, V)  BY <2>4, <2>6 DEF Joined
  <2>. QED BY <2>7
<1>3. Nat \subseteq S
  <2> HIDE DEF S
  <2>. QED BY <1>1, <1>2, NatSetInduction
<1>. QED BY <1>3

LEMMA FlattenJoins ==
  ASSUME NEW V, NEW seqs \in Seq(Seq(V)), seqs # <<>>, NEW g, Joined(g, seqs, Len(seqs), V)
  PROVE  FlattenSeq(seqs) = g[Len(seqs)]
<1> DEFINE f == CHOOSE h : Flattens(h, seqs)
<1>0. Len(seqs) \in Nat /\ Len(seqs) # 0  BY EmptySeq
<1>1. g = [i \in 1..Len(seqs) |-> IF i = 1 THEN seqs[i] ELSE g[i - 1] \o seqs[i]]  BY DEF Joined
<1>2. Flattens(g, seqs)  BY <1>1 DEF Flattens
<1>3. Flattens(f, seqs)
  <2> HIDE <1>1
  <2>. QED BY <1>2
<1>4. FlattenSeq(seqs) = f[Len(seqs)]  BY <1>0 DEF FlattenSeq, Flattens
<1>5. f = [i \in 1..Len(seqs) |-> IF i = 1 THEN seqs[i] ELSE f[i - 1] \o seqs[i]]  BY <1>3 DEF Flattens
<1> HIDE DEF f
<1> DEFINE S == {j \in Nat : j \in 1..Len(seqs) => f[j] = g[j]}
<1>6. Nat \subseteq S
  <2>1. 0 \in S  OBVIOUS
  <2>2. ASSUME NEW j \in Nat, j \in S PROVE j + 1 \in S
    <3> SUFFICES ASSUME j + 1 \in 1..Len(seqs) PROVE f[j + 1] = g[j + 1]  OBVIOUS
    <3>1. f[j + 1] = IF j + 1 = 1 THEN seqs[j + 1] ELSE f[(j + 1) - 1] \o seqs[j + 1]  BY <1>5
    <3>2. g[j + 1] = IF j + 1 = 1 THEN seqs[j + 1] ELSE g[(j + 1) - 1] \o seqs[j + 1]  BY DEF Joined
    <3>3. j + 1 # 1 => (j + 1) - 1 = j /\ j \in 1..Len(seqs)  OBVIOUS
    <3>4. j + 1 # 1 => f[j] = g[j]  BY <2>2, <3>3
    <3>. QED BY <3>1, <3>2, <3>3, <3>4
  <2> HIDE DEF S
  <2>. QED BY <2>1, <2>2, NatSetInduction
<1>7. f[Len(seqs)] = g[Len(seqs)]  BY <1>0, <1>6
<1>. QED BY <1>4, <1>7

LEMMA FlattenAppend ==
  ASSUME NEW V, NEW seqs \in Seq(Seq(V)), NEW e \in Seq(V)
  PROVE  /\ FlattenSeq(seqs) \in Seq(V)
         /\ FlattenSeq(Append(seqs, e)) = FlattenSeq(seqs) \o e
<1> DEFINE t == Append(seqs, e)
           n == Len(seqs)
<1>1. /\ t \in Seq(Seq(V)) /\ t # <<>> /\ Len(t) = n + 1 /\ n \in Nat
      /\ \A i \in 1..n : t[i] = seqs[i]
      /\ t[n + 1] = e
  BY AppendProperties
<1> HIDE DEF t
<1>2. PICK g : Joined(g, t, n + 1, V)
  <2>1. Len(t) \in 0..Len(t)  BY <1>1
  <2>2. \E g : Joined(g, t, Len(t), V)  BY <1>1, <2>1, JoinedExists
  <2>. QED BY <1>1, <2>2
<1>3. FlattenSeq(t) = g[n + 1]
  <2>1. Joined(g, t, Len(t), V)  BY <1>1, <1>2
  <2>2. FlattenSeq(t) = g[Len(t)]  BY <1>1, <2>1, FlattenJoins
  <2>. QED BY <1>1, <2>2
<1>4. CASE n = 0
  <2>1. seqs = <<>> /\ FlattenSeq(seqs) = <<>>
    <3>1. seqs = <<>>  BY <1>4, EmptySeq
    <3>. QED BY <3>1 DEF FlattenSeq
  <2>2. g[n + 1] = t[n + 1]
    <3>1. n + 1 \in 1..n + 1 /\ n + 1 = 1  BY <1>4
    <3>. QED BY <3>1, <1>2 DEF Joined
  <2>3. <<>> \o e = e /\ <<>> \in Seq(V)  BY ConcatEmptySeq
  <2>. QED BY <1>1, <1>3, <2>1, <2>2, <2>3 DEF t
<1>5. CASE n # 0
  <2> DEFINE h == [i \in 1..n |-> g[i]]
  <2>1. h \in [1..n -> Seq(V)] /\ \A i \in 1..n : h[i] = g[i]  BY <1>1, <1>2 DEF Joined
  <2> HIDE DEF h
  <2>2. ASSUME NEW i \in 1..n PROVE h[i] = IF i = 1 THEN seqs[i] ELSE h[i - 1] \o seqs[i]
    <3>1. i \in 1..n + 1 /\ (i # 1 => i - 1 \in 1..n)  BY <1>1
    <3>2. g[i] = IF i = 1 THEN t[i] ELSE g[i - 1] \o t[i]  BY <3>1, <1>2 DEF Joined
    <3>. QED BY <3>1, <3>2, <2>1, <1>1
  <2>3. Joined(h, seqs, n, V)  BY <2>1, <2>2 DEF Joined
  <2>4. seqs # <<>>  BY <1>5
  <2>5. FlattenSeq(seqs) = h[n]  BY <2>3, <2>4, FlattenJoins
  <2>6. n \in 1..n /\ n + 1 \in 1..n + 1 /\ n + 1 # 1 /\ (n + 1) - 1 = n  BY <1>1, <1>5
  <2>7. g[n + 1] = g[n] \o t[n + 1]  BY <2>6, <1>2 DEF Joined
  <2>8. h[n] = g[n] /\ h[n] \in Seq(V)  BY <2>1, <2>6
  <2>. QED BY <1>1, <1>3, <2>5, <2>7, <2>8 DEF t
<1>. QED BY <1>4, <1>5

LEMMA FlattenType ==
  ASSUME NEW V, NEW seqs \in Seq(Seq(V))
  PROVE  FlattenSeq(seqs) \in Seq(V)
<1>1. <<>> \in Seq(V)  BY EmptySeq
<1>. QED BY <1>1, FlattenAppend

LEMMA FlattenConcat ==
  ASSUME NEW V, NEW a \in Seq(Seq(V)), NEW b \in Seq(Seq(V))
  PROVE  FlattenSeq(a \o b) = FlattenSeq(a) \o FlattenSeq(b)
<1> DEFINE S == {n \in Nat : \A c \in Seq(Seq(V)) :
                   Len(c) = n => FlattenSeq(a \o c) = FlattenSeq(a) \o FlattenSeq(c)}
<1>0. FlattenSeq(a) \in Seq(V)  BY FlattenType
<1>1. 0 \in S
  <2> SUFFICES ASSUME NEW c \in Seq(Seq(V)), Len(c) = 0
               PROVE  FlattenSeq(a \o c) = FlattenSeq(a) \o FlattenSeq(c)
    OBVIOUS
  <2>1. c = <<>>  BY EmptySeq
  <2>2. FlattenSeq(c) = <<>>  BY <2>1 DEF FlattenSeq
  <2>3. a \o c = a  BY <2>1, ConcatEmptySeq
  <2>4. FlattenSeq(a) \o <<>> = FlattenSeq(a)  BY <1>0, ConcatEmptySeq
  <2>. QED BY <2>2, <2>3, <2>4
<1>2. ASSUME NEW n \in Nat, n \in S PROVE n + 1 \in S
  <2> SUFFICES ASSUME NEW c \in Seq(Seq(V)), Len(c) = n + 1
               PROVE  FlattenSeq(a \o c) = FlattenSeq(a) \o FlattenSeq(c)
    OBVIOUS
  <2>1. c # <<>>  OBVIOUS
  <2>2. PICK d \in Seq(Seq(V)), e \in Seq(V) : c = Append(d, e)  BY <2>1, SequenceEmptyOrAppend
  <2>3. Len(d) = n
    <3>1. Len(Append(d, e)) = Len(d) + 1 /\ Len(d) \in Nat  BY AppendProperties
    <3>. QED BY <2>2, <3>1
  <2>4. FlattenSeq(a \o d) = FlattenSeq(a) \o FlattenSeq(d)  BY <1>2, <2>3
  <2>5. a \o d \in Seq(Seq(V)) /\ FlattenSeq(d) \in Seq(V)  BY ConcatProperties, FlattenType
  <2>6. a \o c = Append(a \o d, e)  BY <2>2
  <2>7. FlattenSeq(a \o c) = FlattenSeq(a \o d) \o e  BY <2>5, <2>6, FlattenAppend
  <2>8. FlattenSeq(c) = FlattenSeq(d) \o e  BY <2>2, FlattenAppend
  <2>9. FlattenSeq(a) \o (FlattenSeq(d) \o e) = (FlattenSeq(a) \o FlattenSeq(d)) \o e
    <3>1. Associates(V)  BY ConcatAssociates
    <3>. QED BY <1>0, <2>5, <3>1, Zenon DEF Associates
  <2>. QED BY <2>4, <2>7, <2>8, <2>9
<1>3. Nat \subseteq S
  <2> HIDE DEF S
  <2>. QED BY <1>1, <1>2, NatSetInduction
<1>4. Len(b) \in Nat  OBVIOUS
<1>. QED BY <1>3, <1>4

-----------------------------------------------------------------------------
(* The rest of a sequence.                                                 *)

Beyond(s, n) == SubSeq(s, n + 1, Len(s))

LEMMA BeyondIs ==
  ASSUME NEW V, NEW s \in Seq(V), NEW n \in 0..Len(s)
  PROVE  /\ Beyond(s, n) \in Seq(V) /\ Len(Beyond(s, n)) = Len(s) - n
         /\ \A i \in 1..(Len(s) - n) : Beyond(s, n)[i] = s[n + i]
<1>1. PICK e \in Nat : e = Len(s) - n
  <2>1. Len(s) - n \in Nat  OBVIOUS
  <2>. QED BY <2>1
<1>2. n \in Nat /\ Len(s) \in Nat /\ n + e = Len(s)  BY <1>1
<1>3. LET t == SubSeq(s, n + 1, n + e) IN
      t \in Seq(V) /\ Len(t) = e /\ \A i \in 1..e : t[i] = s[n + i]
  <2>1. n + e <= Len(s)  BY <1>2
  <2>. QED BY <1>2, <2>1, Stretch
<1>4. SubSeq(s, n + 1, n + e) = Beyond(s, n)  BY <1>2 DEF Beyond
<1>. QED BY <1>1, <1>3, <1>4

LEMMA BeyondAll ==
  ASSUME NEW V, NEW s \in Seq(V), NEW n \in Nat, n >= Len(s)
  PROVE  Beyond(s, n) = <<>>
<1>1. Len(s) \in Int /\ n + 1 \in Int /\ Len(s) < n + 1  OBVIOUS
<1>. QED BY <1>1, SubSeqEmpty DEF Beyond

LEMMA BeyondNone ==
  ASSUME NEW V, NEW s \in Seq(V)
  PROVE  Beyond(s, 0) = s
BY SubSeqFull DEF Beyond

LEMMA BeyondInFirst ==
  ASSUME NEW V, NEW s \in Seq(V), NEW t \in Seq(V), NEW n \in 0..Len(s)
  PROVE  Beyond(s \o t, n) = Beyond(s, n) \o t
<1>1. /\ s \o t \in Seq(V) /\ Len(s \o t) = Len(s) + Len(t) /\ Len(s) \in Nat /\ Len(t) \in Nat
      /\ \A i \in 1..Len(s) + Len(t) : (s \o t)[i] = IF i <= Len(s) THEN s[i] ELSE t[i - Len(s)]
  BY ConcatProperties
<1> DEFINE all == s \o t
           x == Beyond(all, n)
           y == Beyond(s, n)
           z == y \o t
<1>2. y \in Seq(V) /\ Len(y) = Len(s) - n /\ \A i \in 1..(Len(s) - n) : y[i] = s[n + i]
  BY BeyondIs
<1> HIDE DEF all
<1>3. /\ x \in Seq(V) /\ Len(x) = Len(s) + Len(t) - n
      /\ \A i \in 1..(Len(s) + Len(t) - n) : x[i] = all[n + i]
  <2>1. all \in Seq(V) /\ Len(all) = Len(s) + Len(t) /\ n \in 0..Len(all)  BY <1>1 DEF all
  <2>2. x \in Seq(V) /\ Len(x) = Len(all) - n /\ \A i \in 1..(Len(all) - n) : x[i] = all[n + i]
    BY <2>1, BeyondIs
  <2> HIDE DEF x
  <2>. QED BY <2>1, <2>2
<1> HIDE DEF x, y
<1>4. /\ z \in Seq(V) /\ Len(z) = Len(y) + Len(t)
      /\ \A i \in 1..Len(y) + Len(t) : z[i] = IF i <= Len(y) THEN y[i] ELSE t[i - Len(y)]
  BY <1>2, ConcatProperties
<1> HIDE DEF z
<1>5. ASSUME NEW i \in 1..(Len(s) + Len(t) - n) PROVE x[i] = z[i]
  <2>1. n + i \in 1..Len(s) + Len(t) /\ i \in 1..Len(y) + Len(t)  BY <1>1, <1>2
  <2>2. x[i] = IF n + i <= Len(s) THEN s[n + i] ELSE t[(n + i) - Len(s)]  BY <2>1, <1>1, <1>3 DEF all
  <2>3. CASE n + i <= Len(s)
    <3>1. i \in 1..(Len(s) - n) /\ i <= Len(y)  BY <2>3, <1>1, <1>2
    <3>. QED BY <2>1, <2>2, <2>3, <3>1, <1>2, <1>4
  <2>4. CASE ~(n + i <= Len(s))
    <3>1. ~(i <= Len(y)) /\ (n + i) - Len(s) = i - Len(y)  BY <2>4, <1>1, <1>2
    <3>. QED BY <2>1, <2>2, <2>4, <3>1, <1>4
  <2>. QED BY <2>3, <2>4
<1>6. Len(z) = Len(s) + Len(t) - n  BY <1>1, <1>2, <1>4
<1>7. x = z  BY <1>3, <1>4, <1>5, <1>6, SeqEqual
<1>. QED BY <1>7 DEF x, y, z, all

LEMMA BeyondInSecond ==
  ASSUME NEW V, NEW s \in Seq(V), NEW t \in Seq(V), NEW n \in 0..Len(t)
  PROVE  Beyond(s \o t, Len(s) + n) = Beyond(t, n)
<1>1. /\ s \o t \in Seq(V) /\ Len(s \o t) = Len(s) + Len(t) /\ Len(s) \in Nat /\ Len(t) \in Nat
      /\ \A i \in 1..Len(s) + Len(t) : (s \o t)[i] = IF i <= Len(s) THEN s[i] ELSE t[i - Len(s)]
  BY ConcatProperties
<1> DEFINE all == s \o t
           x == Beyond(all, Len(s) + n)
           y == Beyond(t, n)
<1>2. y \in Seq(V) /\ Len(y) = Len(t) - n /\ \A i \in 1..(Len(t) - n) : y[i] = t[n + i]
  BY BeyondIs
<1> HIDE DEF all
<1>3. /\ x \in Seq(V) /\ Len(x) = Len(t) - n
      /\ \A i \in 1..(Len(t) - n) : x[i] = all[(Len(s) + n) + i]
  <2>1. /\ all \in Seq(V) /\ Len(all) = Len(s) + Len(t) /\ Len(s) + n \in 0..Len(all)
        /\ Len(all) - (Len(s) + n) = Len(t) - n
    BY <1>1 DEF all
  <2>2. /\ x \in Seq(V) /\ Len(x) = Len(all) - (Len(s) + n)
        /\ \A i \in 1..(Len(all) - (Len(s) + n)) : x[i] = all[(Len(s) + n) + i]
    BY <2>1, BeyondIs
  <2> HIDE DEF x
  <2>. QED BY <2>1, <2>2
<1> HIDE DEF x, y
<1>5. ASSUME NEW i \in 1..(Len(t) - n) PROVE x[i] = y[i]
  <2>1. /\ (Len(s) + n) + i \in 1..Len(s) + Len(t) /\ ~((Len(s) + n) + i <= Len(s))
        /\ ((Len(s) + n) + i) - Len(s) = n + i
    BY <1>1
  <2>. QED BY <2>1, <1>1, <1>2, <1>3 DEF all
<1>7. x = y  BY <1>2, <1>3, <1>5, SeqEqual
<1>. QED BY <1>7 DEF x, y, all

-----------------------------------------------------------------------------
(* Decoders.                                                               *)

\* A source as it is between two frames.
Decoder(s) ==
  /\ s \in [kind : {"wav", "mp3", "opus", "pcm"}, left : Seq(Int) \cup Seq(Seq(Int)),
            res : {d \in [inRate : Nat \ {0}, channels : Nat \ {0}, pos : Int, last : Seq(Mixes)] : Resampler(d)},
            skip : Nat, pending : Seq(Tones), done : BOOLEAN, closed : BOOLEAN]
  /\ IF s.kind = "opus" THEN s.left \in Seq(Seq(Int)) ELSE s.left \in Seq(Int)

\* What the file has yet to give, and with it what waits to be framed.
Future(s) ==
  CASE s.kind = "opus" -> Beyond(FlattenSeq(s.left), s.skip)
    [] s.kind = "pcm" -> s.left
    [] OTHER -> Process(s.res, WavMono(s.left, s.res.channels)).out

Rest(s) == s.pending \o Future(s)

\* t is s with more of it decoded.
DecodedFrom(t, s) ==
  /\ Decoder(t) /\ Rest(t) = Rest(s)
  /\ t.kind = s.kind /\ t.closed = s.closed
  /\ t.done => Future(t) = <<>>

LEMMA ToneSequences == Seq(Int) \subseteq Seq(Tones) /\ Seq(Mixes) \subseteq Seq(Tones)
<1>1. Int \subseteq Tones /\ Mixes \subseteq Tones  BY DEF Tones
<1>. QED BY <1>1, SeqMonotonic

LEMMA FutureType ==
  ASSUME NEW s, Decoder(s)
  PROVE  Future(s) \in Seq(Tones) /\ Rest(s) \in Seq(Tones) /\ s.pending \in Seq(Tones)
<1>0. s.kind \in {"wav", "mp3", "opus", "pcm"} /\ s.skip \in Nat /\ s.pending \in Seq(Tones)
      /\ Resampler(s.res) /\ s.res.channels \in Nat \ {0}
  BY DEF Decoder
<1>1. CASE s.kind = "opus"
  <2>1. FlattenSeq(s.left) \in Seq(Int)  BY <1>1, FlattenType DEF Decoder
  <2>2. Future(s) = Beyond(FlattenSeq(s.left), s.skip)  BY <1>1 DEF Future
  <2>3. PICK f \in Seq(Int) : f = FlattenSeq(s.left)  BY <2>1
  <2>4. Beyond(f, s.skip) \in Seq(Int)
    <3>1. CASE s.skip \in 0..Len(f)  BY <3>1, BeyondIs
    <3>2. CASE s.skip >= Len(f)
      <4>1. Beyond(f, s.skip) = <<>>  BY <1>0, <3>2, BeyondAll
      <4>. QED BY <4>1
    <3>3. Len(f) \in Nat  OBVIOUS
    <3>. QED BY <1>0, <3>1, <3>2, <3>3
  <2>5. Future(s) \in Seq(Tones)  BY <2>2, <2>3, <2>4, ToneSequences
  <2>. QED BY <1>0, <2>5, ConcatProperties DEF Rest
<1>2. CASE s.kind = "pcm"
  <2>1. Future(s) \in Seq(Tones)  BY <1>2, ToneSequences DEF Future, Decoder
  <2>. QED BY <1>0, <2>1, ConcatProperties DEF Rest
<1>3. CASE s.kind \in {"wav", "mp3"}
  <2>1. s.left \in Seq(Int)  BY <1>3 DEF Decoder
  <2>2. WavMono(s.left, s.res.channels) \in Seq(Mixes)  BY <1>0, <2>1, WavMonoType
  <2>3. Future(s) = Process(s.res, WavMono(s.left, s.res.channels)).out  BY <1>3 DEF Future
  <2>4. Future(s) \in Seq(Tones)  BY <1>0, <2>2, <2>3, ProcessKeeps
  <2>. QED BY <1>0, <2>4, ConcatProperties DEF Rest
<1>. QED BY <1>0, <1>1, <1>2, <1>3

LEMMA LeastOfTwo ==
  ASSUME NEW a \in Int, NEW b \in Int
  PROVE  Min({a, b}) = (IF a <= b THEN a ELSE b) /\ Max({a, b}) = (IF a >= b THEN a ELSE b)
BY DEF Min, Max

\* WAV and MP3: a read is cut between groups or is the last.
LEMMA MoreWordsKeeps ==
  ASSUME NEW s, Decoder(s), s.kind \in {"wav", "mp3"}
  PROVE  /\ DecodedFrom(MoreWords(s), s)
         /\ MoreWords(s).done \/ Len(MoreWords(s).left) < Len(s.left)
<1> DEFINE ch == s.res.channels
           n == Min({ReadBuffer, Len(s.left)})
           chunk == SubSeq(s.left, 1, n)
           beyond == SubSeq(s.left, n + 1, Len(s.left))
           r == Process(s.res, WavMono(chunk, ch))
           t == MoreWords(s)
<1>1. /\ s.left \in Seq(Int) /\ Len(s.left) \in Nat /\ Resampler(s.res) /\ ch \in Nat \ {0}
      /\ s.pending \in Seq(Tones) /\ ReadBuffer \in Nat \ {0} /\ ReadBuffer % ch = 0
  BY AudioAssumption DEF Decoder, Resampler
<1>2. n = IF ReadBuffer <= Len(s.left) THEN ReadBuffer ELSE Len(s.left)
  BY <1>1, LeastOfTwo
<1> HIDE DEF n
<1>3. n \in 0..Len(s.left) /\ n \in Nat /\ (n % ch = 0 \/ n = Len(s.left))
  BY <1>1, <1>2
<1>4. /\ chunk \in Seq(Int) /\ beyond \in Seq(Int) /\ Len(beyond) = Len(s.left) - n
  BY <1>1, <1>3, CutInTwo
<1>5. WavMono(s.left, ch) = WavMono(chunk, ch) \o WavMono(beyond, ch)
  BY <1>1, <1>3, WavMonoSplits
<1> HIDE DEF chunk, beyond
<1>6. WavMono(chunk, ch) \in Seq(Mixes) /\ WavMono(beyond, ch) \in Seq(Mixes)
  BY <1>1, <1>4, WavMonoType
<1>7. /\ r.out \in Seq(Tones) /\ Resampler(r.d) /\ r.d.channels = ch
      /\ Process(r.d, WavMono(beyond, ch)).out \in Seq(Tones)
  BY <1>1, <1>6, ProcessKeeps
<1>8. Process(s.res, WavMono(s.left, ch)).out = r.out \o Process(r.d, WavMono(beyond, ch)).out
  <2>1. PICK a \in Seq(Mixes), b \in Seq(Mixes) : a = WavMono(chunk, ch) /\ b = WavMono(beyond, ch)
    BY <1>6
  <2>2. Process(s.res, a \o b).out = Process(s.res, a).out \o Process(Process(s.res, a).d, b).out
    BY <1>1, ChunksResampleAsOne
  <2>. QED BY <1>5, <2>1, <2>2
<1>9. Future(s) = Process(s.res, WavMono(s.left, ch)).out  BY DEF Future
<1>10. \A d : Process(d, <<>>).out = <<>>  BY DEF Process
<1> HIDE DEF r
<1>11. CASE n < ch
  <2>1. t = [s EXCEPT !.left = beyond, !.done = TRUE]  BY <1>11 DEF MoreWords, n, ch, beyond
  <2> HIDE DEF t
  <2>2. n = Len(s.left)
    <3> SUFFICES ASSUME ReadBuffer < ch PROVE FALSE  BY <1>1, <1>2, <1>11
    <3>1. ReadBuffer = ch * 0 + ReadBuffer /\ ReadBuffer \in 0..ch - 1 /\ ReadBuffer \in Int  BY <1>1
    <3>2. ReadBuffer % ch = ReadBuffer  BY <1>1, <3>1, DivisionIsUnique
    <3>. QED BY <1>1, <3>2
  <2>3. beyond = <<>>  BY <1>1, <1>4, <2>2
  <2>4. t.kind = s.kind /\ t.closed = s.closed /\ t.done /\ t.pending = s.pending
        /\ t.res = s.res /\ t.left = <<>>
    BY <2>1, <2>3 DEF Decoder
  <2>5. Decoder(t)
    <3>1. <<>> \in Seq(Int) /\ s.kind # "opus"  OBVIOUS
    <3>. QED BY <2>1, <2>3, <3>1 DEF Decoder
  <2>6. WavMono(<<>>, ch) = <<>> /\ WavMono(s.left, ch) = <<>>
    <3>1. <<>> \in Seq(Int) /\ Len(<<>>) < ch  BY <1>1
    <3>. QED BY <1>1, <1>11, <2>2, <3>1, WavMonoType
  <2>7. Future(t) = <<>> /\ Future(s) = <<>>
    <3>1. Future(t) = Process(s.res, WavMono(<<>>, ch)).out  BY <2>4 DEF Future
    <3>. QED BY <1>9, <1>10, <2>6, <3>1
  <2>8. Rest(t) = Rest(s)  BY <2>4, <2>7 DEF Rest
  <2>. QED BY <2>4, <2>5, <2>7, <2>8 DEF DecodedFrom, t
<1>12. CASE ~(n < ch)
  <2> DEFINE after == [s EXCEPT !.left = beyond, !.res = r.d, !.pending = s.pending \o r.out]
             last == n < ReadBuffer /\ Len(after.pending) < FrameSamples
  <2>1. t = [after EXCEPT !.done = last]  BY <1>12 DEF MoreWords, n, ch, beyond, chunk, r
  <2>2. s.pending \o r.out \in Seq(Tones)  BY <1>1, <1>7, ConcatProperties
  <2>3. last \in BOOLEAN /\ (last => n = Len(s.left))
    <3>1. last \in BOOLEAN /\ (last => n < ReadBuffer)  OBVIOUS
    <3> HIDE DEF last
    <3>. QED BY <3>1, <1>1, <1>2
  <2> HIDE DEF last, t
  <2>4. t = [s EXCEPT !.left = beyond, !.res = r.d, !.pending = s.pending \o r.out, !.done = last]
    BY <2>1 DEF Decoder
  <2>5. t.kind = s.kind /\ t.closed = s.closed /\ t.done = last /\ t.pending = s.pending \o r.out
        /\ t.res = r.d /\ t.left = beyond
    BY <2>4 DEF Decoder
  <2>6. Decoder(t)
    <3>1. r.d \in {d \in [inRate : Nat \ {0}, channels : Nat \ {0}, pos : Int, last : Seq(Mixes)] : Resampler(d)}
      BY <1>7 DEF Resampler
    <3>. QED BY <1>4, <2>2, <2>3, <2>4, <3>1 DEF Decoder
  <2>7. Future(t) = Process(r.d, WavMono(beyond, ch)).out  BY <1>7, <2>5 DEF Future
  <2>8. Rest(t) = Rest(s)
    <3>1. Associates(Tones)  BY ConcatAssociates
    <3>2. s.pending \o (r.out \o Future(t)) = (s.pending \o r.out) \o Future(t)
      <4>1. s.pending \in Seq(Tones) /\ r.out \in Seq(Tones) /\ Future(t) \in Seq(Tones)
        BY <1>1, <1>7, <2>7
      <4>. QED BY <3>1, <4>1, Zenon DEF Associates
    <3>. QED BY <1>8, <1>9, <2>5, <2>7, <3>2 DEF Rest
  <2>9. ASSUME last PROVE Future(t) = <<>>
    <3>1. Len(beyond) < ch  BY <1>1, <1>4, <2>3, <2>9
    <3>2. WavMono(beyond, ch) = <<>>  BY <1>1, <1>4, <3>1, WavMonoType
    <3>. QED BY <1>10, <2>7, <3>2
  <2>10. Len(t.left) < Len(s.left)  BY <1>1, <1>3, <1>4, <1>12, <2>5
  <2>. QED BY <2>5, <2>6, <2>8, <2>9, <2>10 DEF DecodedFrom, t
<1>. QED BY <1>11, <1>12

LEMMA LeastOf ==
  ASSUME NEW T \in SUBSET Nat, T # {}
  PROVE  Min(T) \in T /\ \A y \in T : Min(T) <= y
<1>1. \E x \in T : \A y \in T : x <= y  BY LeastElement
<1>. QED BY <1>1 DEF Min

LEMMA GreatestOf ==
  ASSUME NEW T \in SUBSET Int, NEW c \in T, \A y \in T : y <= c
  PROVE  Max(T) = c
<1>1. \E x \in T : \A y \in T : x >= y  OBVIOUS
<1>2. Max(T) \in T /\ \A y \in T : Max(T) >= y  BY <1>1 DEF Max
<1>3. PICK m \in T : m = Max(T)  BY <1>2
<1>4. m >= c /\ m <= c  BY <1>2, <1>3
<1>. QED BY <1>3, <1>4

\* Opus: the pre-skip ends in the packet that comes next.
LEMMA MorePacketsKeeps ==
  ASSUME NEW s, Decoder(s), s.kind = "opus", ~s.done
  PROVE  /\ DecodedFrom(MorePackets(s), s)
         /\ MorePackets(s).done \/ Len(MorePackets(s).left) < Len(s.left)
<1> DEFINE Until(i) == Len(FlattenSeq(SubSeq(s.left, 1, i)))
           sounding == {i \in DOMAIN s.left : Until(i) > s.skip}
           t == MorePackets(s)
<1>1. /\ s.left \in Seq(Seq(Int)) /\ Len(s.left) \in Nat /\ DOMAIN s.left = 1..Len(s.left)
      /\ s.skip \in Nat /\ s.pending \in Seq(Tones)
  BY DEF Decoder
<1>2. Future(s) = Beyond(FlattenSeq(s.left), s.skip)  BY DEF Future
<1>3. FlattenSeq(s.left) \in Seq(Int)  BY <1>1, FlattenType
<1>4. FlattenSeq(<<>>) = <<>>  BY DEF FlattenSeq
<1>5. CASE sounding = {}
  <2>1. t = [s EXCEPT !.left = <<>>, !.done = TRUE]  BY <1>5 DEF MorePackets
  <2> HIDE DEF t
  <2>2. /\ t.kind = s.kind /\ t.closed = s.closed /\ t.done /\ t.pending = s.pending
        /\ t.skip = s.skip /\ t.left = <<>>
    BY <2>1 DEF Decoder
  <2>3. Decoder(t)
    <3>1. <<>> \in Seq(Seq(Int))  OBVIOUS
    <3>. QED BY <2>1, <3>1 DEF Decoder
  <2>4. Future(t) = <<>>
    <3>1. <<>> \in Seq(Int) /\ s.skip >= Len(<<>>)  BY <1>1
    <3>2. Beyond(<<>>, s.skip) = <<>>  BY <1>1, <3>1, BeyondAll
    <3>3. Future(t) = Beyond(FlattenSeq(t.left), t.skip)  BY <2>2 DEF Future
    <3>. QED BY <1>4, <2>2, <3>2, <3>3
  <2>5. Len(FlattenSeq(s.left)) <= s.skip
    <3>1. CASE s.left = <<>>  BY <1>1, <1>4, <3>1
    <3>2. CASE s.left # <<>>
      <4>1. Len(s.left) \in DOMAIN s.left  BY <1>1, <3>2
      <4>2. ~(Until(Len(s.left)) > s.skip)  BY <1>5, <4>1
      <4>3. SubSeq(s.left, 1, Len(s.left)) = s.left  BY <1>1, SubSeqFull
      <4>4. PICK all \in Seq(Int) : all = FlattenSeq(s.left)  BY <1>3
      <4>5. Until(Len(s.left)) = Len(all)  BY <4>3, <4>4
      <4>6. ~(Len(all) > s.skip) /\ Len(all) \in Nat
        <5> HIDE DEF Until
        <5>. QED BY <4>2, <4>5
      <4>. QED BY <1>1, <4>4, <4>6
    <3>. QED BY <3>1, <3>2
  <2>6. Future(s) = <<>>  BY <1>1, <1>2, <1>3, <2>5, BeyondAll
  <2>7. Rest(t) = Rest(s)  BY <2>2, <2>4, <2>6 DEF Rest
  <2>. QED BY <2>2, <2>3, <2>4, <2>7 DEF DecodedFrom, t
<1>6. CASE sounding # {}
  <2> DEFINE i == Min(sounding)
             earlier == FlattenSeq(SubSeq(s.left, 1, i - 1))
             current == s.left[i]
             after == SubSeq(s.left, i + 1, Len(s.left))
             x == Max({0, s.skip - Until(i - 1)})
  <2>1. i \in sounding /\ \A j \in sounding : i <= j
    <3>1. sounding \in SUBSET Nat  BY <1>1
    <3> HIDE DEF sounding
    <3>. QED BY <1>6, <3>1, LeastOf
  <2>2. t = [s EXCEPT !.left = after, !.skip = 0,
                      !.pending = s.pending \o SubSeq(current, x + 1, Len(current))]
    <3> HIDE DEF i
    <3>. QED BY <1>6 DEF MorePackets, i
  <2> HIDE DEF i, t
  <2>3. i \in 1..Len(s.left) /\ i - 1 \in 0..Len(s.left) /\ i \in 0..Len(s.left)  BY <1>1, <2>1
  <2>4. current \in Seq(Int)  BY <1>1, <2>3, ElementOfSeq
  <2>5. SubSeq(s.left, 1, i - 1) \in Seq(Seq(Int)) /\ SubSeq(s.left, 1, i) \in Seq(Seq(Int))
        /\ after \in Seq(Seq(Int)) /\ Len(after) = Len(s.left) - i
        /\ s.left = SubSeq(s.left, 1, i) \o after
    BY <1>1, <2>3, CutInTwo
  <2>6. SubSeq(s.left, 1, i) = Append(SubSeq(s.left, 1, i - 1), current)
    <3>1. 1 \in 1..Len(s.left) /\ i \in 1..Len(s.left)  BY <2>3, <1>1
    <3>2. SubSeq(s.left, 1, i) = SubSeq(s.left, 1, i - 1) \o <<current>>
      BY <1>1, <3>1, SubSeqRecursiveSecond
    <3>. QED BY <2>4, <2>5, <3>2, AppendIsConcat
  <2>7. FlattenSeq(SubSeq(s.left, 1, i)) = earlier \o current /\ earlier \in Seq(Int)
    BY <2>4, <2>5, <2>6, FlattenAppend
  <2>8. FlattenSeq(s.left) = (earlier \o current) \o FlattenSeq(after) /\ FlattenSeq(after) \in Seq(Int)
    <3>1. FlattenSeq(SubSeq(s.left, 1, i) \o after) = FlattenSeq(SubSeq(s.left, 1, i)) \o FlattenSeq(after)
      BY <2>5, FlattenConcat
    <3>. QED BY <2>5, <2>7, <3>1, FlattenType
  <2>9. Until(i - 1) = Len(earlier) /\ Len(earlier) \in Nat /\ Len(current) \in Nat
        /\ Until(i) = Len(earlier) + Len(current)
    <3>1. PICK b \in Seq(Int), p \in Seq(Int) : b = earlier /\ p = current  BY <2>4, <2>7
    <3>2. Len(b \o p) = Len(b) + Len(p) /\ Len(b) \in Nat /\ Len(p) \in Nat  BY ConcatProperties
    <3>3. Until(i) = Len(b \o p) /\ Until(i - 1) = Len(b)  BY <2>7, <3>1
    <3> HIDE DEF Until
    <3>. QED BY <3>1, <3>2, <3>3
  <2>10. Len(earlier) <= s.skip
    <3>1. CASE i = 1
      <4>1. SubSeq(s.left, 1, i - 1) = <<>>
        <5>1. 1 \in Int /\ i - 1 \in Int /\ i - 1 < 1  BY <3>1
        <5>. QED BY <5>1, SubSeqEmpty
      <4>2. earlier = <<>>  BY <1>4, <4>1
      <4>3. Len(<<>>) = 0  OBVIOUS
      <4> HIDE DEF earlier
      <4>. QED BY <1>1, <4>2, <4>3
    <3>2. CASE i # 1
      <4>1. i - 1 \in DOMAIN s.left /\ i - 1 \notin sounding
        <5>1. i - 1 \in 1..Len(s.left) /\ ~(i <= i - 1)  BY <2>3, <3>2
        <5> HIDE DEF sounding
        <5>. QED BY <1>1, <2>1, <5>1
      <4>. QED BY <1>1, <2>9, <4>1
    <3>. QED BY <3>1, <3>2
  <2>11. s.skip < Len(earlier) + Len(current)  BY <1>1, <2>1, <2>9
  <2>12. x = s.skip - Len(earlier) /\ x \in 0..Len(current) /\ x \in Nat /\ Len(earlier) + x = s.skip
    <3>1. s.skip - Len(earlier) \in Nat /\ s.skip - Len(earlier) < Len(current)
      <4>1. PICK m \in Nat, n \in Nat : m = Len(earlier) /\ n = Len(current)  BY <2>9
      <4>2. m <= s.skip /\ s.skip < m + n /\ s.skip \in Nat  BY <1>1, <2>10, <2>11, <4>1
      <4> HIDE DEF earlier, current
      <4>. QED BY <4>1, <4>2
    <3>2. x = IF 0 >= s.skip - Len(earlier) THEN 0 ELSE s.skip - Len(earlier)
      <4>1. s.skip - Until(i - 1) = s.skip - Len(earlier) /\ 0 \in Int /\ s.skip - Len(earlier) \in Int
        BY <1>1, <2>9
      <4>2. Max({0, s.skip - Len(earlier)}) = IF 0 >= s.skip - Len(earlier) THEN 0 ELSE s.skip - Len(earlier)
        BY <4>1, LeastOfTwo
      <4>. QED BY <4>1, <4>2
    <3> HIDE DEF x
    <3>. QED BY <1>1, <2>9, <3>1, <3>2
  <2> HIDE DEF earlier, current, after, x, sounding, Until
  <2>13. Beyond((earlier \o current) \o FlattenSeq(after), s.skip)
           = Beyond(current, x) \o FlattenSeq(after)
    <3>1. PICK both \in Seq(Int), more \in Seq(Int) :
            both = earlier \o current /\ more = FlattenSeq(after) /\ Len(both) = Len(earlier) + Len(current)
      BY <2>4, <2>7, <2>8, ConcatProperties
    <3>2. s.skip \in 0..Len(both)  BY <1>1, <2>9, <2>11, <3>1
    <3>3. Beyond(both \o more, s.skip) = Beyond(both, s.skip) \o more  BY <3>2, BeyondInFirst
    <3>4. Beyond(earlier \o current, Len(earlier) + x) = Beyond(current, x)
      BY <2>4, <2>7, <2>12, BeyondInSecond
    <3>. QED BY <2>12, <3>1, <3>3, <3>4
  <2>14. /\ t.kind = s.kind /\ t.closed = s.closed /\ ~t.done /\ t.skip = 0 /\ t.left = after
         /\ t.pending = s.pending \o Beyond(current, x)
    BY <2>2 DEF Decoder, Beyond
  <2>15. Beyond(current, x) \in Seq(Tones) /\ FlattenSeq(after) \in Seq(Tones)
    BY <2>4, <2>8, <2>12, BeyondIs, ToneSequences
  <2>16. Decoder(t)
    <3>1. s.pending \o Beyond(current, x) \in Seq(Tones) /\ 0 \in Nat  BY <1>1, <2>15, ConcatProperties
    <3>2. t = [s EXCEPT !.left = after, !.skip = 0, !.pending = s.pending \o Beyond(current, x)]
      BY <2>2 DEF Beyond
    <3>. QED BY <2>5, <3>1, <3>2 DEF Decoder
  <2>17. Future(t) = FlattenSeq(after)
    <3>1. Future(t) = Beyond(FlattenSeq(after), 0)  BY <2>14 DEF Future
    <3>. QED BY <2>8, <3>1, BeyondNone
  <2>18. Rest(t) = Rest(s)
    <3>1. Associates(Tones)  BY ConcatAssociates
    <3>2. s.pending \o (Beyond(current, x) \o FlattenSeq(after)) = (s.pending \o Beyond(current, x)) \o FlattenSeq(after)
      BY <1>1, <2>15, <3>1, Zenon DEF Associates
    <3>. QED BY <1>2, <2>8, <2>13, <2>14, <2>17, <3>2 DEF Rest
  <2>19. Len(t.left) < Len(s.left)  BY <1>1, <2>3, <2>5, <2>14
  <2>. QED BY <2>14, <2>16, <2>18, <2>19 DEF DecodedFrom, t
<1>. QED BY <1>5, <1>6

\* Nothing more is decoded before the next frame.
Stopped(s) == Len(s.pending) >= FrameSamples \/ s.done \/ ~Readable(s)

LEMMA RefilledKeeps ==
  ASSUME NEW s, Decoder(s), s.kind # "pcm", s.done => Future(s) = <<>>
  PROVE  /\ DecodedFrom(Refilled(s), s)
         /\ Stopped(s) => Refilled(s) = s
         /\ Stopped(s) \/ Refilled(s).done \/ Len(Refilled(s).left) < Len(s.left)
<1>1. /\ Len(s.pending) \in Nat /\ FrameSamples \in Nat /\ s.done \in BOOLEAN
      /\ s.kind \in {"wav", "mp3", "opus"}
  BY AudioAssumption DEF Decoder
<1>2. CASE Stopped(s)
  <2>1. Refilled(s) = s  BY <1>1, <1>2 DEF Refilled, Stopped
  <2>2. DecodedFrom(s, s)  BY DEF DecodedFrom
  <2>. QED BY <1>2, <2>1, <2>2
<1>3. CASE ~Stopped(s)
  <2>1. Refilled(s) = More(s) /\ ~s.done  BY <1>1, <1>3 DEF Refilled, Stopped
  <2>2. CASE s.kind = "opus"
    <3>1. More(s) = MorePackets(s)  BY <2>2 DEF More
    <3>. QED BY <1>3, <2>1, <2>2, <3>1, MorePacketsKeeps
  <2>3. CASE s.kind \in {"wav", "mp3"}
    <3>1. More(s) = MoreWords(s)  BY <2>3 DEF More
    <3>. QED BY <1>3, <2>1, <2>3, <3>1, MoreWordsKeeps
  <2>. QED BY <1>1, <2>2, <2>3
<1>. QED BY <1>2, <1>3

Fills(f, s, n) == f = [i \in 0..n |-> IF i = 0 THEN s ELSE Refilled(f[i - 1])]

LEMMA FillsExists ==
  ASSUME NEW s
  PROVE  \A n \in Nat : \E f : Fills(f, s, n)
<1> DEFINE S == {n \in Nat : \E f : Fills(f, s, n)}
<1>1. 0 \in S
  <2> DEFINE f == [i \in 0..0 |-> s]
  <2>1. Fills(f, s, 0)  BY DEF Fills
  <2>. QED BY <2>1
<1>2. ASSUME NEW n \in Nat, n \in S PROVE n + 1 \in S
  <2>1. PICK f : Fills(f, s, n)  BY <1>2
  <2> DEFINE next == Refilled(f[n])
             g == [i \in 0..n + 1 |-> IF i = n + 1 THEN next ELSE f[i]]
  <2>2. \A i \in 0..n : f[i] = IF i = 0 THEN s ELSE Refilled(f[i - 1])  BY <2>1 DEF Fills
  <2>3. g[n + 1] = next /\ \A i \in 0..n : g[i] = f[i]
    <3> HIDE DEF next
    <3>. QED OBVIOUS
  <2>4. ASSUME NEW i \in 0..n + 1 PROVE g[i] = IF i = 0 THEN s ELSE Refilled(g[i - 1])
    <3> HIDE DEF g
    <3>1. CASE i = n + 1
      <4>1. i - 1 = n /\ n \in 0..n /\ i # 0  BY <3>1
      <4>. QED BY <2>3, <3>1, <4>1
    <3>2. CASE i # n + 1
      <4>1. i \in 0..n /\ (i # 0 => i - 1 \in 0..n)  BY <3>2
      <4>. QED BY <2>2, <2>3, <4>1
    <3>. QED BY <3>1, <3>2
  <2>5. g = [i \in 0..n + 1 |-> g[i]]  OBVIOUS
  <2> HIDE DEF g
  <2>6. [i \in 0..n + 1 |-> g[i]] = [i \in 0..n + 1 |-> IF i = 0 THEN s ELSE Refilled(g[i - 1])]  BY <2>4
  <2>7. Fills(g, s, n + 1)  BY <2>5, <2>6 DEF Fills
  <2>. QED BY <2>7
<1>3. Nat \subseteq S
  <2> HIDE DEF S
  <2>. QED BY <1>1, <1>2, NatSetInduction
<1>. QED BY <1>3

\* The loop ends: each turn of it stops, finds the end, or consumes something.
LEMMA FilledKeeps ==
  ASSUME NEW s, Decoder(s), s.kind # "pcm", s.done => Future(s) = <<>>
  PROVE  DecodedFrom(Filled(s), s) /\ Stopped(Filled(s))
<1> DEFINE N == Len(s.left) + 1
           f == CHOOSE h : Fills(h, s, N)
<1>1. Len(s.left) \in Nat /\ N \in Nat  BY DEF Decoder
<1>2. Filled(s) = f[N]  BY DEF Filled, Fills
<1>3. Fills(f, s, N)
  <2>1. \E h : Fills(h, s, N)  BY <1>1, FillsExists
  <2>. QED BY <2>1
<1>10. N = Len(s.left) + 1  OBVIOUS
<1> HIDE DEF f, N
<1>4. \A i \in 0..N : f[i] = IF i = 0 THEN s ELSE Refilled(f[i - 1])  BY <1>3 DEF Fills
<1> DEFINE Turn(i) == /\ DecodedFrom(f[i], s)
                      /\ Stopped(f[i]) \/ Len(f[i].left) + i <= Len(s.left)
           S == {i \in Nat : i \in 0..N => Turn(i)}
<1>5. 0 \in S
  <2>1. f[0] = s  BY <1>1, <1>4
  <2>2. DecodedFrom(s, s)  BY DEF DecodedFrom
  <2>3. Len(s.left) + 0 <= Len(s.left)  BY <1>1
  <2>. QED BY <2>1, <2>2, <2>3
<1>6. ASSUME NEW i \in Nat, i \in S PROVE i + 1 \in S
  <2> SUFFICES ASSUME i + 1 \in 0..N PROVE Turn(i + 1)
    <3> HIDE DEF Turn
    <3>. QED OBVIOUS
  <2>1. Turn(i)
    <3>1. i \in 0..N  BY <1>1
    <3> HIDE DEF Turn
    <3>. QED BY <1>6, <3>1
  <2>2. f[i + 1] = Refilled(f[i])
    <3>1. i + 1 # 0 /\ (i + 1) - 1 = i  OBVIOUS
    <3>. QED BY <1>4, <3>1
  <2> DEFINE u == f[i]
             v == Refilled(u)
  <2>3. Decoder(u) /\ u.kind # "pcm" /\ (u.done => Future(u) = <<>>)  BY <2>1 DEF DecodedFrom
  <2> HIDE DEF u
  <2>4. /\ DecodedFrom(v, u)
        /\ Stopped(u) => v = u
        /\ Stopped(u) \/ v.done \/ Len(v.left) < Len(u.left)
    BY <2>3, RefilledKeeps
  <2> HIDE DEF v
  <2>5. DecodedFrom(v, s)  BY <2>1, <2>4 DEF DecodedFrom, u
  <2>6. Stopped(v) \/ Len(v.left) + (i + 1) <= Len(s.left)
    <3>1. CASE Stopped(u)  BY <2>4, <3>1
    <3>2. CASE v.done  BY <3>2 DEF Stopped
    <3>3. CASE ~Stopped(u) /\ Len(v.left) < Len(u.left)
      <4>1. Len(u.left) + i <= Len(s.left)  BY <2>1, <3>3 DEF u
      <4>2. Len(u.left) \in Nat  BY <2>3 DEF Decoder
      <4>3. Decoder(v)  BY <2>4 DEF DecodedFrom
      <4>4. Len(v.left) \in Nat  BY <4>3 DEF Decoder
      <4>5. PICK a \in Nat, b \in Nat, c \in Nat :
              a = Len(s.left) /\ b = Len(u.left) /\ c = Len(v.left)
        BY <1>1, <4>2, <4>4
      <4>6. c < b /\ b + i <= a  BY <3>3, <4>1, <4>5
      <4>7. c + (i + 1) <= a  BY <4>6
      <4>. QED BY <4>5, <4>7
    <3>. QED BY <2>4, <3>1, <3>2, <3>3
  <2>. QED BY <2>2, <2>5, <2>6 DEF u, v
<1>7. Nat \subseteq S
  <2> HIDE DEF S
  <2>. QED BY <1>5, <1>6, NatSetInduction
<1>8. Turn(N)
  <2>1. N \in 0..N /\ N \in Nat  BY <1>1
  <2>. QED BY <1>7, <2>1
<1>9. ~(Len(f[N].left) + N <= Len(s.left))
  <2>1. Decoder(f[N])  BY <1>8 DEF DecodedFrom
  <2>2. PICK m \in Nat : m = Len(f[N].left)  BY <2>1 DEF Decoder
  <2>3. ~(m + N <= Len(s.left))  BY <1>1, <1>10
  <2>. QED BY <2>2, <2>3
<1>. QED BY <1>2, <1>8, <1>9

-----------------------------------------------------------------------------
(* Frames.                                                                 *)

LEMMA SilentType ==
  ASSUME NEW n \in Nat
  PROVE  Silent(n) \in Seq(Tones) /\ Len(Silent(n)) = n
<1>1. 0 \in Tones  BY DEF Tones
<1>2. Silent(n) \in [1..n -> Tones]  BY <1>1 DEF Silent
<1> HIDE DEF Silent
<1>. QED BY <1>2, LenProperties

LEMMA NoSilence == Silent(0) = <<>>
<1>1. Silent(0) \in Seq(Tones) /\ Len(Silent(0)) = 0  BY SilentType
<1>. QED BY <1>1, EmptySeq

\* A frame is the first of what waits, or all of it with silence.
LEMMA FrameCut ==
  ASSUME NEW p \in Seq(Tones)
  PROVE  /\ FrameOf(p) \in Seq(Tones) /\ Len(FrameOf(p)) = FrameSamples
         /\ Beyond(p, FrameSamples) \in Seq(Tones)
         /\ IF Len(p) >= FrameSamples THEN FrameOf(p) \o Beyond(p, FrameSamples) = p
            ELSE /\ FrameOf(p) = p \o Silent(FrameSamples - Len(p))
                 /\ Beyond(p, FrameSamples) = <<>>
<1>1. FrameSamples \in Nat /\ FrameSamples > 0 /\ Len(p) \in Nat  BY AudioAssumption
<1> DEFINE m == Min({FrameSamples, Len(p)})
           k == Max({0, FrameSamples - Len(p)})
<1>2. /\ m = IF FrameSamples <= Len(p) THEN FrameSamples ELSE Len(p)
      /\ k = IF 0 >= FrameSamples - Len(p) THEN 0 ELSE FrameSamples - Len(p)
  <2>1. FrameSamples \in Int /\ Len(p) \in Int  BY <1>1
  <2>2. PICK d \in Int, z \in Int : d = FrameSamples - Len(p) /\ z = 0  BY <2>1
  <2>3. Max({z, d}) = IF z >= d THEN z ELSE d  BY LeastOfTwo
  <2>4. m = IF FrameSamples <= Len(p) THEN FrameSamples ELSE Len(p)  BY <2>1, LeastOfTwo
  <2>. QED BY <2>2, <2>3, <2>4
<1>3. FrameOf(p) = SubSeq(p, 1, m) \o Silent(k)  BY DEF FrameOf
<1> HIDE DEF m, k
<1>4. CASE Len(p) >= FrameSamples
  <2>1. m = FrameSamples /\ k = 0 /\ FrameSamples \in 0..Len(p)  BY <1>1, <1>2, <1>4
  <2>2. /\ SubSeq(p, 1, FrameSamples) \in Seq(Tones) /\ Beyond(p, FrameSamples) \in Seq(Tones)
        /\ Len(Beyond(p, FrameSamples)) = Len(p) - FrameSamples
        /\ SubSeq(p, 1, FrameSamples) \o Beyond(p, FrameSamples) = p
    BY <2>1, CutInTwo DEF Beyond
  <2>3. FrameOf(p) = SubSeq(p, 1, FrameSamples)
    BY <1>3, <2>1, <2>2, NoSilence, ConcatEmptySeq
  <2>4. Len(FrameOf(p)) = FrameSamples
    <3>1. PICK a \in Seq(Tones), b \in Seq(Tones) : a = FrameOf(p) /\ b = Beyond(p, FrameSamples)
      BY <2>2, <2>3
    <3>2. Len(a \o b) = Len(a) + Len(b) /\ Len(a) \in Nat /\ Len(b) = Len(p) - FrameSamples
      BY <2>2, <3>1, ConcatProperties
    <3>3. a \o b = p  BY <2>2, <2>3, <3>1
    <3>. QED BY <1>1, <3>1, <3>2, <3>3
  <2>. QED BY <1>4, <2>2, <2>3, <2>4
<1>5. CASE ~(Len(p) >= FrameSamples)
  <2>1. m = Len(p) /\ k = FrameSamples - Len(p) /\ k \in Nat  BY <1>1, <1>2, <1>5
  <2>2. SubSeq(p, 1, m) = p  BY <2>1, SubSeqFull
  <2>3. Silent(k) \in Seq(Tones) /\ Len(Silent(k)) = k  BY <2>1, SilentType
  <2>4. FrameOf(p) = p \o Silent(k)  BY <1>3, <2>2
  <2>5. p \o Silent(k) \in Seq(Tones) /\ Len(p \o Silent(k)) = Len(p) + k
    BY <2>3, ConcatProperties
  <2>6. Beyond(p, FrameSamples) = <<>>  BY <1>1, <1>5, BeyondAll
  <2>7. <<>> \in Seq(Tones)  OBVIOUS
  <2>8. Len(p) + k = FrameSamples  BY <1>1, <2>1
  <2>. QED BY <1>5, <2>1, <2>4, <2>5, <2>6, <2>7, <2>8
<1>. QED BY <1>4, <1>5

\* What was said, of which samples came and rest is to come; over says that
\* its end was seen.
Follows(said, samples, over, rest) ==
  /\ said \in Seq(Tones) /\ samples \in Seq(Tones) /\ rest \in Seq(Tones) /\ over \in BOOLEAN
  /\ \/ samples \o rest = said /\ Len(samples) % FrameSamples = 0 /\ (over => rest = <<>>)
     \/ samples = said \o Silent((-Len(said)) % FrameSamples) /\ rest = <<>>

LEMMA MissingIsFound ==
  ASSUME NEW n \in Nat
  PROVE  /\ (-n) % FrameSamples \in Nat
         /\ n % FrameSamples = 0 => (-n) % FrameSamples = 0
         /\ \A k \in 0..FrameSamples - 1 : (n + k) % FrameSamples = 0 => (-n) % FrameSamples = k
<1>1. FrameSamples \in Nat \ {0}  BY AudioAssumption
<1>2. -n \in Int  OBVIOUS
<1>3. (-n) % FrameSamples \in 0..FrameSamples - 1  BY <1>1, <1>2, Divided
<1>4. ASSUME NEW k \in 0..FrameSamples - 1, (n + k) % FrameSamples = 0
      PROVE  (-n) % FrameSamples = k
  <2>1. n + k \in Nat  BY <1>1
  <2>2. PICK q \in Nat, r \in 0..FrameSamples - 1 :
          n + k = FrameSamples * q + r /\ r = (n + k) % FrameSamples
    BY <1>1, <2>1, NatDivided
  <2>3. n + k = FrameSamples * q  BY <1>1, <1>4, <2>2
  <2>4. PICK z \in Int : z = FrameSamples * q  BY <1>1
  <2>5. FrameSamples * (-q) = -z  BY <1>1, <2>4
  <2>6. -n = FrameSamples * (-q) + k /\ -q \in Int  BY <1>1, <2>3, <2>4, <2>5
  <2>. QED BY <1>1, <1>2, <2>6, DivisionIsUnique
<1>5. ASSUME n % FrameSamples = 0 PROVE (-n) % FrameSamples = 0
  <2>1. 0 \in 0..FrameSamples - 1 /\ n + 0 = n  BY <1>1
  <2>2. (n + 0) % FrameSamples = 0  BY <1>5, <2>1
  <2>. QED BY <1>4, <2>1, <2>2
<1>6. (-n) % FrameSamples \in Nat  BY <1>1, <1>3
<1>. QED BY <1>4, <1>5, <1>6

LEMMA FollowsMeans ==
  ASSUME NEW said, NEW samples, NEW over, NEW rest, Follows(said, samples, over, rest)
  PROVE  LET whole == said \o Silent((-Len(said)) % FrameSamples) IN
         IsPrefix(samples, whole) /\ (over => samples = whole)
<1> DEFINE gap == Silent((-Len(said)) % FrameSamples)
           whole == said \o gap
<1>1. said \in Seq(Tones) /\ samples \in Seq(Tones) /\ rest \in Seq(Tones) /\ Len(said) \in Nat
  BY DEF Follows
<1>2. gap \in Seq(Tones)  BY <1>1, MissingIsFound, SilentType
<1>3. whole \in Seq(Tones)  BY <1>1, <1>2, ConcatProperties
<1>4. \A t \in Seq(Tones) : samples = t => IsPrefix(samples, t)  BY DEF IsPrefix
<1>5. CASE samples \o rest = said /\ Len(samples) % FrameSamples = 0 /\ (over => rest = <<>>)
  <2> DEFINE after == rest \o gap
  <2>1. after \in Seq(Tones)  BY <1>1, <1>2, ConcatProperties
  <2>2. whole = samples \o after
    <3>1. Associates(Tones)  BY ConcatAssociates
    <3>2. samples \o (rest \o gap) = (samples \o rest) \o gap
      <4> HIDE DEF gap
      <4>. QED BY <1>1, <1>2, <3>1, Zenon DEF Associates
    <3>. QED BY <1>5, <3>2
  <2> HIDE DEF after, whole
  <2>3. IsPrefix(samples, whole)
    <3>1. Len(samples \o after) = Len(samples) + Len(after) /\ Len(samples) \in Nat /\ Len(after) \in Nat
          /\ samples \o after \in Seq(Tones)
      BY <1>1, <2>1, ConcatProperties
    <3>2. SubSeq(samples \o after, 1, Len(samples)) = samples
      BY <1>1, <2>1, SubSeqOfConcat1
    <3>3. SubSeq(samples, 1, Len(samples)) = samples  BY <1>1, SubSeqFull
    <3>. QED BY <2>2, <3>1, <3>2, <3>3 DEF IsPrefix
  <2>4. ASSUME over PROVE samples = whole
    <3>1. rest = <<>> /\ samples = said  BY <1>1, <1>5, <2>4, ConcatEmptySeq
    <3>2. (-Len(said)) % FrameSamples = 0  BY <1>1, <1>5, <3>1, MissingIsFound
    <3>. QED BY <1>1, <3>1, <3>2, NoSilence, ConcatEmptySeq DEF whole, gap
  <2>. QED BY <2>3, <2>4 DEF whole
<1>6. CASE samples = whole
  BY <1>3, <1>4, <1>6
<1>. QED BY <1>5, <1>6 DEF Follows

\* One more frame: of p, with fut behind it.
LEMMA FollowsCut ==
  ASSUME NEW said, NEW samples, NEW over, NEW p \in Seq(Tones), p # <<>>, NEW fut \in Seq(Tones),
         Follows(said, samples, over, p \o fut),
         Len(p) < FrameSamples => fut = <<>>
  PROVE  Follows(said, samples \o FrameOf(p), over, Beyond(p, FrameSamples) \o fut)
<1> DEFINE frame == FrameOf(p)
           left == Beyond(p, FrameSamples)
<1>1. /\ said \in Seq(Tones) /\ samples \in Seq(Tones) /\ over \in BOOLEAN
      /\ frame \in Seq(Tones) /\ Len(frame) = FrameSamples /\ left \in Seq(Tones)
      /\ FrameSamples \in Nat \ {0}
  BY FrameCut, AudioAssumption DEF Follows
<1>10. IF Len(p) >= FrameSamples THEN frame \o left = p
       ELSE frame = p \o Silent(FrameSamples - Len(p)) /\ left = <<>>
  BY FrameCut
<1> HIDE DEF frame, left
<1>2. p \o fut # <<>>  BY ConcatSimplifications
<1>3. samples \o (p \o fut) = said /\ Len(samples) % FrameSamples = 0 /\ ~over
  BY <1>2 DEF Follows
<1>4. /\ samples \o frame \in Seq(Tones) /\ Len(samples \o frame) = Len(samples) + FrameSamples
      /\ left \o fut \in Seq(Tones) /\ Len(samples) \in Nat
  <2>1. samples \o frame \in Seq(Tones) /\ Len(samples \o frame) = Len(samples) + Len(frame)
    BY <1>1, ConcatProperties
  <2>2. left \o fut \in Seq(Tones)  BY <1>1, ConcatProperties
  <2>3. Len(samples) \in Nat  BY <1>1
  <2>. QED BY <1>1, <2>1, <2>2, <2>3
<1>5. Associates(Tones)  BY ConcatAssociates
<1>6. (Len(samples) + FrameSamples) % FrameSamples = 0
  <2>1. PICK l \in Int, m \in Nat \ {0}, one \in Int : l = Len(samples) /\ m = FrameSamples /\ one = 1
    BY <1>1, <1>4
  <2>2. (l + one * m) % m = l % m  BY DivisionShifts
  <2>3. l + one * m = l + m  BY <2>1
  <2>. QED BY <1>3, <2>1, <2>2, <2>3
<1>7. CASE Len(p) >= FrameSamples
  <2>1. frame \o left = p  BY <1>7, <1>10
  <2>2. (samples \o frame) \o (left \o fut) = samples \o (frame \o (left \o fut))
    <3>1. PICK more \in Seq(Tones) : more = left \o fut  BY <1>4
    <3>2. samples \in Seq(Tones) /\ frame \in Seq(Tones)  BY <1>1
    <3>3. samples \o (frame \o more) = (samples \o frame) \o more
      BY <3>2, <1>5, Zenon DEF Associates
    <3>. QED BY <3>1, <3>3
  <2>3. frame \o (left \o fut) = (frame \o left) \o fut
    BY <1>1, <1>5, Zenon DEF Associates
  <2>4. (samples \o frame) \o (left \o fut) = said  BY <1>3, <2>1, <2>2, <2>3
  <2>5. Follows(said, samples \o frame, over, left \o fut)
    BY <1>1, <1>3, <1>4, <1>6, <2>4 DEF Follows
  <2>. QED BY <2>5 DEF frame, left
<1>8. CASE ~(Len(p) >= FrameSamples)
  <2>0. Len(p) \in Nat  OBVIOUS
  <2>9. FrameSamples - Len(p) \in Nat /\ FrameSamples \in Nat  BY <1>1, <1>8, <2>0
  <2>1. PICK k \in Nat : k = FrameSamples - Len(p)  BY <2>9
  <2>2. frame = p \o Silent(k) /\ left = <<>>  BY <1>8, <1>10, <2>1
  <2>3. fut = <<>>  BY <1>1, <1>8, <2>0
  <2>4. left \o fut = <<>> /\ p \o fut = p  BY <2>2, <2>3, ConcatEmptySeq
  <2>5. samples \o p = said /\ Len(samples) + Len(p) = Len(said)
    BY <1>1, <1>3, <2>4, ConcatProperties
  <2>6. samples \o frame = said \o Silent(k)
    <3>1. Silent(k) \in Seq(Tones) /\ samples \in Seq(Tones)  BY <1>1, SilentType
    <3>2. samples \o (p \o Silent(k)) = (samples \o p) \o Silent(k)
      BY <1>5, <3>1, Zenon DEF Associates
    <3>. QED BY <2>2, <2>5, <3>2
  <2>7. (-Len(said)) % FrameSamples = k
    <3>1. PICK n \in Nat : n = Len(said)  BY <1>1
    <3>2. k \in 0..FrameSamples - 1
      <4>1. Len(p) # 0  BY EmptySeq
      <4>. QED BY <1>1, <2>0, <2>1, <4>1
    <3>3. n + k = Len(samples) + FrameSamples
      <4>1. PICK a \in Nat, b \in Nat, m \in Nat : a = Len(samples) /\ b = Len(p) /\ m = FrameSamples
        BY <1>4, <2>0, <2>9
      <4>2. n = a + b /\ k = m - b  BY <2>1, <2>5, <3>1, <4>1
      <4>3. n + k = a + m  BY <4>2
      <4>. QED BY <4>1, <4>3
    <3>4. (n + k) % FrameSamples = 0  BY <1>6, <3>3
    <3>5. (-n) % FrameSamples = k  BY <3>2, <3>4, MissingIsFound
    <3>. QED BY <3>1, <3>5
  <2>8. Follows(said, samples \o frame, over, left \o fut)
    BY <1>1, <1>4, <2>4, <2>6, <2>7 DEF Follows
  <2>. QED BY <2>8 DEF frame, left
<1>. QED BY <1>7, <1>8

LEMMA FollowsEnd ==
  ASSUME NEW said, NEW samples, NEW over, Follows(said, samples, over, <<>>)
  PROVE  Follows(said, samples, TRUE, <<>>)
BY DEF Follows

LEMMA FollowsAll ==
  ASSUME NEW said \in Seq(Tones)
  PROVE  Follows(said, <<>>, FALSE, said)
<1>1. <<>> \in Seq(Tones) /\ <<>> \o said = said /\ Len(<<>>) = 0  BY ConcatEmptySeq
<1>2. 0 % FrameSamples = 0
  <2>1. PICK z \in Int, m \in Nat \ {0}, r \in Nat : z = 0 /\ m = FrameSamples /\ r = 0
    BY AudioAssumption
  <2>2. z = m * z + r /\ r \in 0..m - 1  BY <2>1
  <2>3. z % m = r  BY <2>2, DivisionIsUnique
  <2>. QED BY <2>1, <2>3
<1>. QED BY <1>1, <1>2 DEF Follows

-----------------------------------------------------------------------------
(* Players of files.                                                       *)

PlayedType ==
  [good : BOOLEAN, opened : BOOLEAN, said : Seq(Tones), samples : Seq(Tones), over : BOOLEAN]

\* A source stands where what is said and what came of it say it does.
Playing(s, p) ==
  /\ p \in PlayedType
  /\ Decoder(s) /\ (s.done => Future(s) = <<>>) /\ (s.kind = "pcm" => s.pending = <<>>)
  /\ Follows(p.said, p.samples, p.over, Rest(s))

FilesInv ==
  /\ RecorderInv
  /\ played.opened = played.good
  /\ IF source = <<>> THEN played.good => played.said = <<>> /\ played.samples = <<>> /\ ~played.over
     ELSE \E s : source = <<s>> /\ Playing(s, played)

LEMMA PlayingMeans ==
  ASSUME NEW s, Playing(s, played), played.opened = played.good
  PROVE  FramesFollowFile
BY FollowsMeans DEF Playing, FramesFollowFile

\* ReadFrame of a decoder: what is decoded for it changes nothing of what the
\* file has yet to give, and the frame is the next of it.
LEMMA ReadFramePlays ==
  ASSUME NEW s, Playing(s, played), source = <<s>>, ReadFrame
  PROVE  /\ \E t : source' = <<t>> /\ Playing(t, played')
         /\ played'.opened = played.opened /\ played'.good = played.good
<1> DEFINE u == Filled(s)
           failed == Len(u.pending) < FrameSamples /\ u.closed /\ ~u.done
           none == failed \/ u.pending = <<>>
           t == IF none THEN u ELSE [u EXCEPT !.pending = SubSeq(u.pending, FrameSamples + 1, Len(u.pending))]
<1>1. /\ s.kind # "pcm" /\ Decoder(s) /\ (s.done => Future(s) = <<>>)
      /\ played \in PlayedType /\ Follows(played.said, played.samples, played.over, Rest(s))
  BY DEF Playing, ReadFrame
<1>2. /\ source' = <<t>>
      /\ played' = IF none THEN [played EXCEPT !.over = played.over \/ ~failed]
                   ELSE [played EXCEPT !.samples = played.samples \o FrameOf(u.pending)]
  BY DEF ReadFrame
<1>3. DecodedFrom(u, s) /\ Stopped(u)  BY <1>1, FilledKeeps
<1> HIDE DEF u
<1>4. /\ Decoder(u) /\ u.kind # "pcm" /\ (u.done => Future(u) = <<>>) /\ Rest(u) = Rest(s)
  BY <1>1, <1>3 DEF DecodedFrom
<1>5. /\ Future(u) \in Seq(Tones) /\ Rest(u) = u.pending \o Future(u) /\ u.pending \in Seq(Tones)
      /\ Len(u.pending) \in Nat /\ FrameSamples \in Nat \ {0} /\ u.closed \in BOOLEAN /\ u.done \in BOOLEAN
  BY <1>4, FutureType, AudioAssumption DEF Rest, Decoder
<1>6. Len(u.pending) < FrameSamples /\ ~failed => u.done /\ Future(u) = <<>>
  BY <1>3, <1>4, <1>5 DEF Stopped, Readable
<1> DEFINE over == played.over \/ ~failed
<1>7. failed \in BOOLEAN /\ over \in BOOLEAN  BY <1>1 DEF PlayedType
<1>8. CASE none
  <2>1. t = u  BY <1>8
  <2>2. played' = [played EXCEPT !.over = over]  BY <1>2, <1>8
  <2>3. Follows(played.said, played.samples, over, Rest(u))
    <3>1. CASE failed
      <4>1. over = played.over
        <5> HIDE DEF failed
        <5>. QED BY <1>1, <3>1 DEF PlayedType
      <4> HIDE DEF over
      <4>. QED BY <1>1, <1>4, <4>1
    <3>2. CASE ~failed
      <4>1. u.pending = <<>>  BY <1>8, <3>2
      <4>2. Len(u.pending) < FrameSamples  BY <1>5, <4>1
      <4>3. Rest(u) = <<>>  BY <1>5, <1>6, <3>2, <4>1, <4>2, ConcatEmptySeq
      <4>. QED BY <1>1, <1>4, <3>2, <4>3, FollowsEnd
    <3>. QED BY <3>1, <3>2
  <2> HIDE DEF over, t
  <2>4. played' \in PlayedType /\ played'.said = played.said /\ played'.samples = played.samples
        /\ played'.over = over /\ played'.opened = played.opened /\ played'.good = played.good
    BY <1>1, <1>7, <2>2 DEF PlayedType
  <2>5. Playing(t, played')  BY <1>4, <2>1, <2>3, <2>4 DEF Playing
  <2>. QED BY <1>2, <2>4, <2>5
<1>9. CASE ~none
  <2>1. t = [u EXCEPT !.pending = Beyond(u.pending, FrameSamples)]  BY <1>9 DEF Beyond
  <2>2. played' = [played EXCEPT !.samples = played.samples \o FrameOf(u.pending)]  BY <1>2, <1>9
  <2>3. u.pending # <<>> /\ (Len(u.pending) < FrameSamples => Future(u) = <<>>)  BY <1>6, <1>9
  <2>4. source' = <<t>>  BY <1>2
  <2> HIDE DEF t, none, failed
  <2>5. Beyond(u.pending, FrameSamples) \in Seq(Tones) /\ FrameOf(u.pending) \in Seq(Tones)
    BY <1>5, FrameCut
  <2>6. /\ t.kind = u.kind /\ t.done = u.done /\ t.left = u.left /\ t.res = u.res /\ t.skip = u.skip
        /\ t.pending = Beyond(u.pending, FrameSamples)
    BY <1>4, <2>1 DEF Decoder
  <2>7. Decoder(t)  BY <1>4, <2>1, <2>5 DEF Decoder
  <2>8. Future(t) = Future(u)  BY <2>6 DEF Future
  <2>9. Follows(played.said, played.samples \o FrameOf(u.pending), played.over,
                Beyond(u.pending, FrameSamples) \o Future(u))
    BY <1>1, <1>4, <1>5, <2>3, FollowsCut
  <2>10. played.samples \o FrameOf(u.pending) \in Seq(Tones)  BY <2>9 DEF Follows
  <2>11. played' \in PlayedType /\ played'.said = played.said /\ played'.over = played.over
         /\ played'.samples = played.samples \o FrameOf(u.pending)
         /\ played'.opened = played.opened /\ played'.good = played.good
    BY <1>1, <2>2, <2>10 DEF PlayedType
  <2>12. Playing(t, played')
    BY <1>4, <2>6, <2>7, <2>8, <2>9, <2>11 DEF Playing, Rest
  <2>. QED BY <2>4, <2>11, <2>12
<1>. QED BY <1>8, <1>9

\* ReadFrame of raw PCM.
LEMMA ReadPcmFramePlays ==
  ASSUME NEW s, Playing(s, played), source = <<s>>, ReadPcmFrame
  PROVE  /\ \E t : source' = <<t>> /\ Playing(t, played')
         /\ played'.opened = played.opened /\ played'.good = played.good
<1> DEFINE t == [s EXCEPT !.left = Beyond(s.left, FrameSamples)]
<1>1. /\ s.kind = "pcm" /\ Decoder(s) /\ (s.done => Future(s) = <<>>) /\ s.pending = <<>>
      /\ played \in PlayedType /\ Follows(played.said, played.samples, played.over, Rest(s))
  BY DEF Playing, ReadPcmFrame
<1>2. /\ source' = <<t>>
      /\ played' = IF s.left = <<>> THEN [played EXCEPT !.over = TRUE]
                   ELSE [played EXCEPT !.samples = played.samples \o FrameOf(s.left)]
  BY DEF ReadPcmFrame, Beyond
<1>3. s.left \in Seq(Int) /\ s.left \in Seq(Tones) /\ FrameSamples \in Nat
  BY <1>1, ToneSequences, AudioAssumption DEF Decoder
<1>4. Rest(s) = s.left /\ Future(s) = s.left
  BY <1>1, <1>3, ConcatEmptySeq DEF Rest, Future
<1>5. Beyond(s.left, FrameSamples) \in Seq(Int)
  <2>1. CASE FrameSamples \in 0..Len(s.left)  BY <1>3, <2>1, BeyondIs
  <2>2. CASE FrameSamples >= Len(s.left)
    <3>1. Beyond(s.left, FrameSamples) = <<>>  BY <1>3, <2>2, BeyondAll
    <3>. QED BY <3>1
  <2>3. Len(s.left) \in Nat  BY <1>3
  <2>. QED BY <1>3, <2>1, <2>2, <2>3
<1> HIDE DEF t
<1>6. /\ t.kind = "pcm" /\ t.done = s.done /\ t.pending = <<>> /\ t.left = Beyond(s.left, FrameSamples)
      /\ Decoder(t)
  BY <1>1, <1>5 DEF Decoder, t
<1>7. Beyond(s.left, FrameSamples) \in Seq(Tones)  BY <1>5, ToneSequences
<1>8. Future(t) = Beyond(s.left, FrameSamples) /\ Rest(t) = Beyond(s.left, FrameSamples)
  BY <1>6, <1>7, ConcatEmptySeq DEF Future, Rest
<1>9. s.left = <<>> => Beyond(s.left, FrameSamples) = <<>>
  <2>1. s.left = <<>> => FrameSamples >= Len(s.left)  BY <1>3
  <2>. QED BY <1>3, <2>1, BeyondAll
<1>10. t.done => Future(t) = <<>>  BY <1>1, <1>4, <1>6, <1>8, <1>9
<1>11. CASE s.left = <<>>
  <2>1. played' = [played EXCEPT !.over = TRUE]  BY <1>2, <1>11
  <2>2. played' \in PlayedType /\ played'.said = played.said /\ played'.samples = played.samples
        /\ played'.over /\ played'.over = TRUE /\ played'.opened = played.opened /\ played'.good = played.good
    BY <1>1, <2>1 DEF PlayedType
  <2>3. Follows(played.said, played.samples, TRUE, Rest(t))
    <3>1. Follows(played.said, played.samples, played.over, <<>>)  BY <1>1, <1>4, <1>11
    <3>2. Rest(t) = <<>>  BY <1>8, <1>9, <1>11
    <3>. QED BY <3>1, <3>2, FollowsEnd
  <2>4. Playing(t, played')  BY <1>6, <1>10, <2>2, <2>3 DEF Playing
  <2>. QED BY <1>2, <2>2, <2>4
<1>12. CASE s.left # <<>>
  <2>1. played' = [played EXCEPT !.samples = played.samples \o FrameOf(s.left)]  BY <1>2, <1>12
  <2>2. <<>> \in Seq(Tones) /\ s.left \o <<>> = s.left  BY <1>3, ConcatEmptySeq
  <2>3. Follows(played.said, played.samples, played.over, s.left \o <<>>)  BY <1>1, <1>4, <2>2
  <2>4. Follows(played.said, played.samples \o FrameOf(s.left), played.over,
                Beyond(s.left, FrameSamples) \o <<>>)
    BY <1>3, <1>12, <2>2, <2>3, FollowsCut
  <2>5. Beyond(s.left, FrameSamples) \o <<>> = Rest(t)  BY <1>7, <1>8, ConcatEmptySeq
  <2>6. played.samples \o FrameOf(s.left) \in Seq(Tones)  BY <2>4 DEF Follows
  <2>7. played' \in PlayedType /\ played'.said = played.said /\ played'.over = played.over
        /\ played'.samples = played.samples \o FrameOf(s.left)
        /\ played'.opened = played.opened /\ played'.good = played.good
    BY <1>1, <2>1, <2>6 DEF PlayedType
  <2>8. Playing(t, played')  BY <1>6, <1>10, <2>4, <2>5, <2>7 DEF Playing
  <2>. QED BY <1>2, <2>7, <2>8
<1>. QED BY <1>11, <1>12

\* Close takes nothing from what is decoded.
LEMMA CloseSourcePlays ==
  ASSUME NEW s, Playing(s, played), source = <<s>>, CloseSource
  PROVE  (\E t : source' = <<t>> /\ Playing(t, played')) /\ played' = played
<1> DEFINE t == [s EXCEPT !.closed = TRUE]
<1>1. source' = <<t>> /\ played' = played  BY DEF CloseSource
<1>2. Decoder(s)  BY DEF Playing
<1>3. Decoder(t)  BY <1>2 DEF Decoder
<1>4. /\ t.kind = s.kind /\ t.done = s.done /\ t.left = s.left /\ t.res = s.res /\ t.skip = s.skip
      /\ t.pending = s.pending
  BY <1>2 DEF Decoder
<1> HIDE DEF t
<1>5. Future(t) = Future(s)  BY <1>4 DEF Future
<1>6. Playing(t, played)  BY <1>3, <1>4, <1>5 DEF Playing, Rest
<1>. QED BY <1>1, <1>6

-----------------------------------------------------------------------------
(* Files that are opened.                                                  *)

LEMMA OneDivides == ReadBuffer % 1 = 0
<1>1. PICK n \in Int, one \in Nat \ {0}, z \in Nat : n = ReadBuffer /\ one = 1 /\ z = 0
  BY AudioAssumption
<1>2. n = one * n + z /\ z \in 0..one - 1  BY <1>1
<1>3. n % one = z  BY <1>2, DivisionIsUnique
<1>. QED BY <1>1, <1>3

\* What is resampled in one piece.
LEMMA ProcessAll ==
  ASSUME NEW mono \in Seq(Mixes), NEW rate \in Nat \ {0}, NEW channels
  PROVE  Process(NewDownmixResampler(rate, channels), mono).out =
           IF rate = SampleRate THEN mono
           ELSE [k \in 1..Positions(mono, 0, rate) |-> Between(mono, (k - 1) * rate)]
<1> DEFINE d == NewDownmixResampler(rate, channels)
           n == Positions(mono, 0, rate)
<1>1. SampleRate \in Nat \ {0}  BY AudioAssumption
<1>2. d.inRate = rate /\ d.pos = 0 /\ d.last = <<>>  BY DEF NewDownmixResampler
<1> HIDE DEF d
<1>3. d.last \o mono = mono /\ d.pos + Len(d.last) * SampleRate = 0
  BY <1>1, <1>2, ConcatEmptySeq
<1>4. CASE rate = SampleRate
  BY <1>2, <1>4 DEF Process, d
<1>5. CASE rate # SampleRate /\ mono = <<>>
  <2>1. n = 0
    <3>1. StepsBefore(n, 0, rate, (Len(mono) - 1) * SampleRate)
      <4>1. Len(mono) \in Nat /\ 0 \in Nat  OBVIOUS
      <4>. QED BY <4>1, PositionsBefore
    <3> HIDE DEF n
    <3>2. n \in Nat /\ (0 < n <=> 0 + 0 * rate < (Len(mono) - 1) * SampleRate)
      BY <3>1 DEF StepsBefore
    <3>3. (Len(mono) - 1) * SampleRate = -SampleRate /\ 0 + 0 * rate = 0  BY <1>1, <1>5
    <3>. QED BY <1>1, <3>2, <3>3
  <2>. QED BY <1>2, <1>5, <2>1 DEF Process, d
<1>6. CASE rate # SampleRate /\ mono # <<>>
  <2>1. Process(d, mono).out = [k \in 1..n |-> Between(mono, 0 + (k - 1) * rate)]
    BY <1>2, <1>3, <1>6 DEF Process
  <2>. QED BY <1>6, <2>1 DEF d
<1>. QED BY <1>4, <1>5, <1>6

\* A source that is new: all of what is said is to come.
LEMMA NewSourcePlays ==
  ASSUME NEW kind \in {"wav", "mp3", "opus", "pcm"}, NEW left, NEW rate \in Nat \ {0},
         NEW channels \in Nat \ {0}, ReadBuffer % channels = 0, NEW skip \in Nat,
         IF kind = "opus" THEN left \in Seq(Seq(Int)) ELSE left \in Seq(Int),
         NEW p, p = [good |-> TRUE, opened |-> TRUE, said |-> Future(NewSource(kind, left, rate, channels, skip)),
                     samples |-> <<>>, over |-> FALSE]
  PROVE  Playing(NewSource(kind, left, rate, channels, skip), p)
<1> DEFINE s == NewSource(kind, left, rate, channels, skip)
<1>1. /\ s.kind = kind /\ s.left = left /\ s.skip = skip /\ s.pending = <<>> /\ s.done = FALSE
      /\ s.closed = FALSE /\ s.res = NewDownmixResampler(rate, channels)
  BY DEF NewSource
<1>2. SampleRate \in Nat \ {0} /\ FrameSamples \in Nat \ {0}  BY AudioAssumption
<1>3. Resampler(NewDownmixResampler(rate, channels))
  BY <1>2 DEF Resampler, NewDownmixResampler
<1>4. Decoder(s)
  <2>1. NewDownmixResampler(rate, channels)
          \in {d \in [inRate : Nat \ {0}, channels : Nat \ {0}, pos : Int, last : Seq(Mixes)] : Resampler(d)}
    BY <1>3 DEF Resampler
  <2>2. left \in Seq(Int) \cup Seq(Seq(Int))  OBVIOUS
  <2>. QED BY <2>1, <2>2 DEF Decoder, NewSource
<1> HIDE DEF s
<1>5. Future(s) \in Seq(Tones) /\ Rest(s) = Future(s)
  <2>1. Future(s) \in Seq(Tones)  BY <1>4, FutureType
  <2>. QED BY <1>1, <2>1, ConcatEmptySeq DEF Rest
<1>6. /\ p \in PlayedType /\ p.said = Future(s) /\ p.samples = <<>> /\ p.over = FALSE
  BY <1>5 DEF PlayedType, s
<1>7. Follows(p.said, p.samples, p.over, Rest(s))  BY <1>5, <1>6, FollowsAll
<1>. QED BY <1>1, <1>4, <1>6, <1>7 DEF Playing, s

\* newWavReader finds the sound where the file is said to have it.
LEMMA WavReaderReads ==
  ASSUME NEW chunks, NEW n \in Nat, DOMAIN chunks = 1..n
  PROVE  /\ (\A c, d \in 1..n : ~Sounds(chunks, c, d)) => NewWavReader(chunks) = <<>>
         /\ \A c, d \in 1..n : Sounds(chunks, c, d) =>
              NewWavReader(chunks) =
                <<NewSource("wav", SubSeq(chunks[d].words, 1, chunks[d].size), chunks[c].rate, chunks[c].channels, 0)>>
<1> DEFINE data == {i \in DOMAIN chunks : chunks[i].id = "data"}
           first == Min(data)
           formats == {i \in 1..(first - 1) : chunks[i].id = "fmt"}
           fmt == chunks[Max(formats)]
           refused == formats = {} \/ \E i \in formats : ~Pcm16(chunks[i])
<1>1. NewWavReader(chunks) =
        IF data = {} THEN <<>>
        ELSE IF refused THEN <<>>
        ELSE <<NewSource("wav", SubSeq(chunks[first].words, 1, chunks[first].size), fmt.rate, fmt.channels, 0)>>
  BY DEF NewWavReader
<1>2. ASSUME data # {}
      PROVE  first \in data /\ \A i \in data : first <= i
  <2>1. data \in SUBSET Nat  OBVIOUS
  <2> HIDE DEF data
  <2>. QED BY <1>2, <2>1, LeastOf
<1>3. ASSUME NEW c \in 1..n, NEW d \in 1..n, Sounds(chunks, c, d)
      PROVE  data # {} /\ first = d /\ ~refused /\ Max(formats) = c
  <2>1. d \in data /\ \A i \in data : d <= i  BY <1>3 DEF Sounds
  <2>2. first = d
    <3>1. first \in data /\ \A i \in data : first <= i  BY <1>2, <2>1
    <3>2. first \in Nat  BY <3>1
    <3> HIDE DEF first, data
    <3>. QED BY <2>1, <3>1, <3>2
  <2> HIDE DEF first, data
  <2>3. c \in formats /\ \A i \in formats : i <= c  BY <1>3, <2>2 DEF Sounds
  <2>4. ~refused  BY <1>3, <2>2, <2>3 DEF Sounds
  <2>5. Max(formats) = c
    <3>1. formats \subseteq Int  BY <2>2
    <3> HIDE DEF formats
    <3>. QED BY <2>3, <3>1, GreatestOf
  <2>6. data # {}  BY <2>1
  <2> HIDE DEF refused, formats
  <2>. QED BY <2>2, <2>4, <2>5, <2>6
<1>4. ASSUME data # {}, ~refused
      PROVE  \E c, d \in 1..n : Sounds(chunks, c, d)
  <2>1. first \in data /\ first \in 1..n /\ \A i \in data : first <= i  BY <1>2, <1>4
  <2> HIDE DEF first
  <2>2. \A i \in 1..first - 1 : chunks[i].id # "data"
    <3> SUFFICES ASSUME NEW i \in 1..first - 1, chunks[i].id = "data" PROVE FALSE  OBVIOUS
    <3>1. i \in data /\ ~(first <= i)  BY <2>1
    <3> HIDE DEF data
    <3>. QED BY <2>1, <3>1
  <2>3. PICK c \in formats : \A i \in formats : i <= c
    <3>1. formats \in SUBSET (1..n) /\ formats # {}  BY <1>4, <2>1
    <3> HIDE DEF formats
    <3>. QED BY <3>1, GreatestElement
  <2>4. c \in 1..n /\ c < first /\ chunks[c].id = "fmt"  BY <2>1
  <2>5. \A i \in c + 1..first - 1 : chunks[i].id # "fmt"  BY <2>1, <2>3, <2>4
  <2>6. \A i \in 1..first - 1 : chunks[i].id = "fmt" => Pcm16(chunks[i])  BY <1>4, <2>1
  <2>7. Sounds(chunks, c, first)  BY <2>1, <2>2, <2>4, <2>5, <2>6 DEF Sounds
  <2>. QED BY <2>1, <2>4, <2>7
<1> HIDE DEF refused, fmt
<1>5. (\A c, d \in 1..n : ~Sounds(chunks, c, d)) => NewWavReader(chunks) = <<>>
  BY <1>1, <1>4
<1>6. ASSUME NEW c \in 1..n, NEW d \in 1..n, Sounds(chunks, c, d)
      PROVE  NewWavReader(chunks) =
               <<NewSource("wav", SubSeq(chunks[d].words, 1, chunks[d].size), chunks[c].rate, chunks[c].channels, 0)>>
  <2>1. data # {} /\ first = d /\ ~refused /\ Max(formats) = c  BY <1>3, <1>6
  <2>2. fmt = chunks[c]  BY <2>1 DEF fmt
  <2> HIDE DEF data, first, formats
  <2>. QED BY <1>1, <2>1, <2>2
<1>. QED BY <1>5, <1>6

\* WAVFile, MP3File, OpusFile and PCMStream.
LEMMA SourcePlays ==
  ASSUME NEW f, Labelled(f),
         NEW p, p = [good |-> f.good, opened |-> SourceOf(f) # <<>>, said |-> Said(f), samples |-> <<>>, over |-> FALSE]
  PROVE  /\ p.opened = p.good /\ (SourceOf(f) = <<>> => ~p.good)
         /\ SourceOf(f) # <<>> => \E s : SourceOf(f) = <<s>> /\ Playing(s, p)
<1>0. f.kind \in {"wav", "mp3", "opus", "pcm"} /\ f.good \in BOOLEAN  BY DEF Labelled
<1>1. SampleRate \in Nat \ {0} /\ 1 \in Nat \ {0} /\ 2 \in Nat \ {0} /\ 0 \in Nat  BY AudioAssumption
<1>2. CASE f.kind = "wav"
  <2> DEFINE n == Len(f.chunks)
  <2>1. /\ n \in Nat /\ DOMAIN f.chunks = 1..n
        /\ f.good = \E c, d \in 1..n : Sounds(f.chunks, c, d)
        /\ \A c, d \in 1..n : Sounds(f.chunks, c, d) =>
            /\ f.words \in Seq(Int) /\ f.words = SubSeq(f.chunks[d].words, 1, f.chunks[d].size)
            /\ f.rate \in Nat \ {0} /\ f.rate = f.chunks[c].rate
            /\ f.channels \in Nat \ {0} /\ f.channels = f.chunks[c].channels /\ ReadBuffer % f.channels = 0
    BY <1>2 DEF Labelled
  <2> HIDE DEF n
  <2>2. SourceOf(f) = NewWavReader(f.chunks)  BY <1>2 DEF SourceOf
  <2>3. CASE \A c, d \in 1..n : ~Sounds(f.chunks, c, d)
    <3>1. SourceOf(f) = <<>>  BY <2>1, <2>2, <2>3, WavReaderReads
    <3>2. f.good = FALSE  BY <2>1, <2>3
    <3>. QED BY <3>1, <3>2
  <2>4. ASSUME NEW c \in 1..n, NEW d \in 1..n, Sounds(f.chunks, c, d)
        PROVE  /\ SourceOf(f) # <<>> /\ f.good = TRUE
               /\ \E s : SourceOf(f) = <<s>> /\ Playing(s, p)
    <3> DEFINE s == NewSource("wav", f.words, f.rate, f.channels, 0)
    <3>1. f.good = TRUE  BY <2>1, <2>4
    <3>2. /\ f.words \in Seq(Int) /\ f.rate \in Nat \ {0} /\ f.channels \in Nat \ {0}
          /\ ReadBuffer % f.channels = 0
          /\ f.words = SubSeq(f.chunks[d].words, 1, f.chunks[d].size)
          /\ f.rate = f.chunks[c].rate /\ f.channels = f.chunks[c].channels
      BY <2>1, <2>4
    <3>3. SourceOf(f) = <<s>>
      <4>1. SourceOf(f) = <<NewSource("wav", SubSeq(f.chunks[d].words, 1, f.chunks[d].size),
                                      f.chunks[c].rate, f.chunks[c].channels, 0)>>
        BY <2>1, <2>2, <2>4, WavReaderReads
      <4>. QED BY <3>2, <4>1
    <3>4. Future(s) = Said(f)
      <4>1. WavMono(f.words, f.channels) \in Seq(Mixes)  BY <3>2, WavMonoType
      <4>2. Future(s) = Process(NewDownmixResampler(f.rate, f.channels), WavMono(f.words, f.channels)).out
        BY DEF Future, NewSource, NewDownmixResampler
      <4>. QED BY <1>2, <3>2, <4>1, <4>2, ProcessAll DEF Said
    <3>5. Playing(s, p)
      <4>1. p = [good |-> TRUE, opened |-> TRUE, said |-> Future(s), samples |-> <<>>, over |-> FALSE]
        <5>1. (SourceOf(f) # <<>>) = TRUE  BY <3>3
        <5> HIDE DEF s
        <5>. QED BY <3>1, <3>4, <5>1, Zenon
      <4>2. "wav" \in {"wav", "mp3", "opus", "pcm"} /\ "wav" # "opus"  OBVIOUS
      <4>. QED BY <1>1, <3>2, <4>1, <4>2, NewSourcePlays, Zenon
    <3> HIDE DEF s
    <3>. QED BY <3>1, <3>3, <3>5
  <2>. QED BY <2>3, <2>4
<1>3. CASE f.kind = "mp3"
  <2> DEFINE s == NewSource("mp3", f.words, f.rate, 2, 0)
  <2>1. /\ f.good /\ f.words \in Seq(Int) /\ f.rate \in Nat \ {0} /\ ReadBuffer % 2 = 0
    BY <1>3 DEF Labelled
  <2>2. SourceOf(f) = <<s>>  BY <1>3 DEF SourceOf
  <2>3. Future(s) = Said(f)
    <3>1. WavMono(f.words, 2) \in Seq(Mixes)  BY <1>1, <2>1, WavMonoType
    <3>2. Future(s) = Process(NewDownmixResampler(f.rate, 2), WavMono(f.words, 2)).out
      BY DEF Future, NewSource, NewDownmixResampler
    <3>. QED BY <1>3, <2>1, <3>1, <3>2, ProcessAll DEF Said
  <2>4. p = [good |-> TRUE, opened |-> TRUE, said |-> Future(s), samples |-> <<>>, over |-> FALSE]
    <3>1. (SourceOf(f) # <<>>) = TRUE /\ f.good = TRUE  BY <1>0, <2>1, <2>2
    <3> HIDE DEF s
    <3>. QED BY <2>3, <3>1, Zenon
  <2>6. "mp3" \in {"wav", "mp3", "opus", "pcm"} /\ "mp3" # "opus"  OBVIOUS
  <2>5. Playing(s, p)  BY <1>1, <2>1, <2>4, <2>6, NewSourcePlays, Zenon
  <2>7. p.opened = TRUE /\ p.good = TRUE /\ SourceOf(f) # <<>>  BY <2>2, <2>4
  <2> HIDE DEF s
  <2>. QED BY <2>2, <2>5, <2>7
<1>4. CASE f.kind = "opus"
  <2> DEFINE s == NewSource("opus", f.packets, SampleRate, 1, f.preSkip)
  <2>1. f.good /\ f.packets \in Seq(Seq(Int)) /\ f.preSkip \in Nat  BY <1>4 DEF Labelled
  <2>2. SourceOf(f) = <<s>>  BY <1>4 DEF SourceOf
  <2>3. Future(s) = Said(f)  BY <1>4 DEF Future, NewSource, Said, Beyond
  <2>4. p = [good |-> TRUE, opened |-> TRUE, said |-> Future(s), samples |-> <<>>, over |-> FALSE]
    <3>1. (SourceOf(f) # <<>>) = TRUE /\ f.good = TRUE  BY <1>0, <2>1, <2>2
    <3> HIDE DEF s
    <3>. QED BY <2>3, <3>1, Zenon
  <2>6. "opus" \in {"wav", "mp3", "opus", "pcm"}  OBVIOUS
  <2>5. Playing(s, p)  BY <1>1, <2>1, <2>4, <2>6, OneDivides, NewSourcePlays, Zenon
  <2>7. p.opened = TRUE /\ p.good = TRUE /\ SourceOf(f) # <<>>  BY <2>2, <2>4
  <2> HIDE DEF s
  <2>. QED BY <2>2, <2>5, <2>7
<1>5. CASE f.kind = "pcm"
  <2> DEFINE s == NewSource("pcm", f.words, SampleRate, 1, 0)
  <2>1. f.good /\ f.words \in Seq(Int)  BY <1>5 DEF Labelled
  <2>2. SourceOf(f) = <<s>>  BY <1>5 DEF SourceOf
  <2>3. Future(s) = Said(f)  BY <1>5 DEF Future, NewSource, Said
  <2>4. p = [good |-> TRUE, opened |-> TRUE, said |-> Future(s), samples |-> <<>>, over |-> FALSE]
    <3>1. (SourceOf(f) # <<>>) = TRUE /\ f.good = TRUE  BY <1>0, <2>1, <2>2
    <3> HIDE DEF s
    <3>. QED BY <2>3, <3>1, Zenon
  <2>6. "pcm" \in {"wav", "mp3", "opus", "pcm"} /\ "pcm" # "opus"  OBVIOUS
  <2>5. Playing(s, p)  BY <1>1, <2>1, <2>4, <2>6, OneDivides, NewSourcePlays, Zenon
  <2>7. p.opened = TRUE /\ p.good = TRUE /\ SourceOf(f) # <<>>  BY <2>2, <2>4
  <2> HIDE DEF s
  <2>. QED BY <2>2, <2>5, <2>7
<1>. QED BY <1>0, <1>2, <1>3, <1>4, <1>5

\* The recording says what it holds: nothing while it is made.
LEMMA RecordingLabelled ==
  ASSUME RecorderInv
  PROVE  Labelled([kind |-> "wav", good |-> TRUE, rate |-> SampleRate, channels |-> 1,
           chunks |-> <<[id |-> "fmt", format |-> 1, channels |-> 1, rate |-> SampleRate, bits |-> 16],
                        [id |-> "data", size |-> recorder.header, words |-> recorder.disk]>>,
           words |-> IF recorder.closed THEN recorder.heard ELSE <<>>])
<1> DEFINE chunks == <<[id |-> "fmt", format |-> 1, channels |-> 1, rate |-> SampleRate, bits |-> 16],
                       [id |-> "data", size |-> recorder.header, words |-> recorder.disk]>>
           words == IF recorder.closed THEN recorder.heard ELSE <<>>
           f == [kind |-> "wav", good |-> TRUE, rate |-> SampleRate, channels |-> 1,
                 chunks |-> chunks, words |-> words]
<1>1. /\ recorder.disk \in Seq(FileWords) /\ recorder.heard \in Seq(FileWords)
      /\ recorder.closed => recorder.disk = recorder.heard /\ recorder.header = Len(recorder.disk)
      /\ ~recorder.closed => recorder.header = 0
  BY DEF RecorderInv, RecorderType
<1>2. SampleRate \in Nat \ {0} /\ FileWords \subseteq Int  BY AudioAssumption DEF FileWords
<1>3. recorder.disk \in Seq(Int) /\ recorder.heard \in Seq(Int)  BY <1>1, <1>2, SeqMonotonic
<1>4. words \in Seq(Int) /\ words = SubSeq(recorder.disk, 1, recorder.header)
  <2>1. CASE recorder.closed  BY <1>1, <1>3, <2>1, SubSeqFull
  <2>2. CASE ~recorder.closed
    <3>1. 1 \in Int /\ recorder.header \in Int /\ recorder.header < 1  BY <1>1, <2>2
    <3>2. SubSeq(recorder.disk, 1, recorder.header) = <<>>  BY <3>1, SubSeqEmpty
    <3>3. words = <<>> /\ <<>> \in Seq(Int)  BY <2>2
    <3> HIDE DEF words
    <3>. QED BY <3>2, <3>3
  <2>3. recorder.closed \/ ~recorder.closed  OBVIOUS
  <2> HIDE DEF words
  <2>. QED BY <2>1, <2>2, <2>3
<1> HIDE DEF words
<1>5. /\ Len(chunks) = 2 /\ DOMAIN chunks = 1..2
      /\ chunks[1].id = "fmt" /\ chunks[1].channels = 1 /\ chunks[1].rate = SampleRate /\ Pcm16(chunks[1])
      /\ chunks[2].id = "data" /\ chunks[2].size = recorder.header /\ chunks[2].words = recorder.disk
  BY <1>2 DEF Pcm16
<1> HIDE DEF chunks
<1>6. Sounds(chunks, 1, 2)  BY <1>5 DEF Sounds
<1>7. ASSUME NEW c \in 1..2, NEW d \in 1..2, Sounds(chunks, c, d) PROVE c = 1 /\ d = 2
  BY <1>5, <1>7 DEF Sounds
<1>8. Labelled(f)
  <2>1. /\ f.kind = "wav" /\ f.good = TRUE /\ f.chunks = chunks /\ f.words = words /\ f.rate = SampleRate
        /\ f.channels = 1
    OBVIOUS
  <2> HIDE DEF f
  <2>2. f.good = \E c, d \in DOMAIN f.chunks : Sounds(f.chunks, c, d)  
    <3>1. 1 \in 1..2 /\ 2 \in 1..2  OBVIOUS
    <3>2. \E c, d \in 1..2 : Sounds(chunks, c, d)  BY <1>6, <3>1, Zenon
    <3>. QED BY <1>5, <2>1, <3>2
  <2>3. ASSUME NEW c \in DOMAIN f.chunks, NEW d \in DOMAIN f.chunks, Sounds(f.chunks, c, d)
        PROVE  /\ f.words \in Seq(Int) /\ f.words = SubSeq(f.chunks[d].words, 1, f.chunks[d].size)
               /\ f.rate \in Nat \ {0} /\ f.rate = f.chunks[c].rate
               /\ f.channels \in Nat \ {0} /\ f.channels = f.chunks[c].channels /\ ReadBuffer % f.channels = 0
    <3>1. c = 1 /\ d = 2  BY <1>5, <1>7, <2>1, <2>3
    <3>. QED BY <1>2, <1>4, <1>5, <2>1, <3>1, OneDivides
  <2>4. f.good \in BOOLEAN /\ DOMAIN f.chunks = 1..Len(f.chunks) /\ Len(f.chunks) \in Nat
    <3>1. f.good \in BOOLEAN  BY <2>1
    <3>2. Len(f.chunks) = 2 /\ DOMAIN f.chunks = 1..2  BY <1>5, <2>1, Zenon
    <3>3. DOMAIN f.chunks = 1..Len(f.chunks)  BY <3>2, Zenon
    <3>4. Len(f.chunks) \in Nat  BY <3>2
    <3>. QED BY <3>1, <3>3, <3>4
  <2>5. /\ f.kind \in {"wav", "mp3", "opus", "pcm"}
        /\ f.kind # "mp3" /\ f.kind # "opus" /\ f.kind # "pcm"
    BY <2>1
  <2>. QED BY <2>2, <2>3, <2>4, <2>5, Zenon DEF Labelled
<1>. QED BY <1>8 DEF chunks, words

\* Open, of a file or of the recording.
LEMMA OpenPlays ==
  ASSUME NEW f, Labelled(f), Open(f)
  PROVE  /\ played'.opened = played'.good
         /\ IF source' = <<>> THEN ~played'.good ELSE \E s : source' = <<s>> /\ Playing(s, played')
BY SourcePlays DEF Open

\* frameSource, downmixResampler, pcmS16Source (source.go, audio.go) and
\* wavRecorder (sink.go): whatever the rates, the channels that divide a read, the
\* packets and the pre-skip, and wherever reads and frames cut them, the frames
\* are the sound of the file.
THEOREM FilesPlayAsTheySay == FilesSpec => []FramesFollowFile
<1>1. AudioInit => FilesInv
  <2> SUFFICES ASSUME AudioInit PROVE FilesInv  OBVIOUS
  <2>1. RecorderInv  BY AudioAssumption DEF AudioInit, RecorderInv, RecorderType
  <2>. QED BY <2>1 DEF AudioInit, FilesInv
<1>2. FilesInv /\ [FilesNext]_audioVars => FilesInv'
  <2> SUFFICES ASSUME FilesInv, [FilesNext]_audioVars PROVE FilesInv'  OBVIOUS
  <2>1. RecorderInv /\ played.opened = played.good  BY DEF FilesInv
  <2>2. RecorderInv'  BY <2>1, RecorderStep
  <2>3. ASSUME NEW f, Labelled(f), Open(f) PROVE FilesInv'
    BY <2>2, <2>3, OpenPlays DEF FilesInv
  <2>4. ASSUME NEW f \in Recordings, Open(f) PROVE FilesInv'
    BY <2>3, <2>4, RecordingsAssumption
  <2>5. CASE OpenRecording
    BY <2>1, <2>3, <2>5, RecordingLabelled DEF OpenRecording
  <2>6. CASE ReadFrame
    <3>1. PICK s : source = <<s>> /\ Playing(s, played)  BY <2>6 DEF FilesInv, ReadFrame
    <3>. QED BY <2>1, <2>2, <2>6, <3>1, ReadFramePlays DEF FilesInv
  <2>7. CASE ReadPcmFrame
    <3>1. PICK s : source = <<s>> /\ Playing(s, played)  BY <2>7 DEF FilesInv, ReadPcmFrame
    <3>. QED BY <2>1, <2>2, <2>7, <3>1, ReadPcmFramePlays DEF FilesInv
  <2>8. CASE CloseSource
    <3>1. PICK s : source = <<s>> /\ Playing(s, played)  BY <2>8 DEF FilesInv, CloseSource
    <3>. QED BY <2>1, <2>2, <2>8, <3>1, CloseSourcePlays DEF FilesInv
  <2>9. CASE UNCHANGED <<source, played>>  BY <2>2, <2>9 DEF FilesInv
  <2>10. (\E frame \in PeerFrames : WriteFrame(frame)) \/ CloseRecorder \/ UNCHANGED audioVars
           => UNCHANGED <<source, played>>
    BY DEF WriteFrame, CloseRecorder, audioVars
  <2>. QED BY <2>4, <2>5, <2>6, <2>7, <2>8, <2>9, <2>10 DEF FilesNext
<1>3. FilesInv => FramesFollowFile
  <2> SUFFICES ASSUME FilesInv PROVE FramesFollowFile  OBVIOUS
  <2>1. CASE source = <<>>
    <3>1. /\ played.opened = played.good
          /\ played.good => played.said = <<>> /\ played.samples = <<>> /\ ~played.over
      BY <2>1 DEF FilesInv
    <3>2. Follows(<<>>, <<>>, FALSE, <<>>)
      <4>1. <<>> \in Seq(Tones)  OBVIOUS
      <4>. QED BY <4>1, FollowsAll
    <3>3. IsPrefix(<<>>, <<>> \o Silent((-Len(<<>>)) % FrameSamples))  BY <3>2, FollowsMeans
    <3>. QED BY <3>1, <3>3 DEF FramesFollowFile
  <2>2. CASE source # <<>>  BY <2>2, PlayingMeans DEF FilesInv
  <2>. QED BY <2>1, <2>2
<1>. QED BY <1>1, <1>2, <1>3, PTL DEF FilesSpec
=============================================================================
