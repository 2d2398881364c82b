----------------------------- MODULE MlowStream -----------------------------
(***************************************************************************)
(* Speech from an MLow encoder to an MLow decoder.  The encoder analyses   *)
(* three internal frames per packet, each predicted from the one before it *)
(* (mlow/analysis.go); the decoder keeps its state from packet to packet   *)
(* while packets are lost (mlow/decoder.go).  What the signal processing   *)
(* finds in a frame is a free choice out of Unvoiced and Voiced.           *)
(***************************************************************************)
EXTENDS MlowPacket

CONSTANTS
  Unvoiced, Voiced,     \* parameters the analysis may choose
  Pauses,               \* payloads of a peer that is silent, with their samples
  Redundancies,         \* SetRedundancy: copies before a frame
  MaxFrames             \* bound: frames encoded

VARIABLES
  enc,                  \* SmplEncoderState, and the internal frames so far
  ready,                \* encoded frames that wait for a packet
  before,               \* the frame of the packet before
  packet,               \* payloads on their way: at most one
  dec,                  \* MlowDecoder
  heard,                \* what the last packet said, and what was heard
  encoded               \* how many frames were encoded

streamVars == <<enc, ready, before, packet, dec, heard, encoded>>

NoPredictor == [lag |-> -1, fracLag |-> -1]

\* A zero SmplEncoderState: its estimator starts at lag 0, not without one.
NewEncoderState ==
  [frames |-> <<>>, prevVoiced |-> FALSE, lstate |-> ZeroLsf, est |-> [lag |-> 0, fracLag |-> 0]]

StreamInit ==
  /\ enc = NewEncoderState
  /\ ready = <<>> /\ before = <<>> /\ encoded = 0 /\ packet = <<>>
  /\ \E n \in Redundancies : dec = [state |-> NewDecoderState, redundancy |-> n]
  /\ heard = [said |-> <<>>, pcm |-> <<>>]

-----------------------------------------------------------------------------
(* The encoder.                                                            *)

\* frontEndLsf.quantize: a spectrum relative to the last internal frame.
Conditional(voiced) == enc.prevVoiced = voiced /\ enc.frames # <<>>

\* Faulty variant: the search goes on from the last packet.
EstimatorAfter_KeepsPacket(ip, f) ==
  IF ip.lsf.stage1 = 1 THEN LagsPredictorAfter(ip.pitch) ELSE NoPredictor

\* What the next search starts from: SmplPitch sets it, ResetCond clears it
\* after an unvoiced frame and after the third.
EstimatorAfter(ip, f) ==
  IF ip.lsf.stage1 = 1 /\ f < 3 THEN LagsPredictorAfter(ip.pitch) ELSE NoPredictor

\* What the receiver should make of a packet of three internal frames.
Rendered(internal) ==
  FoldLeft(LAMBDA x, ip : LET nlsf == Nlsf(ip.lsf, x.prev) IN
             [prev |-> nlsf, out |-> Append(x.out, ip @@ [nlsf |-> nlsf])],
           [prev |-> <<>>, out |-> <<>>], internal).out

Frame(internal) ==
  [bytes |-> EncodeSmplFrame(80, internal),
   said |-> [samples |-> OpusFrameSamps, out |-> Rendered(internal)]]

\* One internal frame of Encode; the third completes a frame, which is lost when
\* it does not fit the buffer.
Analyze(ip) ==
  /\ encoded < MaxFrames
  /\ ip.lsf.grid = Grids => Conditional(ip.lsf.stage1 = 1)
  /\ LET f == Len(enc.frames) + 1
         internal == Append(enc.frames, ip)
         Ready(frame) == IF frame.bytes = <<>> THEN ready ELSE Append(ready, frame)
     IN /\ enc' = [frames |-> IF f = 3 THEN <<>> ELSE internal,
                   prevVoiced |-> ip.lsf.stage1 = 1,
                   lstate |-> IF f = 3 THEN ZeroLsf ELSE AfterInternal(enc.lstate, f - 1, ip),
                   est |-> EstimatorAfter(ip, f)]
        /\ IF f = 3 THEN /\ encoded' = encoded + 1
                         /\ ready' = Ready(Frame(internal))
                    ELSE UNCHANGED <<encoded, ready>>
  /\ UNCHANGED <<before, packet, dec, heard>>

-----------------------------------------------------------------------------
(* Packets.  This program sends bare frames; the peer also bundles them.   *)

SaidBy(frames) == [i \in 1..Len(frames) |-> frames[i].said]

Post(payload, said) ==
  /\ packet = <<>>
  /\ packet' = <<[payload |-> payload, said |-> said]>>
  /\ UNCHANGED <<enc, dec, heard, encoded>>

SendFrame ==
  /\ Len(ready) = 1 /\ dec.redundancy = 0
  /\ Post(ready[1].bytes, SaidBy(ready))
  /\ ready' = <<>> /\ before' = ready

\* External: a peer that sends several frames at once.
SendContainer ==
  /\ Len(ready) > 1
  /\ Post(<<ContainerMarker, Len(ready)>>
            \o Concat([i \in 1..(Len(ready) - 1) |-> <<Len(ready[i].bytes)>> \o ready[i].bytes])
            \o Last(ready).bytes, SaidBy(ready))
  /\ ready' = <<>> /\ before' = <<Last(ready)>>

\* External: a peer that repeats the frame before.
SendRedundant ==
  /\ Len(ready) = 1 /\ dec.redundancy > 0
  /\ Post(Concat([i \in 1..Len(before) |-> <<128, Len(before[i].bytes)>>]) \o <<0>>
            \o Concat([i \in 1..Len(before) |-> before[i].bytes]) \o ready[1].bytes, SaidBy(ready))
  /\ ready' = <<>> /\ before' = ready

\* External: a peer that has nothing to say.
SendPause(p) ==
  /\ ready = <<>> /\ dec.redundancy = 0
  /\ Post(p.payload, <<Silence(p.samples)>>)
  /\ UNCHANGED <<ready, before>>

Lose ==
  /\ packet # <<>> /\ packet' = <<>>
  /\ UNCHANGED <<enc, ready, before, dec, heard, encoded>>

Receive ==
  /\ packet # <<>> /\ packet' = <<>>
  /\ LET Heard(r) == /\ dec' = [dec EXCEPT !.state = r.dec]
                     /\ heard' = [said |-> packet[1].said, pcm |-> r.pcm]
     IN Heard(Decode(dec.state, packet[1].payload, dec.redundancy))
  /\ UNCHANGED <<enc, ready, before, encoded>>

-----------------------------------------------------------------------------
(* Properties.                                                             *)

\* Every packet decodes to the parameters its frames were made of, and to as
\* many samples, whatever was lost before it: no context of the decoder outlives
\* a change of kind or a packet (decoder.go Decode, encoder.go EncodeSmplFrame).
FramesDecodeAsSent == heard.pcm = heard.said

\* The pitch search weighs lags by what they will cost on the wire: its
\* predictor is the one the entropy coder will use for a voiced frame, except
\* for the very first frame of an encoder (analysis.go smplAnalyzeInternal).
SearchFollowsWire ==
  (encoded > 0 \/ enc.frames # <<>>) =>
    LET st == AdvanceLsfState(enc.lstate, Len(enc.frames), 1) IN
    enc.est = [lag |-> st.lag, fracLag |-> st.fracLag]
=============================================================================
