----------------------------- MODULE MlowPacket -----------------------------
(***************************************************************************)
(* The payload of an audio packet: one MLow frame, several in a container, *)
(* or a frame with redundant copies before it (mlow/decoder.go, toc.go,    *)
(* red.go).  A payload is a sequence: control bytes, then code symbols.    *)
(***************************************************************************)
EXTENDS MlowFrame

Bit(b, i) == (b \div 2^i) % 2

OpusFrameSamps == 960

\* standardOpusFrameMs: from the configuration of a standard Opus packet.
StandardOpusFrameMs(b) ==
  LET config == b \div 8  low == config % 4 IN
  IF config < 12 THEN <<10, 20, 40, 60>>[low + 1]
  ELSE IF config < 16 THEN <<10, 20>>[((config - 12) % 2) + 1]
  ELSE <<3, 5, 10, 20>>[low + 1]

ParseSmplTOC(b) ==
  IF b >= 192
  THEN [stdOpus |-> TRUE, sid |-> FALSE, active |-> FALSE, rate |-> 16, ms |-> StandardOpusFrameMs(b)]
  ELSE [stdOpus |-> FALSE, sid |-> Bit(b, 7) = 1, active |-> Bit(b, 6) = 1 \/ Bit(b, 1) = 1,
        rate |-> IF Bit(b, 5) = 1 THEN 32 ELSE 16,
        ms |-> <<10, 20, 60, 120>>[((b \div 8) % 4) + 1]]

\* What a frame sounds like: its length, and its parameters unless it is silent.
Silence(n) == [samples |-> n, out |-> <<>>]

\* decodeFrame: only an active frame of 60 ms at 16 kHz reaches the decoder.
DecodeFrame(dec, frame) ==
  IF frame = <<>> THEN [dec |-> dec, pcm |-> Silence(OpusFrameSamps)]
  ELSE LET toc == ParseSmplTOC(frame[1]) IN
       IF toc.stdOpus \/ toc.sid \/ ~toc.active
         THEN [dec |-> dec, pcm |-> Silence(toc.rate * toc.ms)]
       ELSE IF toc.rate # 16 \/ toc.ms # 60
         THEN [dec |-> dec, pcm |-> Silence(OpusFrameSamps)]
       ELSE LET Heard(r) == [dec |-> r.dec, pcm |-> [samples |-> toc.rate * toc.ms, out |-> r.out]]
            IN Heard(DecodeActiveFrame(dec, Tail(frame)))

ContainerMarker == 146

\* Cut one frame with its length off what is left.
TakeFrame(x) ==
  IF x.rest = <<>> \/ Head(x.rest) > Len(x.rest) - 1 THEN [x EXCEPT !.ok = FALSE]
  ELSE [ok |-> x.ok, frames |-> Append(x.frames, SubSeq(x.rest, 2, 1 + Head(x.rest))),
        rest |-> SubSeq(x.rest, 2 + Head(x.rest), Len(x.rest))]

\* splitContainer: all frames but the last carry their length.
SplitContainer(p) ==
  IF Len(p) < 3 \/ p[1] # ContainerMarker \/ p[2] \notin 2..8 THEN [ok |-> FALSE, frames |-> <<>>]
  ELSE LET x == Steps(LAMBDA y, i : IF y.ok THEN TakeFrame(y) ELSE y,
                         [ok |-> TRUE, frames |-> <<>>, rest |-> SubSeq(p, 3, Len(p))],
                         [i \in 1..(p[2] - 1) |-> i])
       IN [ok |-> x.ok /\ x.rest # <<>>, frames |-> Append(x.frames, x.rest)]

\* DepackSplitRed: the headers of the redundant blocks, then the header of the
\* main frame, then the frames in the same order.
DepackSplitRed(p) ==
  LET Header(x) == 2 * x + 1
      IsMain(n) == Header(n) <= Len(p) /\ p[Header(n)] < 128
      mains == {n \in 0..(Len(p) \div 2) : IsMain(n) /\ \A m \in 0..(n - 1) : ~IsMain(m)}
  IN IF mains = {} THEN [ok |-> FALSE, frames |-> <<>>]
     ELSE LET n == CHOOSE m \in mains : TRUE
              size(i) == p[2 * i]
              start(i) == 2 * n + 1 + SumOf([j \in 1..(i - 1) |-> size(j)])
          IN IF start(n + 1) >= Len(p) THEN [ok |-> FALSE, frames |-> <<>>]
             ELSE [ok |-> TRUE,
                   frames |-> [i \in 1..(n + 1) |->
                                 SubSeq(p, start(i) + 1, IF i = n + 1 THEN Len(p) ELSE start(i + 1))]]

\* Decode: the frames of a container in order, or the main one after redundancy.
Decode(dec, payload, redundancy) ==
  LET box == SplitContainer(payload)
      red == DepackSplitRed(payload)
      frames == IF box.ok THEN box.frames
                ELSE IF redundancy = 0 THEN <<payload>>
                ELSE IF red.ok THEN <<Last(red.frames)>> ELSE <<>>
      Play(x, frame) == LET Heard(r) == [dec |-> r.dec, pcm |-> Append(x.pcm, r.pcm)]
                        IN Heard(DecodeFrame(x.dec, frame))
  IN IF payload = <<>> \/ frames = <<>> THEN [dec |-> dec, pcm |-> <<Silence(OpusFrameSamps)>>]
     ELSE Steps(Play, [dec |-> dec, pcm |-> <<>>], frames)

\* newSmplDecoderState.
NewDecoderState == [st |-> ZeroLsf, prev |-> <<>>]
=============================================================================
