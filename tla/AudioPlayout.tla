---------------------------- MODULE AudioPlayout ----------------------------
(***************************************************************************)
(* audioPlayoutBuffer (audio_playout.go): turns decoded packets into a     *)
(* continuous stream.  The newest frame is held back until the next one    *)
(* says how long it lasts; two frames are collected before the sink gets   *)
(* the first.                                                              *)
(*                                                                         *)
(* A frame is a record with its timestamp and its number of samples, len.  *)
(***************************************************************************)
EXTENDS RtpNumbers, Sequences, SequencesExt

CONSTANTS
  FrameLen,             \* FrameSamples
  MaxGap                \* audioPlayoutMaxGapSamples

ASSUME PlayoutAssumption ==
  /\ FrameLen \in Nat \ {0} /\ MaxGap \in Nat /\ MaxGap >= 2 * FrameLen
  /\ TsMod > 2 * MaxGap

Prefill == 2 * FrameLen

NoFrame == [len |-> 0]

NewPlayout ==
  [pending |-> NoFrame, prefill |-> <<>>, prefillSamples |-> 0, started |-> FALSE]

SamplesIn(frames) ==
  LET sum[i \in 0..Len(frames)] == IF i = 0 THEN 0 ELSE sum[i - 1] + frames[i].len
  IN sum[Len(frames)]

\* Faulty variant: a frame that is longer than the step is not cut.
alignAudioFrame_NoCut(frame, samples) ==
  [frame EXCEPT !.len = Max({frame.len, FrameLen})]

\* alignAudioFrame: cut or padded to the step, but an elapsed gap is not
\* filled with silence.
alignAudioFrame(frame, samples) ==
  [frame EXCEPT !.len = Min({samples, Max({frame.len, FrameLen})})]

\* What a Push leads to: the buffer, what the sink took, in order, and
\* whether playout started with it.
Result(p, written, startedNow) == [buffer |-> p, written |-> written, startedNow |-> startedNow]

PlayoutReset(p, frame) ==
  [pending |-> frame, prefill |-> <<>>, prefillSamples |-> 0, started |-> FALSE]

\* The oldest frames go when more than the largest gap has been collected.
Trimmed(p) ==
  LET keep == {i \in 1..Len(p.prefill) :
                 i = Len(p.prefill) \/ SamplesIn(SubSeq(p.prefill, i, Len(p.prefill))) <= MaxGap}
      rest == SubSeq(p.prefill, Min(keep), Len(p.prefill))
  IN [p EXCEPT !.prefill = rest, !.prefillSamples = SamplesIn(rest)]

\* The prefill is written until the sink fails at the frame numbered fails
\* (no frame when it is larger than the prefill); that frame stays.
Drained(p, fails) ==
  LET done == Min({fails - 1, Len(p.prefill)})
      rest == SubSeq(p.prefill, done + 1, Len(p.prefill))
  IN Result([p EXCEPT !.prefill = rest, !.prefillSamples = SamplesIn(rest),
                      !.started = rest = <<>>],
            SubSeq(p.prefill, 1, done), rest = <<>>)

\* Faulty variant: the unsigned difference is not tested for late packets.
Restarts_NoLateTest(p, ts) == p.pending.timestamp = ts

\* A late, repeated or far-ahead packet.
Restarts(p, ts) ==
  LET delta == (ts - p.pending.timestamp) % TsMod IN delta = 0 \/ delta > MaxGap

\* Push with a sink that fails at the write numbered fails, or no sink.
Push(p, frame, sink, fails) ==
  LET delta == (frame.timestamp - p.pending.timestamp) % TsMod
      ready == alignAudioFrame(p.pending, delta)
      next  == [p EXCEPT !.pending = frame]
      kept  == IF p.started THEN <<>> ELSE p.prefill
      more  == Trimmed([next EXCEPT !.started = FALSE, !.prefill = Append(kept, ready)])
  IN IF p.pending = NoFrame THEN Result(next, <<>>, FALSE)
     ELSE IF Restarts(p, frame.timestamp) THEN Result(PlayoutReset(p, frame), <<>>, FALSE)
     ELSE IF p.started /\ sink
       THEN Result(next, IF fails = 1 THEN <<>> ELSE <<ready>>, FALSE)
     ELSE IF ~sink \/ more.prefillSamples < Prefill THEN Result(more, <<>>, FALSE)
     ELSE Drained(more, fails)

\* Flush, when the media loop ends.
Flush(p, sink, fails) ==
  IF ~p.started \/ p.pending = NoFrame \/ ~sink THEN Result(p, <<>>, FALSE)
  ELSE Result([p EXCEPT !.pending = NoFrame], IF fails = 1 THEN <<>> ELSE <<p.pending>>, FALSE)
=============================================================================
