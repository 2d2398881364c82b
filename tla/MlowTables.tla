----------------------------- MODULE MlowTables -----------------------------
(***************************************************************************)
(* The probability tables of MLow: expanded from embedded seeds            *)
(* (mlow/cc_tables.go, pitch_seed.go, lsf_seed.go) and read through        *)
(* windows (mem.go).  The seeds are a parameter; the sizes are small.      *)
(***************************************************************************)
EXTENDS Integers, Sequences, SequencesExt, FiniteSetsExt

CONSTANTS
  Seed(_, _),           \* Seed(name, n): the n weights of an embedded table
  TableTotal,           \* 32767
  Order,                \* LSF residuals, 16
  Grids,                \* symbols of the stage-1 grid
  SubfrSamples,         \* samples of a subframe, 80
  MaxPulses,            \* ccMaxPulsesPerSf
  RunStep,              \* ccRunlengthStep
  Gains, Shapes,        \* symbols of the main gain and of its shape
  GainFloor,            \* -85
  OffsetWindow,         \* 92
  SignBatch,            \* raw sign bits in one symbol, 15
  AcbN,                 \* ccAcbgN
  FcbN,                 \* ccFcbgVN
  NumBlocks,            \* pitchNumBlocks
  Blocksize,            \* pitchBlocksize
  NumSubframes,         \* segments of 40 samples, 8
  Blocksegs,            \* the contours: records of blocks and seglens
  Blocksegs2idx         \* their places in the index table, from 1

Subframes == 1..4
NumSamples == 4 * SubfrSamples

\* A table of weights becomes a cumulative table that leaves every symbol a share.
DcmfToCmf(dcmf) ==
  LET n == Len(dcmf)
      w == [i \in 1..n |-> (dcmf[i] + 1) * (dcmf[i] + 1)]
      sum == FoldLeft(LAMBDA a, b : a + b, 0, w)
  IN FoldLeft(LAMBDA cmf, x : Append(cmf, Last(cmf) + (x * (TableTotal - n)) \div sum + 1),
              <<0>>, w)

Table(name, n) == DcmfToCmf(Seed(name, n))

\* The window of a table; what lies outside reads as zero.
CdfWindow(base, start, n) ==
  [i \in 1..n |-> IF start + i \in 1..Len(base) THEN base[start + i] ELSE 0]

Uniform(n) == [i \in 1..(n + 1) |-> i - 1]

-----------------------------------------------------------------------------
(* Spectrum.                                                               *)

LsfSel(row) == Table(<<"sel", row>>, 2)

\* One more symbol when a frame may be relative to the one before it.
LsfGrid(match, stage1) ==
  IF match THEN Table(<<"grid", 1, stage1>>, Grids + 1) ELSE Table(<<"grid", 0, stage1>>, Grids)

LsfStage2(stage1, grid) == [k \in 1..Order |-> Table(<<"stage2", stage1, grid, k>>, 3)]

LsfExtra == Table(<<"extra">>, 2)

-----------------------------------------------------------------------------
(* Pulses.                                                                 *)

FrameLen4k == 4 * MaxPulses

\* The number of pulses has a triangular distribution.
PulseCount ==
  LET tri(k) == (k + 2) * (FrameLen4k + 1) - ((k - 1) * (k - 2)) \div 2 IN
  <<0>> \o [i \in 1..(FrameLen4k + 1) |-> tri(i - 1)]

MaxOf(a, b) == IF a >= b THEN a ELSE b
MinOf(a, b) == IF a <= b THEN a ELSE b

\* How `total' pulses split over two halves.
SplitCmf(total) ==
  LET min == MaxOf(0, total - 2 * MaxPulses) IN Table(<<"split", total>>, total - 2 * min + 1)

\* How far the next pulse is when `left' samples remain and c pulses follow.
RunWindow(left, c) ==
  LET oct == (left + RunStep - 1) \div RunStep
      maxSamples == oct * RunStep
  IN CdfWindow(Table(<<"run", oct, c>>, maxSamples), maxSamples - left, left + 1)

-----------------------------------------------------------------------------
(* Gains and pitch.                                                        *)

NrgresGain == Table(<<"gain">>, Gains)
NrgresShape == Table(<<"shape">>, Shapes)

\* The quantized log gain of a subframe, in units of the table offset.
GainQ(main, delta, sf) == main + ((delta * sf) % 3) + GainFloor

\* The energy-residual table is shifted for quiet subframes, up to a limit.
FcbgOffset(count, gain) ==
  LET bucket == MinOf((count * 40) \div (10 * MaxPulses), 3)
      offset == -MinOf(0, MaxOf(GainFloor, gain))
  IN CdfWindow(Table(<<"offset", bucket>>, OffsetWindow - 1 - GainFloor), offset, OffsetWindow)

AcbgainRow(prev) == Table(<<"acb", prev>>, AcbN)

AcbgainWeight(gi) == gi

FcbgainV == Table(<<"fcb">>, FcbN)
FcbgainVDelta(prev) == CdfWindow(Table(<<"fcbDelta">>, 2 * FcbN - 1), FcbN - 1 - prev, FcbN + 1)

\* The mean gain chooses the distribution of the lag steps.
LagMode(sum) == LET avg == sum \div 4 IN IF avg < 1 THEN 0 ELSE IF avg < 2 THEN 1 ELSE 2

DeltaLagWindow(mode, start) ==
  CdfWindow(Table(<<"delta", mode>>, 5 * Blocksize - 1), start + 2 * Blocksize - 1, Blocksize + 1)

BlockTransition(prev) == Table(<<"transition", prev>>, NumBlocks)

BlocksegIdx == Table(<<"contour">>, Len(Blocksegs))

\* The contours that begin in a block are neighbours in the index table.
FirstblockRange(b) ==
  LET ixs == {Blocksegs2idx[i] - 1 : i \in {j \in DOMAIN Blocksegs : Blocksegs[j].blocks[1] = b}}
  IN [lo |-> Min(ixs), hi |-> Max(ixs)]

FirstblockWindow(b) ==
  LET r == FirstblockRange(b) IN CdfWindow(BlocksegIdx, r.lo, r.hi - r.lo + 2)

\* A lag is coded as a step from the last one when their blocks are close.
CloseTo(block, prev) == prev >= 0 /\ block - prev \in -1..2

\* The subframe at which a segment of a contour begins, from 1.
SegStart(seg, k) == 1 + FoldLeft(LAMBDA a, b : a + b, 0, SubSeq(seg.seglens, 1, k - 1))
=============================================================================
