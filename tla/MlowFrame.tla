----------------------------- MODULE MlowFrame -----------------------------
(***************************************************************************)
(* The body of an active MLow frame: three internal frames, each a row of  *)
(* symbols whose tables depend on what came before (mlow/encoder.go for    *)
(* writing, lsf.go, pulse.go, gains.go and pitch.go for reading).  The     *)
(* operating point is the encoder's own: configuration 0, four subframes.  *)
(***************************************************************************)
EXTENDS RangeCoder, MlowTables

ASSUME FineLagAssumption == FineLags = Blocksize

\* SmplLsfState: what the next internal frame is predicted from.  The encoder
\* keeps a block and an index of the lag where the decoder keeps lags.
ZeroLsf == [stage1 |-> 0, gain |-> 0, filt |-> 0, lag |-> 0, fracLag |-> 0]

Matches(st, intf, stage1) == intf # 0 /\ stage1 = st.stage1

\* SmplAdvanceLsfState: nothing is predicted across kinds of frames or packets.
AdvanceLsfState(st, intf, stage1) ==
  IF Matches(st, intf, stage1) THEN st
  ELSE [stage1 |-> stage1, gain |-> -1, filt |-> -1, lag |-> -1, fracLag |-> -1]

SelRow(st, intf) == IF intf = 0 THEN 0 ELSE IF st.stage1 # 0 THEN 2 ELSE 1

\* The spectrum: the last grid is relative to the frame before.
Nlsf(lsf, prev) == IF lsf.grid = Grids THEN <<lsf, prev>> ELSE <<lsf>>

-----------------------------------------------------------------------------
(* Writing.  A row of symbols with their tables, then the range coder.     *)

Sym(s, cdf) == [sym |-> s, cdf |-> cdf]

EncodeAll(e, syms) == Steps(LAMBDA x, w : EncodeCDF(x, w.sym, w.cdf), e, syms)

LsfSyms(st, intf, lsf) ==
  <<Sym(lsf.stage1, LsfSel(SelRow(st, intf))),
    Sym(lsf.grid, LsfGrid(Matches(st, intf, lsf.stage1), lsf.stage1))>>
  \o [k \in 1..Order |-> Sym(lsf.stage2[k], LsfStage2(lsf.stage1, lsf.grid)[k])]
  \o <<Sym(lsf.extra, LsfExtra)>>

Abs(x) == IF x < 0 THEN -x ELSE x

Concat(seqs) == FoldLeft(LAMBDA a, b : a \o b, <<>>, seqs)

SumOf(seq) == FoldLeft(LAMBDA a, b : a + b, 0, seq)

SubfrPulses(pulse, sf) == SubSeq(pulse, (sf - 1) * SubfrSamples + 1, sf * SubfrSamples)

\* smplBuildPulseParams: the pulses of each subframe, ...
SubfrCounts(pulse) ==
  [sf \in Subframes |-> SumOf([n \in 1..SubfrSamples |-> Abs(SubfrPulses(pulse, sf)[n])])]

\* ... their distances, 0 for a pulse on top of the last one, ...
MagRuns(sub) ==
  LET at == SelectSeq([n \in 1..Len(sub) |-> n], LAMBDA n : sub[n] # 0)
      gap(i) == IF i = 1 THEN at[1] - 1 ELSE at[i] - at[i - 1]
  IN Concat([i \in 1..Len(at) |-> <<gap(i)>> \o [k \in 1..(Abs(sub[at[i]]) - 1) |-> 0]])

\* ... and their signs, in batches of raw bits.
SignSyms(pulse) ==
  LET signs == SelectSeq(pulse, LAMBDA x : x # 0)
      bits(batch) == FoldLeft(LAMBDA acc, x : 2 * acc + (IF x > 0 THEN 1 ELSE 0), 0, batch)
      batches == [b \in 1..((Len(signs) + SignBatch - 1) \div SignBatch) |->
                    SubSeq(signs, (b - 1) * SignBatch + 1, MinOf(b * SignBatch, Len(signs)))]
  IN [b \in 1..Len(batches) |-> Sym(bits(batches[b]), Uniform(2^Len(batches[b])))]

\* encodeSplit3537: the first half of `count'; nothing when there is no choice.
SplitSyms(count, first) ==
  LET hi == MinOf(count, MaxPulses)  lo == MaxOf(0, count - MaxPulses) IN
  IF count = 0 \/ hi <= lo THEN <<>>
  ELSE <<Sym(first - lo, CdfWindow(SplitCmf(count), lo, hi - lo + 2))>>

RunSyms(sub) ==
  LET runs == MagRuns(sub)
      left(k) == SubfrSamples - SumOf(SubSeq(runs, 1, k - 1))
  IN [k \in 1..Len(runs) |-> Sym(runs[k], RunWindow(left(k), Len(runs) - k + 1))]

PulseSyms(pulse) ==
  LET c     == SubfrCounts(pulse)
      sum   == c[1] + c[2]
      total == sum + c[3] + c[4]
      init  == MaxOf(0, total - 2 * MaxPulses)
      bound == total - init
      halves == IF init < bound
                THEN <<Sym(sum - init, CdfWindow(SplitCmf(total), 0, bound - init + 2))>>
                ELSE <<>>
  IN <<Sym(total, PulseCount)>> \o
     IF total = 0 THEN <<>>
     ELSE halves \o SplitSyms(sum, c[1]) \o SplitSyms(total - sum, c[3])
          \o Concat([sf \in Subframes |-> RunSyms(SubfrPulses(pulse, sf))]) \o SignSyms(pulse)

GainSyms(counts, g) ==
  <<Sym(g.main, NrgresGain), Sym(g.delta, NrgresShape)>> \o
  Concat([sf \in Subframes |->
            IF counts[sf] = 0 THEN <<>>
            ELSE <<Sym(g.nrg[sf], FcbgOffset(counts[sf], GainQ(g.main, g.delta, sf)))>>])

\* The long-term gains, each from a table the last one chooses.
LtpSyms(st, counts, p) ==
  LET prevGain(sf) == IF sf = 1 THEN st.gain ELSE p.gain[sf - 1]
      used(sf) == {s \in 1..(sf - 1) : counts[s] > 0}
      prevFilt(sf) == IF used(sf) = {} THEN st.filt ELSE p.filt[Max(used(sf))]
  IN Concat([sf \in Subframes |->
       <<Sym(p.gain[sf], AcbgainRow(prevGain(sf)))>> \o
       IF counts[sf] = 0 THEN <<>>
       ELSE <<Sym(p.filt[sf], IF prevFilt(sf) = -1 THEN FcbgainV
                              ELSE FcbgainVDelta(prevFilt(sf)))>>])

\* encodeLagsWire: the contour, then the lag of each of its segments.
LagSyms(st, p, mode) ==
  LET seg  == Blocksegs[p.contour]
      ix   == Blocksegs2idx[p.contour]
      b0   == seg.blocks[1]
      at(k) == p.lags[SegStart(seg, k)]
      first == IF CloseTo(b0, st.lag) THEN <<>> ELSE <<Sym(at(1) - b0 * Blocksize, Uniform(Blocksize))>>
      steps == IF first = <<>> THEN 1 ELSE 2
      last(k) == IF k = 1 THEN st.fracLag ELSE at(k - 1)
      low(k) == seg.blocks[k] * Blocksize
  IN (IF st.lag < 0 THEN <<Sym(ix - 1, BlocksegIdx)>>
      ELSE <<Sym(b0, BlockTransition(st.lag)),
             Sym(ix - 1 - FirstblockRange(b0).lo, FirstblockWindow(b0))>>)
     \o first
     \o [k \in 1..(Len(seg.blocks) - steps + 1) |->
           LET n == k + steps - 1 IN
           Sym(at(n) - low(n), DeltaLagWindow(mode, low(n) - last(n)))]

PitchSyms(st, counts, p) ==
  LtpSyms(st, counts, p) \o
  LagSyms(st, p, LagMode(SumOf([sf \in Subframes |-> AcbgainWeight(p.gain[sf])])))

\* smplLagsPredictorAfter.
LagsPredictorAfter(p) ==
  [lag |-> Last(Blocksegs[p.contour].blocks), fracLag |-> p.lags[NumSubframes]]

\* The state after the pitch of an internal frame (smplReplayPitchState).
AfterPitch(st, counts, p) ==
  LET used == {sf \in Subframes : counts[sf] > 0} IN
  [st EXCEPT !.gain = p.gain[4],
             !.filt = IF used = {} THEN @ ELSE p.filt[Max(used)],
             !.lag = LagsPredictorAfter(p).lag, !.fracLag = LagsPredictorAfter(p).fracLag]

InternalSyms(st, intf, ip) ==
  LET adv == AdvanceLsfState(st, intf, ip.lsf.stage1)
      counts == SubfrCounts(ip.pulse)
  IN LsfSyms(st, intf, ip.lsf) \o PulseSyms(ip.pulse) \o
     IF ip.lsf.stage1 = 1 THEN PitchSyms(adv, counts, ip.pitch) ELSE GainSyms(counts, ip.gains)

AfterInternal(st, intf, ip) ==
  LET adv == AdvanceLsfState(st, intf, ip.lsf.stage1) IN
  IF ip.lsf.stage1 = 1 THEN AfterPitch(adv, SubfrCounts(ip.pulse), ip.pitch) ELSE adv

\* EncodeSmplFrame: a fresh state for every packet; the unused end of the buffer
\* is cut.  An overflow gives no frame.
EncodeSmplFrame(toc, internal) ==
  LET Step(x, f) == [e |-> EncodeAll(x.e, InternalSyms(x.st, f - 1, internal[f])),
                     st |-> AfterInternal(x.st, f - 1, internal[f])]
      Cut(e) == IF e.err THEN <<>> ELSE <<toc>> \o SubSeq(Bytes(e), 1, ConsumedLen(e))
  IN Cut(Done(Steps(Step, [e |-> NewEncoder, st |-> ZeroLsf], <<1, 2, 3>>).e))

-----------------------------------------------------------------------------
(* Reading.  Each step takes and returns the coder and the state.          *)

\* A row of symbols whose tables are known.
DecodeSyms(d, cdfs) ==
  LET Read(x, r) == [d |-> r.d, syms |-> Append(x.syms, r.sym)]
  IN Steps(LAMBDA x, cdf : Read(x, DecodeCDF(x.d, cdf)), [d |-> d, syms |-> <<>>], cdfs)

\* Faulty variant: the decoder keeps its predictors through a change of kind.
ResetOnNoMatch_Never(st, intf, stage1) == [st EXCEPT !.stage1 = stage1]

\* The decoder's own reset (in DecodeSmplLsf).
ResetOnNoMatch(st, intf, stage1) ==
  IF Matches(st, intf, stage1) THEN st
  ELSE [stage1 |-> stage1, gain |-> -1, filt |-> -1, lag |-> -1, fracLag |-> -1]

DecodeSmplLsf(d, st, intf) ==
  LET Extra(one, two, rest, extra) ==
        [d |-> extra.d, st |-> ResetOnNoMatch(st, intf, one),
         lsf |-> [stage1 |-> one, grid |-> two, stage2 |-> rest, extra |-> extra.sym]]
      Stage2(one, two, r) == Extra(one, two, r.syms, DecodeCDF(r.d, LsfExtra))
      Grid(one, r) == Stage2(one, r.sym, DecodeSyms(r.d, LsfStage2(one, r.sym)))
      Stage1(r) == Grid(r.sym, DecodeCDF(r.d, LsfGrid(Matches(st, intf, r.sym), r.sym)))
  IN Stage1(DecodeCDF(d, LsfSel(SelRow(st, intf))))

\* smplSplit3537: -1 when the halves cannot hold `count'.
Split3537(d, count) ==
  LET hi == MinOf(count, MaxPulses)  lo == MaxOf(0, count - MaxPulses) IN
  IF hi < lo THEN [d |-> d, sym |-> -1]
  ELSE IF hi = lo THEN [d |-> d, sym |-> lo]
  ELSE LET Above(r) == [d |-> r.d, sym |-> r.sym + lo]
       IN Above(DecodeCDF(d, CdfWindow(SplitCmf(count), lo, hi - lo + 2)))

\* decodePulseSubframeCounts, for four subframes.
PulseSubframeCounts(d, total) ==
  LET lo    == MaxOf(0, total - 2 * MaxPulses)
      bound == total - lo
      SplitIn2(e, count) == IF count > 0 THEN Split3537(e, count) ELSE [d |-> e, sym |-> 0]
      Halves(sum, left, right) ==
        [d |-> right.d,
         counts |-> IF left = -1 \/ right.sym = -1 THEN <<0, 0, 0, 0>>
                    ELSE <<left, sum - left, right.sym, total - sum - right.sym>>]
      Left(sum, r) == Halves(sum, r.sym, SplitIn2(r.d, total - sum))
      Outer(r) == Left(lo + r.sym, SplitIn2(r.d, lo + r.sym))
  IN Outer(IF lo < bound THEN DecodeCDF(d, CdfWindow(SplitCmf(total), 0, bound - lo + 2))
           ELSE [d |-> d, sym |-> 0])

\* The places of the pulses of one subframe: a distance of 0 repeats a place.
DecodeRuns(x, sf, count) ==
  LET Place(y, r) == [d |-> r.d, left |-> y.left - r.sym, at |-> y.at + r.sym,
                      places |-> Append(y.places, y.at + r.sym)]
  IN Steps(
        LAMBDA y, k : Place(y, DecodeCDF(y.d, RunWindow(y.left, count - k + 1))),
        [d |-> x.d, left |-> SubfrSamples, at |-> (sf - 1) * SubfrSamples + 1, places |-> x.places],
        [k \in 1..count |-> k])

\* The sign of every position, batch by batch.
DecodeSigns(d, num) ==
  LET Batch(x, n, r) ==
        [d |-> r.d,
         signs |-> x.signs \o [q \in 1..n |-> IF (r.sym \div 2^(n - q)) % 2 = 1 THEN 1 ELSE -1]]
      Sized(x, n) == Batch(x, n, DecodeRawSymbol(x.d, n))
  IN Steps(LAMBDA x, b : Sized(x, MinOf(SignBatch, num - (b - 1) * SignBatch)),
           [d |-> d, signs |-> <<>>],
           [b \in 1..((num + SignBatch - 1) \div SignBatch) |-> b])

DecodeSmplPulses(d) ==
  LET Signed(counts, places, hit, r) ==
        LET sign(n) == r.signs[Cardinality({m \in hit : m <= n})]
            mag(n) == Cardinality({k \in DOMAIN places : places[k] = n})
        IN [d |-> r.d, counts |-> counts,
            pulse |-> [n \in 1..NumSamples |-> IF n \in hit THEN sign(n) * mag(n) ELSE 0]]
      Hit(counts, e, places, hit) == Signed(counts, places, hit, DecodeSigns(e, Cardinality(hit)))
      Placed(counts, r) == Hit(counts, r.d, r.places, Range(r.places))
      Split(r) == Placed(r.counts, Steps(LAMBDA x, sf : DecodeRuns(x, sf, r.counts[sf]),
                                         [d |-> r.d, places |-> <<>>], <<1, 2, 3, 4>>))
      Total(r) == Split(IF r.sym = 0 THEN [d |-> r.d, counts |-> <<0, 0, 0, 0>>]
                        ELSE PulseSubframeCounts(r.d, r.sym))
  IN Total(DecodeCDF(d, PulseCount))

DecodeSmplGains(d, counts) ==
  LET Read(x, r) == [d |-> r.d, nrg |-> Append(x.nrg, r.sym)]
      All(main, delta, r) == [d |-> r.d, gains |-> [main |-> main, delta |-> delta, nrg |-> r.nrg]]
      Each(e, main, delta) ==
        All(main, delta,
            Steps(LAMBDA x, sf :
                    IF counts[sf] = 0 THEN [x EXCEPT !.nrg = Append(@, -1)]
                    ELSE Read(x, DecodeCDF(x.d, FcbgOffset(counts[sf], GainQ(main, delta, sf)))),
                  [d |-> e, nrg |-> <<>>], <<1, 2, 3, 4>>))
      Two(r) == Each(r.d, r.syms[1], r.syms[2])
  IN Two(DecodeSyms(d, <<NrgresGain, NrgresShape>>))

DecodeLtp(d, st, counts) ==
  LET Filter(x, r) == [d |-> r.d, st |-> [x.st EXCEPT !.filt = r.sym],
                       gain |-> x.gain, filt |-> Append(x.filt, r.sym)]
      Gain(x, r) == [d |-> r.d, st |-> [x.st EXCEPT !.gain = r.sym],
                     gain |-> Append(x.gain, r.sym), filt |-> x.filt]
      AfterGain(x, sf) ==
        IF counts[sf] = 0 THEN [x EXCEPT !.filt = Append(@, -1)]
        ELSE Filter(x, DecodeCDF(x.d, IF x.st.filt = -1 THEN FcbgainV ELSE FcbgainVDelta(x.st.filt)))
  IN Steps(LAMBDA x, sf : AfterGain(Gain(x, DecodeCDF(x.d, AcbgainRow(x.st.gain))), sf),
           [d |-> d, st |-> st, gain |-> <<>>, filt |-> <<>>], <<1, 2, 3, 4>>)

\* The contour: from all of them, or from those of the block that follows.
DecodeContour(d, st) ==
  LET From(lo, r) == [d |-> r.d, ix |-> r.sym + lo + 1]
      Block(r) == From(FirstblockRange(r.sym).lo, DecodeCDF(r.d, FirstblockWindow(r.sym)))
  IN IF st.lag < 0 THEN From(0, DecodeCDF(d, BlocksegIdx))
     ELSE Block(DecodeCDF(d, BlockTransition(st.lag)))

\* The lags: a fine one when the first block is far from the last lag, then steps.
DecodeLags(d, st, seg, mode) ==
  LET low(k) == seg.blocks[k] * Blocksize
      Put(x, k, r) == [d |-> r.d, lags |-> x.lags \o [i \in 1..seg.seglens[k] |-> low(k) + r.sym],
                       st |-> [x.st EXCEPT !.lag = seg.blocks[k], !.fracLag = low(k) + r.sym]]
      Fine(x) == Put(x, 1, Decode64FineSym(x.d))
      Step(x, k) == Put(x, k, DecodeCDF(x.d, DeltaLagWindow(mode, low(k) - x.st.fracLag)))
      start == [d |-> d, st |-> st, lags |-> <<>>]
      ks == [k \in 1..Len(seg.blocks) |-> k]
  IN IF CloseTo(seg.blocks[1], st.lag) THEN Steps(Step, start, ks)
     ELSE Steps(Step, Fine(start), Tail(ks))

DecodeSmplPitch(d, st, counts) ==
  LET Lags(ltp, contour, r) ==
        [d |-> r.d, st |-> r.st,
         pitch |-> [gain |-> ltp.gain, filt |-> ltp.filt, contour |-> contour, lags |-> r.lags]]
      mode(ltp) == LagMode(SumOf([sf \in Subframes |-> AcbgainWeight(ltp.gain[sf])]))
      Contour(ltp, e, i) == Lags(ltp, i, DecodeLags(e, ltp.st, Blocksegs[i], mode(ltp)))
      Pick(ltp, r) == Contour(ltp, r.d, CHOOSE i \in DOMAIN Blocksegs : Blocksegs2idx[i] = r.ix)
      Ltp(r) == Pick(r, DecodeContour(r.d, r.st))
  IN Ltp(DecodeLtp(d, st, counts))

\* One internal frame of decodeActiveFrame: the parameters the synthesis gets.
DecodeInternal(x, f) ==
  LET Internal(d, st, nlsf, ip) ==
        [d |-> d, st |-> st, prev |-> nlsf, out |-> Append(x.out, ip @@ [nlsf |-> nlsf])]
      WithPitch(r, nlsf, ip) == Internal(r.d, r.st, nlsf, ip @@ [pitch |-> r.pitch])
      WithGains(r, st, nlsf, ip) == Internal(r.d, st, nlsf, ip @@ [gains |-> r.gains])
      Rest(l, nlsf, p) ==
        LET ip == [lsf |-> l.lsf, pulse |-> p.pulse] IN
        IF l.lsf.stage1 = 1 THEN WithPitch(DecodeSmplPitch(p.d, l.st, p.counts), nlsf, ip)
        ELSE WithGains(DecodeSmplGains(p.d, p.counts), l.st, nlsf, ip)
      Spectrum(l) == Rest(l, Nlsf(l.lsf, x.prev), DecodeSmplPulses(l.d))
  IN Spectrum(DecodeSmplLsf(x.d, x.st, f - 1))

\* decodeActiveFrame: the state goes on from the frame before.
DecodeActiveFrame(dec, body) ==
  LET Decoded(x) == [dec |-> [st |-> x.st, prev |-> x.prev], out |-> x.out, err |-> x.d.err]
  IN Decoded(Steps(DecodeInternal,
                   [d |-> NewDecoder(body), st |-> dec.st, prev |-> dec.prev, out |-> <<>>], <<1, 2, 3>>))
=============================================================================
