----------------------------- MODULE RangeCoder -----------------------------
(***************************************************************************)
(* The range coder of MLow (mlow/rangecoder.go).  Symbols are coded to the *)
(* front of a buffer, raw bits to its back.  The widths of the code are    *)
(* parameters: 8 and 32 bits in the source.  No step overflows a word of   *)
(* CodeBits bits, so plain integers stand for them.                        *)
(***************************************************************************)
EXTENDS Integers, Sequences, SequencesExt, FiniteSetsExt

CONSTANTS
  SymBits,              \* ecSymBits, a byte of the buffer
  CodeBits,             \* ecCodeBits
  WindowSize,           \* ecWindowSize
  FineLags,             \* symbols of the fine lag, 64
  Storage               \* bytes of the buffer

ASSUME WidthAssumption ==
  /\ SymBits \in Nat \ {0} /\ CodeBits \in Nat /\ CodeBits >= 2 * SymBits
  /\ WindowSize \in Nat /\ WindowSize >= 2 * SymBits
  /\ Storage \in Nat

SymMax == 2^SymBits - 1
CodeTop == 2^(CodeBits - 1)
CodeBot == CodeTop \div 2^SymBits
CodeExtra == ((CodeBits - 2) % SymBits) + 1
CodeShift == CodeBits - SymBits - 1

\* ilog: bits of x.
Ilog(x) == Min({n \in 0..CodeBits : x < 2^n})

\* FoldLeft one step at a time: binding y makes TLC evaluate a step before the next.
Steps(Op(_, _), base, seq) ==
  FoldLeft(LAMBDA x, w : CHOOSE z \in {Op(y, w) : y \in {x}} : TRUE, base, seq)

\* A loop that runs while a condition holds, at most n times.
While(Cond(_), Body(_), n, x) ==
  Steps(LAMBDA y, i : IF Cond(y) THEN Body(y) ELSE y, x, [i \in 1..n |-> i])

Rounds == CodeBits \div SymBits + 1

-----------------------------------------------------------------------------
(* The encoder.                                                            *)

NewEncoder ==
  [front |-> <<>>, back |-> <<>>, window |-> 0, used |-> 0, rng |-> CodeTop,
   val |-> 0, ext |-> 0, rem |-> -1, err |-> FALSE]

Room(e) == Storage - Len(e.front) - Len(e.back)

WriteFront(e, bytes) ==
  [e EXCEPT !.front = @ \o SubSeq(bytes, 1, Min({Room(e), Len(bytes)})),
            !.err = @ \/ Len(bytes) > Room(e)]

\* writeByteAtEnd: the first byte written is the last of the buffer.
WriteBack(e, byte) ==
  IF Room(e) > 0 THEN [e EXCEPT !.back = <<byte>> \o @] ELSE [e EXCEPT !.err = TRUE]

\* Faulty variant: the bytes held back are written as they were.
CarryOut_NoRipple(e, c) ==
  IF c = SymMax THEN [e EXCEPT !.ext = @ + 1]
  ELSE LET carry == c \div 2^SymBits
           held  == [i \in 1..e.ext |-> SymMax]
       IN [WriteFront(e, (IF e.rem >= 0 THEN <<e.rem + carry>> ELSE <<>>) \o held)
             EXCEPT !.rem = c % 2^SymBits, !.ext = 0]

\* A byte that is all ones is held back: a carry may still ripple through it.
CarryOut(e, c) ==
  IF c = SymMax THEN [e EXCEPT !.ext = @ + 1]
  ELSE LET carry == c \div 2^SymBits
           held  == [i \in 1..e.ext |-> (SymMax + carry) % 2^SymBits]
       IN [WriteFront(e, (IF e.rem >= 0 THEN <<e.rem + carry>> ELSE <<>>) \o held)
             EXCEPT !.rem = c % 2^SymBits, !.ext = 0]

EncNormalize(e) ==
  While(LAMBDA x : x.rng <= CodeBot,
        LAMBDA x : [CarryOut(x, x.val \div 2^CodeShift)
                      EXCEPT !.val = (x.val * 2^SymBits) % CodeTop,
                             !.rng = x.rng * 2^SymBits],
        Rounds, e)

\* The interval [low, low + size) of the current range is taken.
Narrow(e, low, size) == EncNormalize([e EXCEPT !.val = @ + low, !.rng = size])

Encode(e, fl, fh, ft) ==
  IF ft = 0 THEN [e EXCEPT !.err = TRUE]
  ELSE LET r == e.rng \div ft IN
       IF fl > 0 THEN Narrow(e, e.rng - r * (ft - fl), r * (fh - fl))
       ELSE Narrow(e, 0, e.rng - r * (ft - fh))

EncodeCDF(e, s, cdf) ==
  IF Len(cdf) < 2 \/ s \notin 0..(Len(cdf) - 2) \/ Last(cdf) <= cdf[1]
    THEN [e EXCEPT !.err = TRUE]
    ELSE Encode(e, cdf[s + 1] - cdf[1], cdf[s + 2] - cdf[1], Last(cdf) - cdf[1])

\* Raw bits: the window goes out when they no longer fit.
FlushWindow(e) ==
  While(LAMBDA x : x.used >= SymBits,
        LAMBDA x : [WriteBack(x, x.window % 2^SymBits)
                      EXCEPT !.window = @ \div 2^SymBits, !.used = @ - SymBits],
        WindowSize \div SymBits, e)

EncBitsN(e, bits, n) ==
  LET f == IF e.used + n > WindowSize THEN FlushWindow(e) ELSE e IN
  [f EXCEPT !.window = @ + bits * 2^f.used, !.used = @ + n]

\* Done: the shortest code inside the range, then what the carry and the window
\* hold back, and zeros between the two ends.
Done(e) ==
  LET l0   == CodeBits - Ilog(e.rng)
      Up(n) == LET unit == CodeTop \div 2^n IN ((e.val + unit - 1) \div unit) * unit
      l    == IF Up(l0) + CodeTop \div 2^l0 - 1 >= e.val + e.rng THEN l0 + 1 ELSE l0
      coded == While(LAMBDA x : x.left > 0,
                     LAMBDA x : [e |-> CarryOut(x.e, x.end \div 2^CodeShift),
                                 end |-> (x.end * 2^SymBits) % CodeTop,
                                 left |-> x.left - SymBits],
                     Rounds, [e |-> e, end |-> Up(l), left |-> l]).e
      carried == IF coded.rem >= 0 \/ coded.ext > 0 THEN CarryOut(coded, 0) ELSE coded
      flushed == FlushWindow(carried)
  IN IF flushed.err \/ flushed.used = 0 THEN flushed
     ELSE IF Room(flushed) = 0 THEN [flushed EXCEPT !.err = TRUE]
     ELSE flushed

\* The buffer, where the bits that do not fill a byte share one with the zeros.
Bytes(e) ==
  LET gap == [i \in 1..Room(e) |-> IF i = Room(e) THEN e.window ELSE 0] IN
  e.front \o gap \o e.back

ConsumedLen(e) == Len(e.front) + Len(e.back)

-----------------------------------------------------------------------------
(* The decoder.  Past either end it reads zeros.                           *)

ByteAt(buf, i) == IF i \in 1..Len(buf) THEN buf[i] ELSE 0

DecNormalize(d) ==
  While(LAMBDA x : x.rng <= CodeBot,
        LAMBDA x :
          LET byte == ByteAt(x.buf, x.offs + 1)
              sym  == (x.rem * 2^SymBits + byte) \div 2^(SymBits - CodeExtra)
          IN [x EXCEPT !.rng = @ * 2^SymBits, !.rem = byte, !.offs = @ + 1,
                       !.val = (@ * 2^SymBits + SymMax - (sym % 2^SymBits)) % CodeTop],
        Rounds, d)

NewDecoder(buf) ==
  LET byte == ByteAt(buf, 1) IN
  DecNormalize([buf |-> buf, offs |-> 1, endOffs |-> 0, window |-> 0, available |-> 0,
                rng |-> 2^CodeExtra, rem |-> byte, ext |-> 0, err |-> FALSE,
                val |-> 2^CodeExtra - 1 - byte \div 2^(SymBits - CodeExtra)])

\* The size of one step of the distribution; a range too small for it is an
\* error that sticks.
Scaled(d, ext) ==
  IF ext = 0 THEN [d EXCEPT !.err = TRUE, !.ext = 1] ELSE [d EXCEPT !.ext = ext]

\* Decode: the cumulative frequency of the next symbol.
Frequency(d, ft) ==
  IF d.rng \div ft = 0 THEN 0 ELSE ft - Min({d.val \div d.ext + 1, ft})

Update(d, fl, fh, ft) ==
  LET s == d.ext * (ft - fh) IN
  DecNormalize([d EXCEPT !.val = @ - s,
                         !.rng = IF fl > 0 THEN d.ext * (fh - fl) ELSE @ - s])

\* A uniform symbol out of ft.
DecodeUniform(d, ft) ==
  LET x == Scaled(d, d.rng \div ft)  s == Frequency(x, ft) IN
  [d |-> Update(x, s, s + 1, ft), sym |-> s]

DecodeRawSymbol(d, nbits) == DecodeUniform(d, 2^nbits)

Decode64FineSym(d) == DecodeUniform(d, FineLags)

DecodeCDF(d, cdf) ==
  IF Len(cdf) < 2 \/ Last(cdf) <= cdf[1] THEN [d |-> [d EXCEPT !.err = TRUE], sym |-> 0]
  ELSE LET ft == Last(cdf) - cdf[1]
           x  == Scaled(d, d.rng \div ft)
           f  == cdf[1] + Frequency(x, ft)
           k  == Min({i \in 1..(Len(cdf) - 1) : cdf[i + 1] > f})
       IN [d |-> Update(x, cdf[k] - cdf[1], cdf[k + 1] - cdf[1], ft), sym |-> k - 1]

\* Raw bits: the window is filled from the back before it runs short.
DecBitsN(d, n) ==
  LET full == IF d.available >= n THEN d
              ELSE While(LAMBDA x : x.available <= WindowSize - SymBits,
                         LAMBDA x : [x EXCEPT
                           !.window = @ + ByteAt(x.buf, Len(x.buf) - x.endOffs) * 2^x.available,
                           !.endOffs = @ + 1, !.available = @ + SymBits],
                         WindowSize \div SymBits, d)
  IN [d |-> [full EXCEPT !.window = @ \div 2^n, !.available = @ - n],
      sym |-> full.window % 2^n]
=============================================================================
