----------------------------- MODULE H264Packet -----------------------------
(***************************************************************************)
(* H.264 over RTP (rtp/h264.go): one NAL unit into payloads that fit, and  *)
(* payloads back into NAL units.                                           *)
(*                                                                         *)
(* A NAL unit is a sequence whose first element is its header, a record    *)
(* with the type and the upper three bits (nri), and whose other elements  *)
(* are its bytes.  A payload is a record named by its form: one NAL unit   *)
(* ("single"), several ("stap"), a fragment ("fua"), or nothing known.     *)
(***************************************************************************)
EXTENDS Integers, Sequences, SequencesExt, FiniteSetsExt

CONSTANTS
  MtuPayload,           \* mtuPayloadMax
  MaxReassembly         \* maxFuReassemblyBytes

ASSUME MtuAssumption == MtuPayload \in Nat /\ MtuPayload > 2 /\ MaxReassembly \in Nat

FragSize == MtuPayload - 2

Single(nalu) == [form |-> "single", nalu |-> nalu]

\* The fragment of a body from position first, as PackageH264NALU cuts it.
Fragment(nalu, first) ==
  LET body == Tail(nalu)
      last == Min({first + FragSize - 1, Len(body)})
  IN [form |-> "fua", header |-> Head(nalu), start |-> first = 1,
      end |-> last = Len(body), body |-> SubSeq(body, first, last)]

\* Faulty variant: the fragments overlap by one byte.
PackageH264NALU_Overlaps(nalu) ==
  IF nalu = <<>> THEN <<>>
  ELSE IF Len(nalu) <= MtuPayload THEN <<Single(nalu)>>
  ELSE [i \in 1..((Len(nalu) - 1 + FragSize - 1) \div FragSize) |->
          Fragment(nalu, Max({1, (i - 1) * FragSize}))]

PackageH264NALU(nalu) ==
  IF nalu = <<>> THEN <<>>
  ELSE IF Len(nalu) <= MtuPayload THEN <<Single(nalu)>>
  ELSE [i \in 1..((Len(nalu) - 1 + FragSize - 1) \div FragSize) |->
          Fragment(nalu, (i - 1) * FragSize + 1)]

StapSize(nalus) == FoldSeq(LAMBDA n, total : total + 2 + Len(n), 1, nalus)

NoPayload == [form |-> "none"]

\* PackageH264STAPA: two or more NAL units that fit together, under the
\* highest importance among them.
PackageH264STAPA(nalus) ==
  IF \/ Len(nalus) < 2
     \/ \E i \in 1..Len(nalus) : nalus[i] = <<>>
     \/ StapSize(nalus) > MtuPayload
  THEN NoPayload
  ELSE [form |-> "stap", nri |-> Max({nalus[i][1].nri % 4 : i \in 1..Len(nalus)}),
        units |-> nalus, broken |-> FALSE]

-----------------------------------------------------------------------------
NewDepacketizer == [fuBuf |-> <<>>, fuActive |-> FALSE]

Idle(d) == [d EXCEPT !.fuActive = FALSE]

\* A start fragment begins a unit, dropping one that was not finished; any
\* other one extends the unit under way, unless it would grow too large.
AddFragment(d, p) ==
  IF p.start THEN [fuActive |-> TRUE, fuBuf |-> <<p.header>> \o p.body]
  ELSE IF ~d.fuActive THEN d
  ELSE IF Len(d.fuBuf) + Len(p.body) > MaxReassembly
    THEN [fuActive |-> FALSE, fuBuf |-> <<>>]
  ELSE [d EXCEPT !.fuBuf = @ \o p.body]

\* Depacketize: the depacketizer afterwards and the NAL units that came out.
\* A STAP-A whose last length is wrong yields the units before it.
Depacketize(d, p) ==
  CASE p.form = "single" -> [depack |-> Idle(d), nalus |-> <<p.nalu>>]
    [] p.form = "stap"   -> [depack |-> Idle(d), nalus |-> p.units]
    [] p.form = "fua"    ->
         LET next == AddFragment(d, p) IN
         IF p.end /\ next.fuActive
           THEN [depack |-> [fuActive |-> FALSE, fuBuf |-> <<>>], nalus |-> <<next.fuBuf>>]
           ELSE [depack |-> next, nalus |-> <<>>]
    [] OTHER -> [depack |-> IF p.form = "empty" THEN d ELSE Idle(d), nalus |-> <<>>]

\* A fragment without its FU header.
Truncated == [form |-> "short"]
=============================================================================
