--------------------------- MODULE RtcpReception ----------------------------
(***************************************************************************)
(* RtcpReceptionStats (rtp/rtcp.go): what this end reports about one       *)
(* inbound stream.  The receive loop observes packets, the report ticker   *)
(* takes snapshots; both hold the lock for the whole operation.            *)
(*                                                                         *)
(* Counts stay far below 2^32 and the report's 24-bit field, so neither    *)
(* wraps nor saturates here; sequence numbers wrap.  The jitter estimate   *)
(* and the time of the last sender report are measurements no other part   *)
(* depends on: they are left out.                                          *)
(***************************************************************************)
EXTENDS RtpNumbers

NoReport == [ssrc |-> 0]

NewReception ==
  [ssrc |-> 0, hasSsrc |-> FALSE, base |-> 0, max |-> 0, cycles |-> 0,
   received |-> 0, expectedPrior |-> 0, receivedPrior |-> 0]

\* A new source: all counts start over.
NewSource(ssrc, seq) ==
  [NewReception EXCEPT !.ssrc = ssrc, !.hasSsrc = TRUE, !.base = seq, !.max = seq,
                       !.received = 1]

\* Faulty variant: every wrap of the number counts as a cycle, late or not.
SameSource_LateCounts(s, seq) ==
  LET delta == (seq - s.max) % SeqSpace IN
  [s EXCEPT !.received = @ + 1,
            !.cycles = IF seq < s.max THEN @ + SeqSpace ELSE @,
            !.max = IF delta # 0 /\ delta < Half THEN seq ELSE @]

SameSource(s, seq) ==
  LET delta == (seq - s.max) % SeqSpace
      ahead == delta # 0 /\ delta < Half
  IN [s EXCEPT !.received = @ + 1,
               !.cycles = IF ahead /\ seq < s.max THEN @ + SeqSpace ELSE @,
               !.max = IF ahead THEN seq ELSE @]

Abs(x) == IF x < 0 THEN -x ELSE x

Observe(s, ssrc, seq) ==
  IF s.hasSsrc /\ s.ssrc = ssrc THEN SameSource(s, seq) ELSE NewSource(ssrc, seq)

Expected(s) == s.cycles + s.max - s.base + 1

\* Lost out of expected, in 256ths, saturating at 255; duplicates can make
\* the interval's loss negative.
FractionLost(expected, received) ==
  LET lost == expected - received IN
  IF expected = 0 \/ lost <= 0 THEN 0
  ELSE IF (lost * 256) \div expected > 255 THEN 255 ELSE (lost * 256) \div expected

Report(s) ==
  IF ~s.hasSsrc THEN NoReport
  ELSE [ssrc |-> s.ssrc,
        fraction |-> FractionLost(Expected(s) - s.expectedPrior, s.received - s.receivedPrior),
        cumulative |-> Expected(s) - s.received,
        highest |-> s.cycles + s.max]

AfterReport(s) ==
  IF ~s.hasSsrc THEN s
  ELSE [s EXCEPT !.expectedPrior = Expected(s), !.receivedPrior = s.received]
=============================================================================
