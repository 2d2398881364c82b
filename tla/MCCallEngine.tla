---------------------------- MODULE MCCallEngine ----------------------------
(* TLC instances of CallEngine.                                            *)
EXTENDS CallEngine, TLC

CONSTANTS a1, a2, m1, m2, c1, c2

OneApp == {a1}
TwoApps == {a1, a2}
OneEntry == {m1}
TwoEntries == {m1, m2}
OneCall == {c1}
TwoCalls == {c1, c2}

\* Entries and handles are interchangeable; only safety is checked with it.
Symmetry == Permutations(TwoEntries) \cup Permutations(TwoCalls)
=============================================================================
