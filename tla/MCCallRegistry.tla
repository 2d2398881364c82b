--------------------------- MODULE MCCallRegistry ---------------------------
(* TLC instance of CallRegistry: two goroutines, an incoming and an        *)
(* outgoing call, three media tasks.                                       *)
EXTENDS CallRegistry, TLC

CONSTANTS t1, t2, in1, out1, k1, k2, k3

MCThreads == {t1, t2}
MCIds == {in1, out1}
MCIncoming == {in1}
MCTasks == {k1, k2, k3}
=============================================================================
