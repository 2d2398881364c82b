----------------------------- MODULE MCPlayback -----------------------------
(* Two calls whose loops may read from one player, two files and a         *)
(* microphone.                                                             *)
EXTENDS Playback

CONSTANTS c1, c2, p1, f1, f2, m1
=============================================================================
