-------------------------- MODULE MCMediaReceive ---------------------------
(***************************************************************************)
(* MediaReceive with four sequence numbers, two samples to a frame, eight  *)
(* packets, a network in which a packet is overtaken by at most one other, *)
(* and timestamps that wrap after six.                                     *)
(***************************************************************************)
EXTENDS MediaReceive

MCKinds == {"audio", "video", "appdata"}

MCLens == {2, 4}

MCBodies == {1, 3}
=============================================================================
