--------------------------- MODULE MCVideoControl ---------------------------
(* Instances of VideoControl for TLC.                                      *)
EXTENDS VideoControl, TLC

AppSymmetry == Permutations(Apps)
\* SetVideoEnabled(false) differs from StopVideo in its stanza only.
AllOps == Operations \ {"disable"}
\* An upgrade request of the peer changes nothing here.
AllStates == PeerStates \ {"request"}
\* A call that is upgraded, answered with state 1 and stopped.
Upgrades == {"start", "stop"}
Enabling == {"enabled"}
=============================================================================
