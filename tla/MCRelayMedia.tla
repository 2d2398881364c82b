---------------------------- MODULE MCRelayMedia ----------------------------
(* One answering device besides the one that was called.                   *)
EXTENDS RelayMedia

CONSTANTS d1, d2
=============================================================================
