----------------------------- MODULE RtpNumbers -----------------------------
(***************************************************************************)
(* The wrapping numbers of RTP and SRTP, with their moduli as parameters.  *)
(***************************************************************************)
EXTENDS Integers

CONSTANTS
  SeqSpace,             \* values of a sequence number (2^16)
  RocMod,               \* values of a rollover counter (2^32)
  TsMod                 \* values of an RTP timestamp (2^32)

ASSUME NumbersAssumption ==
  /\ SeqSpace \in Nat /\ SeqSpace > 2 /\ SeqSpace % 2 = 0
  /\ RocMod \in Nat /\ RocMod > 2
  /\ TsMod \in Nat /\ TsMod > 0

Half == SeqSpace \div 2
=============================================================================
