------------------------------ MODULE SrtpRoc -------------------------------
(***************************************************************************)
(* Rollover counters of the end-to-end SRTP streams and the pipeline built *)
(* on them (srtp/e2e.go, srtp/warp.go, MediaPipeline of session.go).       *)
(*                                                                         *)
(* A 16-bit sequence number is extended to a packet index by a counter     *)
(* that neither end transmits: the sender counts wraps, the receiver       *)
(* guesses.  The cipher is a stream cipher without a tag that anybody      *)
(* verifies, so an opened packet is the payload exactly when both ends     *)
(* used the same key and the same index, and noise otherwise.              *)
(***************************************************************************)
EXTENDS RtpNumbers

CONSTANT Noise          \* what comes out of a packet opened with the wrong
                        \* key or index

\* RocTracker and RecvRocTracker have the same three fields.
NewRoc == [roc |-> 0, seq |-> 0, initialized |-> FALSE]

Seeded(t, seq) == [t EXCEPT !.seq = seq, !.initialized = TRUE]

\* Send side: the counter goes up when the number falls by more than half.
Advance(t, seq) ==
  IF ~t.initialized THEN Seeded(t, seq)
  ELSE [t EXCEPT !.seq = seq,
                 !.roc = IF seq - t.seq < -Half THEN (@ + 1) % RocMod ELSE @]

\* Faulty variant: never looks back across a wrap.
GuessRoc_NoLookBack(t, seq) ==
  IF t.initialized /\ t.seq >= Half /\ t.seq - seq > Half
    THEN (t.roc + 1) % RocMod
    ELSE t.roc

\* Receive side: the counter that brings seq nearest to the highest one seen.
GuessRoc(t, seq) ==
  IF ~t.initialized THEN t.roc
  ELSE IF t.seq < Half /\ seq - t.seq > Half THEN (t.roc + RocMod - 1) % RocMod
  ELSE IF t.seq >= Half /\ t.seq - seq > Half THEN (t.roc + 1) % RocMod
  ELSE t.roc

\* What GuessRoc leaves behind: a packet from before the wrap changes nothing.
RocAfter(t, seq) ==
  LET v == GuessRoc(t, seq) IN
  IF ~t.initialized THEN Seeded(t, seq)
  ELSE IF v = t.roc THEN [t EXCEPT !.seq = IF seq > @ THEN seq ELSE @]
  ELSE IF v = (t.roc + 1) % RocMod THEN [t EXCEPT !.roc = v, !.seq = seq]
  ELSE t

\* CryptPayload and its inverse, with the IV as <<key, ssrc, roc, seq>>.
Sealed(key, ssrc, roc, seq, payload) ==
  [key |-> key, ssrc |-> ssrc, roc |-> roc, seq |-> seq, payload |-> payload]

Opened(key, roc, packet) ==
  IF key = packet.key /\ roc = packet.roc THEN packet.payload ELSE Noise

-----------------------------------------------------------------------------
(* MediaPipeline: one direction of it is used, so a send pipeline keeps    *)
(* the key, the counter and the statistics, a receive pipeline the key and *)
(* the estimator.                                                          *)

NewSendPipe(key) ==
  [key |-> key, roc |-> NewRoc, packets |-> 0, octets |-> 0, timestamp |-> 0]

\* ProtectRTP, and ProtectAudio once it has its header.
Protect(pipe, header, size) ==
  [pipe EXCEPT !.roc = Advance(@, header.seq), !.packets = @ + 1,
               !.octets = @ + size, !.timestamp = header.timestamp]

ProtectedPacket(pipe, header, payload) ==
  Sealed(pipe.key, header.ssrc, Advance(pipe.roc, header.seq).roc, header.seq, payload)

NewRecvPipe(key) == [key |-> key, roc |-> NewRoc]

RekeyRecv(pipe, key) == [pipe EXCEPT !.key = key, !.roc = NewRoc]

\* UnprotectAudio of a well-formed packet: the number is folded in whether or
\* not the payload makes sense.
Unprotect(pipe, packet) ==
  [pipe |-> [pipe EXCEPT !.roc = RocAfter(@, packet.seq)],
   payload |-> Opened(pipe.key, GuessRoc(pipe.roc, packet.seq), packet)]
=============================================================================
