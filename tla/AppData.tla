------------------------------ MODULE AppData -------------------------------
(***************************************************************************)
(* Call reactions on the RTC app-data stream (appdata.go).  A reaction is  *)
(* sent Copies times under one transaction number, and the receiver        *)
(* reports each number once.  The sender keeps its lock for all copies.    *)
(***************************************************************************)
EXTENDS RtpNumbers, Sequences, FiniteSetsExt

CONSTANTS
  Copies,               \* appDataRetransmitCount
  TimestampStep         \* appDataTimestampStep

\* Nobody holds the sender's lock.
Free == [left |-> 0, emoji |-> "none"]

\* newAppDataSender; sendPacket is nil once the sender is closed.
NewAppDataSender ==
  [sendPacket |-> TRUE, sequenceNumber |-> 0, timestamp |-> 0,
   transactionID |-> 0, lock |-> Free]

Unlocked(s) == s.lock = Free

\* sendReaction up to its loop: refused without a stream.
Begin(s, emoji) ==
  [s EXCEPT !.transactionID = @ + 1, !.lock = [left |-> Copies, emoji |-> emoji]]

CopyHeader(s) ==
  [marker |-> FALSE, kind |-> "appdata", ssrc |-> "peer",
   seq |-> (s.sequenceNumber + 1) % SeqSpace,
   timestamp |-> (s.timestamp + TimestampStep) % TsMod]

\* Faulty variant: a copy that cannot be sent leaves the lock behind.
NextCopy_KeepsLock(s, ok) ==
  [s EXCEPT !.sequenceNumber = CopyHeader(s).seq, !.timestamp = CopyHeader(s).timestamp,
            !.lock = IF ~ok THEN [@ EXCEPT !.left = 0]
                     ELSE IF s.lock.left > 1 THEN [@ EXCEPT !.left = @ - 1] ELSE Free]

\* One turn of the loop; the lock goes with the last copy, or with the first
\* that cannot be sent.
NextCopy(s, ok) ==
  [s EXCEPT !.sequenceNumber = CopyHeader(s).seq, !.timestamp = CopyHeader(s).timestamp,
            !.lock = IF ok /\ s.lock.left > 1 THEN [@ EXCEPT !.left = @ - 1] ELSE Free]

CloseSender(s) == [s EXCEPT !.sendPacket = FALSE]

-----------------------------------------------------------------------------
\* Faulty variant: the number last seen is reported again.
ReceiveReaction_Again(last, reactions) ==
  LET new == {i \in 1..Len(reactions) : reactions[i].id >= last} IN
  IF new = {} THEN [last |-> last, report |-> <<>>]
  ELSE [last |-> reactions[Min(new)].id, report |-> <<reactions[Min(new)]>>]

\* appDataReceiver.receive on a decoded payload: the first reaction newer than
\* the last one reported; what follows it in the payload is not looked at.
ReceiveReaction(last, reactions) ==
  LET new == {i \in 1..Len(reactions) : reactions[i].id > last} IN
  IF new = {} THEN [last |-> last, report |-> <<>>]
  ELSE [last |-> reactions[Min(new)].id, report |-> <<reactions[Min(new)]>>]
=============================================================================
