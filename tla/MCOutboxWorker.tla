--------------------------- MODULE MCOutboxWorker ----------------------------
(***************************************************************************)
(* Instances of OutboxWorker for TLC.  MaxFaults bounds the log: an event  *)
(* is appended at most once per attempt.                                   *)
(***************************************************************************)
EXTENDS OutboxWorker, TLC

CONSTANTS i1, i2, e1, e2, e3, m1, m2

\* e1 and e2 are the creation and the edit of m1, e3 is about another message.
MCMsgOf == [e \in Events |-> IF e = e3 THEN m2 ELSE m1]

MCSymmetry == Permutations(Instances)
==============================================================================
