--------------------------- MODULE MCEventPipeline ---------------------------
(***************************************************************************)
(* Instances of EventPipeline for TLC.                                     *)
(***************************************************************************)
EXTENDS EventPipeline, TLC

CONSTANTS i1, i2, e1, e2, m1

\* e1 creates m1 and e2 edits it.
MCMsgOf == [e \in Events |-> m1]

\* At most three entries: one event published twice.
MCShortLog == Len(log) <= 3

MCSymmetry == Permutations(Instances)
==============================================================================
