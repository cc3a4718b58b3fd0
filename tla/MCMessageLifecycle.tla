------------------------- MODULE MCMessageLifecycle --------------------------
(***************************************************************************)
(* Instances of MessageLifecycle for TLC.                                  *)
(***************************************************************************)
EXTENDS MessageLifecycle, TLC

CONSTANTS r1, r2, u1, u2, m1, m2, c1

MCSymmetry == Permutations(Requests) \cup Permutations(Messages)
==============================================================================
