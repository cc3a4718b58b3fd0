------------------------ MODULE MCConnectionManager -------------------------
(***************************************************************************)
(* Instances of ConnectionManager for TLC: two tabs of a user on one       *)
(* instance, and one on another.                                           *)
(***************************************************************************)
EXTENDS ConnectionManager, TLC

CONSTANTS i1, i2, u1, c1, c2, c3, v1, v2

MCUserOf == [c \in Conns |-> u1]

MCInstanceOf == [c \in Conns |-> IF c = c3 THEN i2 ELSE i1]

MCSymmetry == Permutations(Conns \ {c3}) \cup Permutations(Conversations)
==============================================================================
