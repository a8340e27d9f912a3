--------------------------- MODULE MCDindManager ---------------------------
(* Values for DindManager. *)
EXTENDS DindManager, TLC

CONSTANTS c1, c2, t1, t2, p1, p2, p3

DindSymmetry ==
  Permutations(Caller) \cup Permutations(Task) \cup Permutations(Port)
=============================================================================
