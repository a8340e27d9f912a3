--------------------------- MODULE MCLibrarianWal ---------------------------
(* Values for LibrarianWal. *)
EXTENDS LibrarianWal, TLC

CONSTANTS s1, s2, e1, e2

WalSymmetry == Permutations({s1, s2}) \cup Permutations({e1, e2})
=============================================================================
