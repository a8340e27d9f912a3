----------------------------- MODULE Locations -----------------------------
(* Where a file or directory of the host is: the names from "/" down to it. *)
EXTENDS Naturals, Sequences

Location == Seq(STRING)

\* Path.is_relative_to.
Beneath(loc, root) ==
  Len(root) =< Len(loc) /\ SubSeq(loc, 1, Len(root)) = root
=============================================================================
