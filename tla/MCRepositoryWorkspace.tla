----------------------- MODULE MCRepositoryWorkspace -----------------------
(***************************************************************************)
(* Values of the constants of RepositoryWorkspace for TLC.                 *)
(***************************************************************************)
EXTENDS RepositoryWorkspace, TLC

CONSTANTS w1, w2, a1, a2   \* worker processes, approving requests

\* Phase 4 is the one a rejected audit sends a request back to.
ShortFlow == <<4, 5>>

\* Approving requests are interchangeable.
ApproverSymmetry == Permutations({a1, a2})
=============================================================================
