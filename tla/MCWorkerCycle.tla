--------------------------- MODULE MCWorkerCycle ---------------------------
(* Values for WorkerCycle. *)
EXTENDS WorkerCycle

\* A row of a chain with everything it needs.
PhaseRow == [payload |-> "instruction", workspace |-> "inside",
             repository |-> "full", compose |-> FALSE, role |-> "phase"]

\* The other rows the program or its operator puts into the queue.
OtherRows ==
  {[PhaseRow EXCEPT !.compose = TRUE],
   [PhaseRow EXCEPT !.role = "audit"],
   [PhaseRow EXCEPT !.role = "root"],
   [PhaseRow EXCEPT !.role = "single", !.repository = "none"],
   [PhaseRow EXCEPT !.role = "single", !.repository = "none", !.workspace = "null"],
   [PhaseRow EXCEPT !.role = "single", !.repository = "branchless"],
   [PhaseRow EXCEPT !.role = "single", !.repository = "none", !.payload = "incomplete"],
   [PhaseRow EXCEPT !.role = "single", !.repository = "none", !.workspace = "null",
                    !.payload = "null"]}

\* A row that is blocked as soon as it is leased.
ShortRow == [PhaseRow EXCEPT !.role = "single", !.repository = "none",
                             !.workspace = "outside"]

\* One of the rows before a short one.
MCTables == {<<r, ShortRow>> : r \in OtherRows}
=============================================================================
