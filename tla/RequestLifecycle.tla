-------------------------- MODULE RequestLifecycle --------------------------
(***************************************************************************)
(* What the orchestration promises about a GitHub request, whatever the    *)
(* workers, rows and transactions: it goes through the phases of the flow  *)
(* in order, a rejected audit sends it back to phase 4 a bounded number of *)
(* times, only an approved audit lets it wait for a person, and only a     *)
(* person's approval merges it.                                            *)
(***************************************************************************)
EXTENDS Integers, Sequences

CONSTANTS
  Request,    \* requests, submitted or not
  Flow,       \* the phases in order
  Limit       \* how often an audit may send a request back

VARIABLE req  \* stage, phase and round of each request

Stage == {"none", "working", "stranded", "awaiting", "merged", "stopped"}

NotSubmitted == [stage |-> "none", phase |-> 0, round |-> 0]

Follows(p, q) ==
  \E i \in 1 .. Len(Flow) - 1 : Flow[i] = p /\ Flow[i + 1] = q

Init == req = [r \in Request |-> NotSubmitted]

Move(r, from, to) ==
  /\ req[r].stage = from
  /\ req' = [req EXCEPT ![r] = [@ EXCEPT !.stage = to]]

Open(r)   == Move(r, "none", "working")
Strand(r) == Move(r, "working", "stranded")
Stop(r)   == Move(r, "working", "stopped") \/ Move(r, "awaiting", "stopped")
Merge(r)  == Move(r, "awaiting", "merged")
Pass(r)   == req[r].phase = 5 /\ Move(r, "working", "awaiting")

Advance(r) ==
  /\ req[r].stage = "working"
  /\ \E q \in 0 .. 5 : /\ Follows(req[r].phase, q)
                       /\ req' = [req EXCEPT ![r] = [@ EXCEPT !.phase = q]]

Rework(r) ==
  /\ req[r].stage = "working" /\ req[r].phase = 5
  /\ req[r].round < Limit
  /\ req' = [req EXCEPT ![r] = [stage |-> "working", phase |-> 4, round |-> @.round + 1]]

Next ==
  \E r \in Request :
    \/ Open(r) \/ Strand(r) \/ Stop(r) \/ Merge(r) \/ Pass(r)
    \/ Advance(r) \/ Rework(r)

Spec == Init /\ [][Next]_req
=============================================================================
