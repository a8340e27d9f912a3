-------------------------- MODULE PhaseOrchestrator --------------------------
(***************************************************************************)
(* What src/src/backend/phase_orchestrator.py does with the outcome of a   *)
(* phase task.  A GitHub request is a root row and a chain of phase rows;  *)
(* completing a phase row appends the row of the next phase, a rejected    *)
(* audit (phase 5) appends a new row of phase 4.                           *)
(*                                                                         *)
(* Each action below is the tail of a worker's transaction: it settles the *)
(* worker's own row t and does everything the orchestrator does for it, up *)
(* to and including the commit.                                            *)
(***************************************************************************)
EXTENDS TaskTable, Sequences, FiniteSets

CONSTANTS
  PhaseFlow,    \* payload_json.phase_flow, written by the dashboard
  ReworkLimit,  \* PhaseOrchestrator.rework_limit
  FailureEvent  \* events of a phase failure the orchestrator is told about

ASSUME PhaseOrchestratorAssumption ==
  /\ PhaseFlow \in Seq(Phase)
  /\ ReworkLimit \in Nat
  /\ FailureEvent \subseteq STRING
  /\ "none" \notin FailureEvent

TERMINAL_ROOT_STATUSES == {"succeeded", "failed", "cancelled", "blocked"}
ActiveStatuses == {"queued", "leased", "running", "waiting_approval"}

Verdict == {"approved", "rejected", "unparseable"}

\* Reasons block_root_task records, other than the event of a failed phase.
FlowFault == {"orchestration_payload_invalid", "duplicate_phase_flow",
              "phase_not_in_phase_flow", "missing_terminal_phase",
              "phase_rework_limit_exceeded", "phase5_result_unparseable"}

\* payload_json.orchestration; last_completed_phase is -1 for null.
Orchestration ==
  [current : Phase, last : Phase \cup {-1}, attempt : Nat,
   review : {"pending", "approved", "rejected"},
   failure : FailureEvent \cup FlowFault \cup {"none"}]

NewOrchestration ==
  [current |-> 0, last |-> -1, attempt |-> 0,
   review |-> "pending", failure |-> "none"]

\* list.index and the entry after it.
PhaseIndex(p) == CHOOSE i \in 1 .. Len(PhaseFlow) : PhaseFlow[i] = p
HasNextPhase(p) == PhaseIndex(p) < Len(PhaseFlow)
NextPhase(p) == PhaseFlow[PhaseIndex(p) + 1]

DuplicatePhases == Cardinality({PhaseFlow[i] : i \in DOMAIN PhaseFlow}) # Len(PhaseFlow)

(***************************************************************************)
(* Why a completed phase p cannot go on, or "none".                        *)
(***************************************************************************)
CompletionFault(p) ==
  IF PhaseFlow = <<>> THEN "orchestration_payload_invalid"
  ELSE IF DuplicatePhases THEN "duplicate_phase_flow"
  ELSE IF \A i \in DOMAIN PhaseFlow : PhaseFlow[i] # p THEN "phase_not_in_phase_flow"
  ELSE IF p # 5 /\ ~HasNextPhase(p) THEN "missing_terminal_phase"
  ELSE "none"

\* Slip: a root that is already terminal is blocked again.
BlockRootTaskAlways(t, own, reason) ==
  LET r == row[t].root
      blocked == [orch[r] EXCEPT !.current = row[t].phase, !.failure = reason]
  IN  /\ Unlocked(r)
      /\ blocked # orch[r]
      /\ status' = [status EXCEPT ![t] = own, ![r] = "blocked"]
      /\ orch' = [orch EXCEPT ![r] = blocked]

(***************************************************************************)
(* block_root_task, with the task's own row settled as `own`.  A root that *)
(* is already terminal is left alone.  update_task_payload_json reports    *)
(* the number of CHANGED rows, so writing the payload the root already has *)
(* raises TaskConsistencyError: that transaction never commits.            *)
(***************************************************************************)
BlockRootTask(t, own, reason) ==
  LET r == row[t].root
      blocked == [orch[r] EXCEPT !.current = row[t].phase, !.failure = reason]
  IN  /\ Unlocked(r)
      /\ \/ /\ status[r] \in TERMINAL_ROOT_STATUSES
            /\ status' = [status EXCEPT ![t] = own]
            /\ UNCHANGED orch
         \/ /\ status[r] \notin TERMINAL_ROOT_STATUSES
            /\ blocked # orch[r]
            /\ status' = [status EXCEPT ![t] = own, ![r] = "blocked"]
            /\ orch' = [orch EXCEPT ![r] = blocked]

\* handle_phase_blocked: the phase failed with the event e.
HandlePhaseBlocked(t, e) ==
  /\ BlockRootTask(t, "blocked", e)
  /\ why' = [why EXCEPT ![t] = e]
  /\ UNCHANGED <<n, row, lease>>

\* A phase that completes after its root became terminal changes nothing else.
IgnoreCompletion(t) ==
  /\ Unlocked(row[t].root)
  /\ status[row[t].root] \in TERMINAL_ROOT_STATUSES
  /\ status' = [status EXCEPT ![t] = "succeeded"]
  /\ UNCHANGED <<n, row, lease, orch, why>>

\* Slip: the fault is logged and the root left running.
BlockOnCompletionLogOnly(t, reason) ==
  /\ status[row[t].root] \notin TERMINAL_ROOT_STATUSES
  /\ status' = [status EXCEPT ![t] = "succeeded"]
  /\ UNCHANGED <<n, row, lease, orch, why>>

\* The phase completed, and the orchestrator blocks the root all the same.
BlockOnCompletion(t, reason) ==
  /\ status[row[t].root] \notin TERMINAL_ROOT_STATUSES
  /\ BlockRootTask(t, "succeeded", reason)
  /\ UNCHANGED <<n, row, lease, why>>

\* Slip: the new row is a child of the root.
AppendPhaseUnderRoot(t, p, payload, progress) ==
  /\ n < MaxTasks
  /\ progress # orch[row[t].root]
  /\ n' = n + 1
  /\ row' = Put(row, n + 1, [row[t] EXCEPT !.parent = row[t].root, !.phase = p, !.service = "brain"])
  /\ status' = Put([status EXCEPT ![t] = "succeeded"], n + 1, "queued")
  /\ lease' = Put(lease, n + 1, "null")
  /\ why' = Put(why, n + 1, "none")
  /\ orch' = Put([orch EXCEPT ![row[t].root] = progress], n + 1, payload)

\* Slip: the next phase is queued and the finished one is not settled.
AppendPhaseUnsettled(t, p, payload, progress) ==
  /\ n < MaxTasks
  /\ progress # orch[row[t].root]
  /\ n' = n + 1
  /\ row' = Put(row, n + 1, [row[t] EXCEPT !.parent = t, !.phase = p, !.service = "brain"])
  /\ status' = Put(status, n + 1, "queued")
  /\ lease' = Put(lease, n + 1, "null")
  /\ why' = Put(why, n + 1, "none")
  /\ orch' = Put([orch EXCEPT ![row[t].root] = progress], n + 1, payload)

(***************************************************************************)
(* INSERT of the row that follows t in its chain, in the transaction that  *)
(* settles t; payload is the new row's orchestration, progress the root's. *)
(***************************************************************************)
AppendPhase(t, p, payload, progress) ==
  /\ n < MaxTasks
  /\ progress # orch[row[t].root]
  /\ n' = n + 1
  /\ row' = Put(row, n + 1, [row[t] EXCEPT !.parent = t, !.phase = p, !.service = "brain"])
  /\ status' = Put([status EXCEPT ![t] = "succeeded"], n + 1, "queued")
  /\ lease' = Put(lease, n + 1, "null")
  /\ why' = Put(why, n + 1, "none")
  /\ orch' = Put([orch EXCEPT ![row[t].root] = progress], n + 1, payload)

\* Slip: finished rows of the next phase count as well.
ActivePhaseRowsAnyStatus(r, p) ==
  {u \in Rows : row[u].root = r /\ row[u].phase = p}

\* select_active_phase_task.
ActivePhaseRows(r, p) ==
  {u \in Rows : row[u].root = r /\ row[u].phase = p /\ status[u] \in ActiveStatuses}

(***************************************************************************)
(* A phase before the audit completed: the row of the next phase, unless   *)
(* an active row of that phase exists (then only t is settled).  The       *)
(* SELECT ... FOR UPDATE of such a row waits for its lock.                 *)
(***************************************************************************)
EnqueueNextPhase(t) ==
  LET r == row[t].root
      p == row[t].phase
      twins == ActivePhaseRows(r, NextPhase(p))
  IN  /\ Unlocked(r)
      /\ status[r] \notin TERMINAL_ROOT_STATUSES
      /\ p # 5
      /\ CompletionFault(p) = "none"
      /\ \/ /\ twins = {}
            /\ AppendPhase(t, NextPhase(p),
                 [orch[t] EXCEPT !.current = NextPhase(p)],
                 [orch[r] EXCEPT !.current = NextPhase(p), !.last = p])
         \/ /\ twins # {}
            /\ \A u \in twins : Unlocked(u)
            /\ status' = [status EXCEPT ![t] = "succeeded"]
            /\ UNCHANGED <<n, row, lease, orch, why>>

\* Slip: the verdict is not written to the root's payload.
PromoteRootUnrecorded(t) ==
  LET r == row[t].root
      outcome == IF row[r].target THEN "waiting_approval" ELSE "succeeded"
  IN  /\ Unlocked(r)
      /\ status[r] \notin TERMINAL_ROOT_STATUSES \cup {outcome}
      /\ row[t].phase = 5
      /\ status' = [status EXCEPT ![t] = "succeeded", ![r] = outcome]
      /\ orch' = [orch EXCEPT ![r].current = 5, ![r].last = 5]
      /\ UNCHANGED <<n, row, lease, why>>

\* The audit approved: a repository task waits for a person, another is done.
PromoteRoot(t) ==
  LET r == row[t].root
      outcome == IF row[r].target THEN "waiting_approval" ELSE "succeeded"
      approved == [orch[r] EXCEPT !.current = 5, !.last = 5, !.review = "approved"]
  IN  /\ Unlocked(r)
      /\ status[r] \notin TERMINAL_ROOT_STATUSES \cup {outcome}
      /\ row[t].phase = 5
      /\ CompletionFault(5) = "none"
      /\ approved # orch[r]
      /\ status' = [status EXCEPT ![t] = "succeeded", ![r] = outcome]
      /\ orch' = [orch EXCEPT ![r] = approved]
      /\ UNCHANGED <<n, row, lease, why>>

\* Slip: the limit is not looked at.
EnqueueReworkUnlimited(t) ==
  LET r == row[t].root
      attempt == orch[r].attempt + 1
  IN  /\ Unlocked(r)
      /\ status[r] \notin TERMINAL_ROOT_STATUSES
      /\ row[t].phase = 5
      /\ AppendPhase(t, 4,
           [orch[t] EXCEPT !.current = 4, !.attempt = attempt],
           [orch[r] EXCEPT !.current = 4, !.last = 5, !.review = "rejected",
                           !.attempt = attempt])

\* Slip: the new phase row keeps the round of the audit that rejected it.
EnqueueReworkSameRound(t) ==
  LET r == row[t].root
      attempt == orch[r].attempt + 1
  IN  /\ Unlocked(r)
      /\ status[r] \notin TERMINAL_ROOT_STATUSES
      /\ row[t].phase = 5
      /\ attempt =< ReworkLimit
      /\ AppendPhase(t, 4,
           [orch[t] EXCEPT !.current = 4],
           [orch[r] EXCEPT !.current = 4, !.last = 5, !.review = "rejected",
                           !.attempt = attempt])

\* Slip: the root does not count the round.
EnqueueReworkUncounted(t) ==
  LET r == row[t].root
      attempt == orch[r].attempt + 1
  IN  /\ Unlocked(r)
      /\ status[r] \notin TERMINAL_ROOT_STATUSES
      /\ row[t].phase = 5
      /\ attempt =< ReworkLimit
      /\ AppendPhase(t, 4,
           [orch[t] EXCEPT !.current = 4, !.attempt = attempt],
           [orch[r] EXCEPT !.current = 4, !.last = 5, !.review = "rejected"])

\* The audit rejected: phase 4 again, while the root's attempts last.
EnqueueRework(t) ==
  LET r == row[t].root
      attempt == orch[r].attempt + 1
  IN  /\ Unlocked(r)
      /\ status[r] \notin TERMINAL_ROOT_STATUSES
      /\ row[t].phase = 5
      /\ CompletionFault(5) = "none"
      /\ attempt =< ReworkLimit
      /\ AppendPhase(t, 4,
           [orch[t] EXCEPT !.current = 4, !.attempt = attempt],
           [orch[r] EXCEPT !.current = 4, !.last = 5, !.review = "rejected",
                           !.attempt = attempt])

\* _handle_phase5_completion.
HandlePhase5Completion(t, verdict) ==
  \/ verdict = "approved" /\ PromoteRoot(t)
  \/ verdict = "rejected" /\ EnqueueRework(t)
  \/ /\ verdict = "rejected"
     /\ CompletionFault(5) = "none"
     /\ orch[row[t].root].attempt >= ReworkLimit
     /\ BlockOnCompletion(t, "phase_rework_limit_exceeded")
  \/ /\ verdict = "unparseable"
     /\ CompletionFault(5) = "none"
     /\ BlockOnCompletion(t, "phase5_result_unparseable")

(***************************************************************************)
(* handle_phase_completion; the verdict only matters in phase 5.           *)
(***************************************************************************)
HandlePhaseCompletion(t, verdict) ==
  \/ IgnoreCompletion(t)
  \/ /\ CompletionFault(row[t].phase) # "none"
     /\ BlockOnCompletion(t, CompletionFault(row[t].phase))
  \/ EnqueueNextPhase(t)
  \/ row[t].phase = 5 /\ HandlePhase5Completion(t, verdict)
=============================================================================
