----------------------------- MODULE TaskBackend -----------------------------
(***************************************************************************)
(* Everything that writes the tasks table: the worker processes            *)
(* (src/src/backend/task_backend.py driven by src/scripts/                 *)
(* service_runner.py) and the requests of the dashboard                    *)
(* (src/src/security/dashboard.py).                                        *)
(*                                                                         *)
(* A worker runs one task in ONE database transaction: Lease takes the row *)
(* lock, and the transaction ends either in one of the Fail... / Complete..*)
(* actions, which commit, or in Rollback.                                  *)
(***************************************************************************)
EXTENDS PhaseOrchestrator, TaskStateMachine

CONSTANTS
  MaxRequests,     \* bound: rows inserted from outside (roots, plain, bare)
  PlainTasks,      \* are requests without a GitHub repository submitted?
  BareRows,        \* do rows with a NULL payload get inserted?
  BlockedRecovery  \* is recover_blocked_tasks used?

ASSUME TaskBackendAssumption ==
  /\ MaxRequests \in Nat
  /\ {PlainTasks, BareRows, BlockedRecovery} \subseteq BOOLEAN
  /\ {"llm_generation_failed", "approval_failed", "task_rejected",
      "artifact_apply_deprecated"} \cap FailureEvent = {}

vars == <<n, row, status, lease, orch, why, job, approving>>

Init ==
  /\ n = 0
  /\ row = <<>> /\ status = <<>> /\ lease = <<>> /\ orch = <<>> /\ why = <<>>
  /\ job = [w \in Worker |-> 0]
  /\ approving = {}

-----------------------------------------------------------------------------
(* Requests of the dashboard, and rows inserted by hand.                   *)

Requests == {t \in Rows : row[t].kind # "phase"}

NewRow(kind, parent, root, service, priority, target) ==
  [kind |-> kind, parent |-> parent, root |-> root, phase |-> 0,
   service |-> service, priority |-> priority, target |-> target]

\* A request for a GitHub repository: the root row and the row of phase 0.
SubmitRequest(s, p) ==
  LET r == n + 1
  IN  /\ Cardinality(Requests) < MaxRequests
      /\ n + 2 =< MaxTasks
      /\ n' = n + 2
      /\ row' = Put(Put(row, r, NewRow("root", 0, r, s, p, TRUE)),
                    r + 1, NewRow("phase", r, r, s, p, TRUE))
      /\ status' = Put(Put(status, r, "running"), r + 1, "queued")
      /\ lease' = Put(Put(lease, r, "null"), r + 1, "null")
      /\ orch' = Put(Put(orch, r, NewOrchestration), r + 1, NewOrchestration)
      /\ why' = Put(Put(why, r, "none"), r + 1, "none")
      /\ UNCHANGED <<job, approving>>

\* One queued row that is its own root.
SubmitSingle(kind, s, p) ==
  LET t == n + 1
  IN  /\ Cardinality(Requests) < MaxRequests
      /\ t =< MaxTasks
      /\ n' = t
      /\ row' = Put(row, t, NewRow(kind, 0, t, s, p, FALSE))
      /\ status' = Put(status, t, "queued")
      /\ lease' = Put(lease, t, "null")
      /\ orch' = Put(orch, t, NewOrchestration)
      /\ why' = Put(why, t, "none")
      /\ UNCHANGED <<job, approving>>

SubmitPlain(s, p) == PlainTasks /\ SubmitSingle("plain", s, p)
InsertBare(s, p)  == BareRows /\ SubmitSingle("bare", s, p)

-----------------------------------------------------------------------------
(* A worker's transaction.                                                 *)

\* select_next_queued_task, atomic_lease, mark_task_running: uncommitted.
LeaseNext(w) ==
  /\ job[w] = 0
  /\ \E t \in NextQueued(ServiceOf[w]) : job' = [job EXCEPT ![w] = t]
  /\ UNCHANGED <<n, row, status, lease, orch, why, approving>>

Done(w) == job' = [job EXCEPT ![w] = 0] /\ UNCHANGED approving

\* An exception, a crash of the process or a lost connection.
Rollback(w) ==
  /\ job[w] # 0
  /\ Done(w)
  /\ UNCHANGED <<n, row, status, lease, orch, why>>

\* Blocked in its workspace, compose file, instruction, commit or push.
FailPhase(w) ==
  /\ job[w] # 0
  /\ row[job[w]].kind = "phase"
  /\ \E e \in FailureEvent : HandlePhaseBlocked(job[w], e)
  /\ Done(w)

\* The worker's own row is blocked and the orchestrator is not involved.
BlockAlone(w, e) ==
  /\ status' = [status EXCEPT ![job[w]] = "blocked"]
  /\ why' = [why EXCEPT ![job[w]] = e]
  /\ Done(w)
  /\ UNCHANGED <<n, row, lease, orch>>

\* The except clause of _generate_task_result: any LLM or artifact error.
FailGeneration(w) ==
  /\ job[w] # 0
  /\ row[job[w]].kind # "bare"
  /\ BlockAlone(w, "llm_generation_failed")

\* The same failures as FailPhase for a row that is in no chain.
FailSingle(w) ==
  /\ job[w] # 0
  /\ row[job[w]].kind \in {"plain", "root"}
  /\ \E e \in FailureEvent : BlockAlone(w, e)

\* A phase ran to its end: no changes, or committed and pushed, or audited.
CompletePhase(w) ==
  /\ job[w] # 0
  /\ row[job[w]].kind = "phase"
  /\ \E v \in Verdict : HandlePhaseCompletion(job[w], v)
  /\ Done(w)

(***************************************************************************)
(* A row in no chain ran to its end.  Only roots carry approval_required   *)
(* and a target repository, and only recover_blocked_tasks queues a root.  *)
(***************************************************************************)
CompleteSingle(w) ==
  /\ job[w] # 0
  /\ row[job[w]].kind \in {"plain", "root"}
  /\ status' = [status EXCEPT ![job[w]] =
       IF row[job[w]].target THEN "waiting_approval" ELSE "succeeded"]
  /\ Done(w)
  /\ UNCHANGED <<n, row, lease, orch, why>>

(***************************************************************************)
(* Without a payload there is nothing to run: the row is committed running.*)
(* Only here does the lease matter: every other row keeps the one it was   *)
(* given, but recovery looks at no row that has left `running`.            *)
(***************************************************************************)
LeaveRunning(w) ==
  /\ job[w] # 0
  /\ row[job[w]].kind = "bare"
  /\ status' = [status EXCEPT ![job[w]] = "running"]
  /\ lease' = [lease EXCEPT ![job[w]] = "live"]
  /\ Done(w)
  /\ UNCHANGED <<n, row, orch, why>>

Finish(w) ==
  \/ FailPhase(w)
  \/ FailGeneration(w)
  \/ FailSingle(w)
  \/ CompletePhase(w)
  \/ CompleteSingle(w)
  \/ LeaveRunning(w)

-----------------------------------------------------------------------------
(* Recovery.                                                               *)

\* CURRENT_TIMESTAMP passes lease_expires_at.
ExpireLease(t) ==
  /\ lease[t] = "live"
  /\ lease' = [lease EXCEPT ![t] = "expired"]
  /\ UNCHANGED <<n, row, status, orch, why, job, approving>>

\* Between two cycles: every expired row of the service is queued again.
RecoverExpired(w) ==
  LET expired == ExpiredRows(ServiceOf[w])
  IN  /\ job[w] = 0
      /\ expired # {}
      /\ status' = [t \in Rows |-> IF t \in expired THEN "queued" ELSE status[t]]
      /\ lease' = [t \in Rows |-> IF t \in expired THEN "null" ELSE lease[t]]
      /\ UNCHANGED <<n, row, orch, why, job, approving>>

\* recover_blocked_tasks with all health checks true: one UPDATE, every row.
RecoverBlocked ==
  LET blocked == {t \in Rows : status[t] = "blocked"}
  IN  /\ BlockedRecovery
      /\ blocked # {}
      /\ status' = [t \in Rows |-> IF t \in blocked THEN "queued" ELSE status[t]]
      /\ UNCHANGED <<n, row, lease, orch, why, job, approving>>

-----------------------------------------------------------------------------
(* The decision of a person.                                               *)

\* POST .../approve: the row stays locked while git merges.
BeginApproval(t) ==
  /\ status[t] = "waiting_approval"
  /\ row[t].target
  /\ Unlocked(t)
  /\ approving' = approving \cup {t}
  /\ UNCHANGED <<n, row, status, lease, orch, why, job>>

EndApproval(t) ==
  /\ t \in approving
  /\ approving' = approving \ {t}

ApproveMerged(t) ==
  /\ EndApproval(t)
  /\ status' = [status EXCEPT ![t] = "succeeded"]
  /\ UNCHANGED <<n, row, lease, orch, why, job>>

ApproveFailed(t) ==
  /\ EndApproval(t)
  /\ status' = [status EXCEPT ![t] = "blocked"]
  /\ why' = [why EXCEPT ![t] = "approval_failed"]
  /\ UNCHANGED <<n, row, lease, orch, job>>

\* A branch is missing or not allowed, or the request dies: nothing commits.
ApproveAbandoned(t) ==
  /\ EndApproval(t)
  /\ UNCHANGED <<n, row, status, lease, orch, why, job>>

\* Slip: the row is not checked to be waiting.
BlockWaitingUnchecked(t, e) ==
  /\ Unlocked(t)
  /\ status' = [status EXCEPT ![t] = "blocked"]
  /\ why' = [why EXCEPT ![t] = e]
  /\ UNCHANGED <<n, row, lease, orch, job, approving>>

\* POST .../reject and apply_artifact_for_task block a waiting row.
BlockWaiting(t, e) ==
  /\ status[t] = "waiting_approval"
  /\ Unlocked(t)
  /\ status' = [status EXCEPT ![t] = "blocked"]
  /\ why' = [why EXCEPT ![t] = e]
  /\ UNCHANGED <<n, row, lease, orch, job, approving>>

Reject(t) == BlockWaiting(t, "task_rejected")
ApplyArtifact(t) == BlockWaiting(t, "artifact_apply_deprecated")

-----------------------------------------------------------------------------

Next ==
  \/ \E s \in Service, p \in Priority :
       SubmitRequest(s, p) \/ SubmitPlain(s, p) \/ InsertBare(s, p)
  \/ \E w \in Worker :
       LeaseNext(w) \/ Rollback(w) \/ Finish(w) \/ RecoverExpired(w)
  \/ RecoverBlocked
  \/ \E t \in Rows :
       \/ ExpireLease(t)
       \/ BeginApproval(t) \/ ApproveMerged(t) \/ ApproveFailed(t)
       \/ ApproveAbandoned(t) \/ Reject(t) \/ ApplyArtifact(t)

Spec == Init /\ [][Next]_vars

(***************************************************************************)
(* Every worker polls for ever (service_runner.py loops until it is told   *)
(* to stop), and recovers expired rows in each cycle before it looks at    *)
(* the queue; a task whose cycles fail is retried, and does not fail in    *)
(* that way for ever; the clock advances.  Nothing obliges a person to     *)
(* submit, approve or reject.                                              *)
(***************************************************************************)
Fairness ==
  /\ \A w \in Worker : /\ WF_vars(LeaseNext(w))
                       /\ SF_vars(Finish(w))
                       /\ SF_vars(RecoverExpired(w))
  /\ \A t \in 1 .. MaxTasks :
       WF_vars(t \in Rows /\ ExpireLease(t))

FairSpec == Spec /\ Fairness

-----------------------------------------------------------------------------
(* Properties.                                                             *)

TypeOK ==
  /\ n \in 0 .. MaxTasks
  /\ row \in [Rows -> Row]
  /\ status \in [Rows -> Status]
  /\ lease \in [Rows -> Lease]
  /\ orch \in [Rows -> Orchestration]
  /\ why \in [Rows -> FailureEvent \cup
             {"none", "llm_generation_failed", "approval_failed",
              "task_rejected", "artifact_apply_deprecated"}]
  /\ job \in [Worker -> Rows \cup {0}]
  /\ approving \subseteq Rows

IsRoot(t)  == row[t].kind = "root"
IsPhase(t) == row[t].kind = "phase"

\* t is the last row of its request's chain.
Newest(t) == IsPhase(t) /\ \A u \in Rows : IsPhase(u) /\ row[u].root = row[t].root => u =< t

(***************************************************************************)
(* No two open transactions work on one row, and a row keeps the status it *)
(* was leased with until the transaction that leased it ends: neither      *)
(* another worker, lease recovery nor a dashboard request gets at it.      *)
(***************************************************************************)
LeaseExclusive ==
  \A w \in Worker : job[w] # 0 =>
    /\ status[job[w]] = "queued"
    /\ job[w] \notin approving
    /\ \A v \in Worker : job[v] = job[w] => v = w

(***************************************************************************)
(* A request never has two phases in progress: every phase row but the     *)
(* last one has succeeded (crashes, retries, rework and recovery of        *)
(* blocked rows included).                                                 *)
(***************************************************************************)
OnlyNewestUnfinished ==
  \A t \in Rows : IsPhase(t) /\ ~Newest(t) => status[t] = "succeeded"

\* The root's payload says of the request what its phase row t is.
MirroredBy(t) ==
  /\ orch[row[t].root].current = row[t].phase
  /\ orch[row[t].root].attempt = orch[t].attempt
  /\ orch[t].attempt =< ReworkLimit

(***************************************************************************)
(* What the root's payload says of the request is what its last phase row  *)
(* is: the phase it is in and the audit round, within the rework limit.    *)
(***************************************************************************)
RootMirrorsChain == \A t \in Rows : Newest(t) => MirroredBy(t)

\* Phase row t is the first of its request or continues the row p.
Continues(t, p) ==
  \/ p = row[t].root /\ row[t].phase = 0 /\ orch[t].attempt = 0
  \/ /\ p \in Rows /\ IsPhase(p) /\ p < t
     /\ row[p].root = row[t].root
     /\ status[p] = "succeeded"
     /\ \/ /\ row[p].phase # 5
           /\ row[t].phase = NextPhase(row[p].phase)
           /\ orch[t].attempt = orch[p].attempt
        \/ /\ row[p].phase = 5 /\ row[t].phase = 4
           /\ orch[t].attempt = orch[p].attempt + 1

(***************************************************************************)
(* Each phase row continues a finished one: phase 0 follows the root, any  *)
(* other phase the one before it in the flow and in the same round, and    *)
(* phase 4 also follows an audit, in the next round.                       *)
(***************************************************************************)
ChainOrder == \A t \in Rows : IsPhase(t) => Continues(t, row[t].parent)

(***************************************************************************)
(* A phase runs once per round: completing a phase twice, in any           *)
(* interleaving, does not generate the next phase twice.                   *)
(***************************************************************************)
PhaseRunOnce ==
  \A t, u \in Rows :
    /\ IsPhase(t) /\ IsPhase(u) /\ row[t].root = row[u].root
    /\ row[t].phase = row[u].phase /\ orch[t].attempt = orch[u].attempt
    => t = u

(***************************************************************************)
(* A request waits for a person, or has been merged, only after an audit   *)
(* approved the last thing that was done to it.                            *)
(***************************************************************************)
ApprovalGate ==
  \A r \in Rows : IsRoot(r) /\ status[r] \in {"waiting_approval", "succeeded"} =>
    /\ orch[r].review = "approved"
    /\ \A t \in Rows : Newest(t) /\ row[t].root = r =>
         row[t].phase = 5 /\ status[t] = "succeeded"

(***************************************************************************)
(* A root that is running has a phase row in progress or one that an LLM   *)
(* failure blocked (_generate_task_result does not tell the orchestrator): *)
(* nothing else strands a request.                                         *)
(***************************************************************************)
RunningRootExplained ==
  \A r \in Rows : IsRoot(r) /\ status[r] = "running" =>
    \E t \in Rows : /\ Newest(t) /\ row[t].root = r
                    /\ \/ status[t] = "queued"
                       \/ status[t] = "blocked" /\ why[t] = "llm_generation_failed"

(***************************************************************************)
(* phase6-orchestration-design.md asks that a request whose phase failed   *)
(* is blocked, so that no running root is without a phase in progress.     *)
(***************************************************************************)
NoStrandedRoot ==
  \A r \in Rows : IsRoot(r) /\ status[r] = "running" =>
    \E t \in Rows : IsPhase(t) /\ row[t].root = r /\ status[t] \in ActiveStatuses

(***************************************************************************)
(* What is decided stays decided: whatever its phase rows still do, the    *)
(* progress a terminal root records is never rewritten and its status only *)
(* changes if blocked rows are queued again; nor does a phase that         *)
(* succeeded.                                                              *)
(***************************************************************************)
DecidedStaysDecided ==
  [][\A t \in Rows :
       /\ IsRoot(t) /\ status[t] \in TERMINAL_ROOT_STATUSES =>
            /\ orch'[t] = orch[t]
            /\ \/ status'[t] = status[t]
               \/ BlockedRecovery /\ status[t] = "blocked" /\ status'[t] = "queued"
       /\ IsPhase(t) /\ status[t] = "succeeded" => status'[t] = "succeeded"]_vars

(***************************************************************************)
(* The transaction that finishes a phase of a running request also hands   *)
(* it over: to a new phase row, to a person, or to blocked.  There is no   *)
(* committed state in between for a crash to leave behind.                 *)
(***************************************************************************)
HandOver ==
  [][\A t \in Rows :
       IsPhase(t) /\ status[t] # "succeeded" /\ status'[t] = "succeeded"
       /\ status[row[t].root] = "running" =>
         \/ status'[row[t].root] # "running"
         \/ /\ n' = n + 1
            /\ row'[n'].parent = t /\ status'[n'] = "queued"]_vars

(***************************************************************************)
(* Every status change another transaction can see is one the state        *)
(* machine allows.                                                         *)
(***************************************************************************)
OnlyAllowedTransitions ==
  [][\A t \in Rows : status'[t] # status[t] =>
       CommittedTransition(status[t], status'[t])]_vars

(***************************************************************************)
(* A row left running whose lease has run out does not stay so for ever.   *)
(***************************************************************************)
Zombie(t) == t \in Rows /\ status[t] = "running" /\ lease[t] = "expired"

ZombiesRequeued == \A t \in 1 .. MaxTasks : Zombie(t) ~> ~Zombie(t)

(***************************************************************************)
(* Every request leaves `running`, or loses a phase to an LLM failure.     *)
(***************************************************************************)
InProgress(r) ==
  /\ r \in Rows /\ IsRoot(r) /\ status[r] = "running"
  /\ \A t \in Rows : Newest(t) /\ row[t].root = r => why[t] # "llm_generation_failed"

RequestSettles == \A r \in 1 .. MaxTasks : InProgress(r) ~> ~InProgress(r)

(***************************************************************************)
(* The rows of a request, read as its lifecycle: this module implements    *)
(* RequestLifecycle.                                                       *)
(***************************************************************************)
StageOf(r) ==
  CASE status[r] = "running" ->
         IF \E t \in Rows : Newest(t) /\ row[t].root = r /\ status[t] = "blocked"
         THEN "stranded" ELSE "working"
    [] status[r] = "waiting_approval" -> "awaiting"
    [] status[r] = "succeeded" -> "merged"
    [] OTHER -> "stopped"

Lifecycle(r) ==
  IF r \in Rows /\ IsRoot(r)
  THEN [stage |-> StageOf(r), phase |-> orch[r].current, round |-> orch[r].attempt]
  ELSE [stage |-> "none", phase |-> 0, round |-> 0]

RL == INSTANCE RequestLifecycle
        WITH Request <- 1 .. MaxTasks, Flow <- PhaseFlow, Limit <- ReworkLimit,
             req <- [r \in 1 .. MaxTasks |-> Lifecycle(r)]

\* Every behaviour of the rows is a behaviour the lifecycle allows.
ImplementsLifecycle == RL!Spec
=============================================================================
