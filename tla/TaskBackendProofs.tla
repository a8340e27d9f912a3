-------------------------- MODULE TaskBackendProofs --------------------------
(***************************************************************************)
(* Proofs about TaskBackend, for any workers, services, flow, rework limit *)
(* and number of requests, with or without recovery of blocked rows.       *)
(***************************************************************************)
EXTENDS TaskBackend, TLAPS

-----------------------------------------------------------------------------
(* What the operators the actions are built from return.                   *)

\* A column of the table stays one when a row is added.
LEMMA PutType ==
  ASSUME NEW S, NEW k \in Nat, NEW column \in [1 .. k -> S], NEW v \in S
  PROVE  Put(column, k + 1, v) \in [1 .. k + 1 -> S]
BY DEF Put

\* The new row has the value given, the others keep theirs.
LEMMA PutValue ==
  ASSUME NEW k \in Nat \ {0}, NEW column, NEW v
  PROVE  /\ \A t \in 1 .. k : t < k => Put(column, k, v)[t] = column[t]
         /\ Put(column, k, v)[k] = v
BY DEF Put

\* A column keeps its type when a value of that type is written to it.
LEMMA ExceptType ==
  ASSUME NEW S, NEW D, NEW column \in [D -> S], NEW t \in D, NEW v \in S
  PROVE  [column EXCEPT ![t] = v] \in [D -> S]
OBVIOUS

\* A phase with no completion fault is in the flow, at its index.
LEMMA PhaseIndexType ==
  ASSUME NEW p \in Phase, CompletionFault(p) = "none"
  PROVE  /\ PhaseIndex(p) \in 1 .. Len(PhaseFlow)
         /\ PhaseFlow[PhaseIndex(p)] = p
<1>1. \E i \in 1 .. Len(PhaseFlow) : PhaseFlow[i] = p
  BY PhaseOrchestratorAssumption DEF CompletionFault, Phase
<1>. QED
  BY <1>1 DEF PhaseIndex

\* Before the audit such a phase has a next one.
LEMMA NextPhaseType ==
  ASSUME NEW p \in Phase, CompletionFault(p) = "none", p # 5
  PROVE  NextPhase(p) \in Phase
<1>1. HasNextPhase(p)
  BY PhaseOrchestratorAssumption DEF CompletionFault
<1>2. PhaseIndex(p) + 1 \in 1 .. Len(PhaseFlow)
  BY <1>1, PhaseIndexType, PhaseOrchestratorAssumption DEF HasNextPhase
<1>. QED
  BY <1>2, PhaseOrchestratorAssumption DEF NextPhase

\* What the orchestrator blocks a root for is a reason the payload can hold.
LEMMA CompletionFaultType ==
  ASSUME NEW p \in Phase
  PROVE  CompletionFault(p) \in FlowFault \cup {"none"}
BY DEF CompletionFault, FlowFault

-----------------------------------------------------------------------------
(* Types, and how rows refer to each other.                                *)

\* Every row names a row as its root: a phase row a root, any other itself.
Linked ==
  \A t \in Rows : /\ row[t].root \in Rows
                  /\ IsPhase(t) => IsRoot(row[t].root)
                  /\ ~IsPhase(t) => row[t].root = t

TypeInv == TypeOK /\ Linked

\* Steps that add no row keep the links.
LEMMA LinkedKept ==
  ASSUME Linked, UNCHANGED <<n, row>>
  PROVE  Linked'
BY DEF Linked, Rows, IsPhase, IsRoot

\* Ending a worker's transaction keeps the types of what it held.
LEMMA DoneType ==
  ASSUME TypeOK, NEW w \in Worker, Done(w), n' \in Nat, n =< n'
  PROVE  /\ job' \in [Worker -> Rows' \cup {0}]
         /\ approving' \subseteq Rows'
<1>1. Rows \subseteq Rows'
  BY DEF TypeOK, Rows
<1>. QED
  BY <1>1 DEF TypeOK, Done

\* Writing the progress of a chain gives a value of the payload's type.
LEMMA ProgressType ==
  ASSUME NEW o \in Orchestration, NEW p \in Phase, NEW q \in Phase \cup {-1},
         NEW k \in Nat, NEW v \in {"pending", "approved", "rejected"},
         NEW f \in FailureEvent \cup FlowFault \cup {"none"}
  PROVE  /\ [o EXCEPT !.current = p] \in Orchestration
         /\ [o EXCEPT !.current = p, !.failure = f] \in Orchestration
         /\ [o EXCEPT !.current = p, !.last = q] \in Orchestration
         /\ [o EXCEPT !.current = p, !.attempt = k] \in Orchestration
         /\ [o EXCEPT !.current = p, !.last = q, !.review = v] \in Orchestration
         /\ [o EXCEPT !.current = p, !.last = q, !.review = v, !.attempt = k]
              \in Orchestration
BY DEF Orchestration

\* Blocking a root, or leaving a terminal one, keeps the types.
LEMMA BlockRootType ==
  ASSUME TypeInv, NEW t \in Rows, NEW own \in Status,
         NEW reason \in FailureEvent \cup FlowFault, BlockRootTask(t, own, reason)
  PROVE  /\ status' \in [Rows -> Status]
         /\ orch' \in [Rows -> Orchestration]
<1>1. row[t].root \in Rows /\ row[t].phase \in Phase
  BY DEF TypeInv, TypeOK, Linked, Row, Phase
<1>2. [orch[row[t].root] EXCEPT !.current = row[t].phase, !.failure = reason]
        \in Orchestration
  BY <1>1, ProgressType DEF TypeInv, TypeOK
<1>3. "blocked" \in Status
  BY DEF Status
<1>. QED
  BY <1>1, <1>2, <1>3 DEF TypeInv, TypeOK, BlockRootTask

\* Adding a phase row keeps the types and the links.
LEMMA AppendType ==
  ASSUME TypeInv, NEW t \in Rows, IsPhase(t), NEW p \in Phase,
         NEW payload \in Orchestration, NEW progress \in Orchestration,
         AppendPhase(t, p, payload, progress), NEW w \in Worker, Done(w)
  PROVE  TypeInv'
<1>. USE DEF TypeInv, TypeOK
<1>1. n \in Nat /\ n' = n + 1 /\ n' \in 0 .. MaxTasks
  BY TaskTableAssumption DEF AppendPhase
<1>2. Rows' = 1 .. n + 1 /\ Rows = 1 .. n /\ row[t].root \in Rows
  BY <1>1 DEF Rows, Linked
<1>3. [row[t] EXCEPT !.parent = t, !.phase = p, !.service = "brain"] \in Row
  <2>1. row[t] \in Row /\ t \in Nat /\ "brain" \in Service
    BY <1>1, <1>2, TaskTableAssumption
  <2>. QED
    BY <2>1 DEF Row
<1>4. row' \in [Rows' -> Row]
  BY <1>1, <1>2, <1>3, PutType DEF AppendPhase
<1>5. status' \in [Rows' -> Status]
  <2>1. [status EXCEPT ![t] = "succeeded"] \in [1 .. n -> Status]
    BY <1>2 DEF Status
  <2>. QED
    BY <2>1, <1>1, <1>2, PutType DEF AppendPhase, Status
<1>6. lease' \in [Rows' -> Lease] /\ why' \in [Rows' -> FailureEvent \cup
             {"none", "llm_generation_failed", "approval_failed",
              "task_rejected", "artifact_apply_deprecated"}]
  BY <1>1, <1>2, PutType DEF AppendPhase, Lease
<1>7. orch' \in [Rows' -> Orchestration]
  <2>1. [orch EXCEPT ![row[t].root] = progress] \in [1 .. n -> Orchestration]
    BY <1>2
  <2>. QED
    BY <2>1, <1>1, <1>2, PutType DEF AppendPhase
<1>8. /\ job' \in [Worker -> Rows' \cup {0}]
      /\ approving' \subseteq Rows'
  BY <1>1, DoneType
<1>9. Linked'
  BY <1>1, <1>2 DEF AppendPhase, Put, Linked, IsPhase, IsRoot
<1>. QED
  BY <1>1, <1>4, <1>5, <1>6, <1>7, <1>8, <1>9

\* A new request keeps the types and the links.
LEMMA SubmitRequestType ==
  ASSUME TypeInv, NEW s \in Service, NEW p \in Priority, SubmitRequest(s, p)
  PROVE  TypeInv'
<1>. USE DEF TypeInv, TypeOK
<1>. DEFINE root == NewRow("root", 0, n + 1, s, p, TRUE)
            child == NewRow("phase", n + 1, n + 1, s, p, TRUE)
<1>1. /\ n \in Nat /\ n + 1 \in Nat /\ n' = (n + 1) + 1 /\ n' \in 0 .. MaxTasks
      /\ Rows = 1 .. n /\ Rows' = 1 .. (n + 1) + 1
  BY TaskTableAssumption DEF SubmitRequest, Rows
<1>2. root \in Row /\ child \in Row
  BY <1>1 DEF NewRow, Row, Kind, Phase
<1>3. row' \in [Rows' -> Row]
  <2>1. Put(row, n + 1, root) \in [1 .. n + 1 -> Row]
    BY <1>1, <1>2, PutType
  <2>2. row' = Put(Put(row, n + 1, root), (n + 1) + 1, child)
    BY DEF SubmitRequest
  <2>. QED
    BY <2>1, <2>2, <1>1, <1>2, PutType
<1>4. status' \in [Rows' -> Status]
  <2>1. Put(status, n + 1, "running") \in [1 .. n + 1 -> Status]
    BY <1>1, PutType DEF Status
  <2>. QED
    BY <2>1, <1>1, PutType DEF SubmitRequest, Status
<1>5. lease' \in [Rows' -> Lease]
  <2>1. Put(lease, n + 1, "null") \in [1 .. n + 1 -> Lease]
    BY <1>1, PutType DEF Lease
  <2>. QED
    BY <2>1, <1>1, PutType DEF SubmitRequest, Lease
<1>6. orch' \in [Rows' -> Orchestration]
  <2>1. NewOrchestration \in Orchestration
    BY DEF NewOrchestration, Orchestration, Phase
  <2>2. Put(orch, n + 1, NewOrchestration) \in [1 .. n + 1 -> Orchestration]
    BY <2>1, <1>1, PutType
  <2>. QED
    BY <2>1, <2>2, <1>1, PutType DEF SubmitRequest
<1>7. why' \in [Rows' -> FailureEvent \cup
             {"none", "llm_generation_failed", "approval_failed",
              "task_rejected", "artifact_apply_deprecated"}]
  <2>. DEFINE Why == FailureEvent \cup
             {"none", "llm_generation_failed", "approval_failed",
              "task_rejected", "artifact_apply_deprecated"}
  <2>1. Put(why, n + 1, "none") \in [1 .. n + 1 -> Why]
    BY <1>1, PutType
  <2>2. "none" \in Why /\ why' = Put(Put(why, n + 1, "none"), (n + 1) + 1, "none")
    BY DEF SubmitRequest
  <2>. HIDE DEF Why
  <2>3. why' \in [1 .. (n + 1) + 1 -> Why]
    BY <2>1, <2>2, <1>1, PutType
  <2>. QED
    BY <2>3, <1>1 DEF Why
<1>8. job' \in [Worker -> Rows' \cup {0}] /\ approving' \subseteq Rows'
  BY <1>1 DEF SubmitRequest
<1>9. Linked'
  <2>1. row' = Put(Put(row, n + 1, root), (n + 1) + 1, child)
    BY DEF SubmitRequest
  <2>2. /\ \A t \in 1 .. n : row'[t] = row[t]
        /\ row'[n + 1] = root /\ row'[(n + 1) + 1] = child
    <3>. HIDE DEF root, child, TypeInv, TypeOK
    <3>. QED
      BY <2>1, <1>1 DEF Put
  <2>3. root.root = n + 1 /\ root.kind = "root" /\ child.root = n + 1 /\ child.kind = "phase"
    BY DEF NewRow
  <2>. HIDE DEF root, child
  <2>4. SUFFICES ASSUME NEW t \in 1 .. (n + 1) + 1
                 PROVE  /\ row'[t].root \in Rows'
                        /\ row'[t].kind = "phase" => row'[row'[t].root].kind = "root"
                        /\ row'[t].kind # "phase" => row'[t].root = t
    BY <1>1 DEF Linked, IsPhase, IsRoot
  <2>5. CASE t \in 1 .. n
    BY <2>5, <2>2, <1>1 DEF Linked, IsPhase, IsRoot
  <2>6. CASE t = n + 1
    BY <2>6, <2>2, <2>3, <1>1
  <2>7. CASE t = (n + 1) + 1
    BY <2>7, <2>2, <2>3, <1>1
  <2>. QED
    BY <2>5, <2>6, <2>7, <1>1
<1>. QED
  BY <1>1, <1>3, <1>4, <1>5, <1>6, <1>7, <1>8, <1>9

\* So does a row that is its own root.
LEMMA SubmitSingleType ==
  ASSUME TypeInv, NEW kind \in {"plain", "bare"}, NEW s \in Service,
         NEW p \in Priority, SubmitSingle(kind, s, p)
  PROVE  TypeInv'
<1>. USE DEF TypeInv, TypeOK
<1>. DEFINE new == NewRow(kind, 0, n + 1, s, p, FALSE)
<1>1. n \in Nat /\ n' = n + 1 /\ n' \in 0 .. MaxTasks /\ Rows = 1 .. n /\ Rows' = 1 .. n + 1
  BY TaskTableAssumption DEF SubmitSingle, Rows
<1>2. new \in Row
  BY <1>1 DEF NewRow, Row, Kind, Phase
<1>3. row' \in [Rows' -> Row] /\ status' \in [Rows' -> Status]
  BY <1>1, <1>2, PutType DEF SubmitSingle, Status
<1>4. lease' \in [Rows' -> Lease] /\ why' \in [Rows' -> FailureEvent \cup
             {"none", "llm_generation_failed", "approval_failed",
              "task_rejected", "artifact_apply_deprecated"}]
  BY <1>1, PutType DEF SubmitSingle, Lease
<1>5. orch' \in [Rows' -> Orchestration]
  <2>1. NewOrchestration \in Orchestration
    BY DEF NewOrchestration, Orchestration, Phase
  <2>. QED
    BY <2>1, <1>1, PutType DEF SubmitSingle
<1>6. job' \in [Worker -> Rows' \cup {0}] /\ approving' \subseteq Rows'
  BY <1>1 DEF SubmitSingle
<1>7. Linked'
  <2>1. row' = Put(row, n + 1, new) /\ new.root = n + 1 /\ new.kind = kind
    BY DEF SubmitSingle, NewRow
  <2>. HIDE DEF new
  <2>2. (\A t \in 1 .. n : row'[t] = row[t]) /\ row'[n + 1] = new
    BY <2>1, <1>1, PutValue
  <2>. QED
    BY <2>1, <2>2, <1>1 DEF Linked, IsPhase, IsRoot
<1>. QED
  BY <1>1, <1>3, <1>4, <1>5, <1>6, <1>7

\* A phase that fails keeps the types and the links.
LEMMA FailPhaseType ==
  ASSUME TypeInv, NEW w \in Worker, FailPhase(w)
  PROVE  TypeInv'
<1>. DEFINE t == job[w]
<1>1. PICK e \in FailureEvent : HandlePhaseBlocked(t, e)
  BY DEF FailPhase
<1>2. t \in Rows /\ "blocked" \in Status
  BY DEF FailPhase, TypeInv, TypeOK, Status
<1>. HIDE DEF t
<1>3. /\ BlockRootTask(t, "blocked", e)
      /\ why' = [why EXCEPT ![t] = e]
      /\ UNCHANGED <<n, row, lease>> /\ Done(w) /\ n =< n' /\ n' \in Nat
  <2>1. n \in Nat /\ n =< n
    BY TaskTableAssumption DEF TypeInv, TypeOK
  <2>. QED
    BY <1>1, <2>1 DEF HandlePhaseBlocked, FailPhase
<1>4. /\ status' \in [Rows -> Status]
      /\ orch' \in [Rows -> Orchestration]
  BY <1>2, <1>3, BlockRootType
<1>5. job' \in [Worker -> Rows' \cup {0}] /\ approving' \subseteq Rows'
  BY <1>3, DoneType DEF TypeInv
<1>6. Linked'
  BY <1>3, LinkedKept DEF TypeInv
<1>. QED
  BY <1>2, <1>3, <1>4, <1>5, <1>6 DEF TypeInv, TypeOK, Rows

\* Whatever the orchestrator makes of a completed phase keeps them as well.
LEMMA CompletePhaseType ==
  ASSUME TypeInv, NEW w \in Worker, CompletePhase(w)
  PROVE  TypeInv'
<1>. DEFINE t == job[w]
            r == row[t].root
            p == row[t].phase
<1>1. PICK v \in Verdict : HandlePhaseCompletion(t, v)
  BY DEF CompletePhase
<1>2. /\ t \in Rows /\ r \in Rows /\ IsPhase(t) /\ Done(w) /\ p \in Phase
      /\ orch[t] \in Orchestration /\ orch[r] \in Orchestration
      /\ orch[r].attempt + 1 \in Nat
  BY DEF CompletePhase, TypeInv, TypeOK, Linked, IsPhase, Row, Orchestration
<1>3. {"succeeded", "waiting_approval"} \subseteq Status /\ n \in Nat
  BY TaskTableAssumption DEF Status, TypeInv, TypeOK
<1>. HIDE DEF t
<1>4. CASE /\ UNCHANGED <<n, row, lease, why>>
           /\ status' \in [Rows -> Status] /\ orch' \in [Rows -> Orchestration]
  <2>1. job' \in [Worker -> Rows' \cup {0}] /\ approving' \subseteq Rows'
    BY <1>2, <1>3, <1>4, DoneType DEF TypeInv
  <2>2. Linked'
    BY <1>4, LinkedKept DEF TypeInv
  <2>. QED
    BY <1>4, <2>1, <2>2 DEF TypeInv, TypeOK, Rows
<1>5. ASSUME NEW reason \in FlowFault, BlockOnCompletion(t, reason)
      PROVE  TypeInv'
  <2>1. BlockRootTask(t, "succeeded", reason) /\ UNCHANGED <<n, row, lease, why>>
    BY <1>5 DEF BlockOnCompletion
  <2>. QED
    BY <2>1, <1>2, <1>3, <1>4, BlockRootType
<1>6. CASE IgnoreCompletion(t)
  BY <1>6, <1>2, <1>3, <1>4 DEF IgnoreCompletion, TypeInv, TypeOK
<1>7. CASE CompletionFault(p) # "none" /\ BlockOnCompletion(t, CompletionFault(p))
  BY <1>7, <1>5, <1>2, CompletionFaultType
<1>8. CASE EnqueueNextPhase(t)
  <2>1. NextPhase(p) \in Phase
    BY <1>8, <1>2, NextPhaseType DEF EnqueueNextPhase
  <2>2. CASE AppendPhase(t, NextPhase(p), [orch[t] EXCEPT !.current = NextPhase(p)],
               [orch[r] EXCEPT !.current = NextPhase(p), !.last = p])
    <3>1. [orch[t] EXCEPT !.current = NextPhase(p)] \in Orchestration
      BY <2>1, <1>2 DEF Orchestration
    <3>2. [orch[r] EXCEPT !.current = NextPhase(p), !.last = p] \in Orchestration
      BY <2>1, <1>2 DEF Orchestration
    <3>. QED
      BY <2>1, <2>2, <3>1, <3>2, <1>2, AppendType
  <2>3. CASE /\ status' = [status EXCEPT ![t] = "succeeded"]
             /\ UNCHANGED <<n, row, lease, orch, why>>
    BY <2>3, <1>2, <1>3, <1>4 DEF TypeInv, TypeOK
  <2>. QED
    BY <1>8, <2>2, <2>3 DEF EnqueueNextPhase
<1>9. CASE PromoteRoot(t)
  <2>0. 5 \in Phase /\ 5 \in Phase \cup {-1}
    BY DEF Phase
  <2>1. [orch[r] EXCEPT !.current = 5, !.last = 5, !.review = "approved"] \in Orchestration
    BY <1>2, <2>0, ProgressType
  <2>2. orch' \in [Rows -> Orchestration]
    BY <1>9, <2>1, <1>2, ExceptType DEF PromoteRoot, TypeInv, TypeOK
  <2>3. status' \in [Rows -> Status] /\ UNCHANGED <<n, row, lease, why>>
    BY <1>9, <1>2, <1>3 DEF PromoteRoot, TypeInv, TypeOK
  <2>. QED
    BY <2>2, <2>3, <1>4
<1>10. CASE EnqueueRework(t)
  <2>. DEFINE attempt == orch[r].attempt + 1
              payload == [orch[t] EXCEPT !.current = 4, !.attempt = attempt]
              progress == [orch[r] EXCEPT !.current = 4, !.last = 5, !.review = "rejected",
                                          !.attempt = attempt]
  <2>1. AppendPhase(t, 4, payload, progress)
    BY <1>10 DEF EnqueueRework
  <2>2. 4 \in Phase /\ 5 \in Phase \cup {-1} /\ attempt \in Nat
    BY <1>2 DEF Phase
  <2>3. payload \in Orchestration /\ progress \in Orchestration
    <3>. HIDE DEF attempt
    <3>. QED
      BY <1>2, <2>2, ProgressType
  <2>. HIDE DEF payload, progress
  <2>. QED
    BY <2>1, <2>2, <2>3, <1>2, AppendType
<1>11. ASSUME HandlePhase5Completion(t, v)
       PROVE  TypeInv'
  BY <1>11, <1>5, <1>9, <1>10 DEF HandlePhase5Completion, FlowFault
<1>. QED
  BY <1>1, <1>6, <1>7, <1>8, <1>11 DEF HandlePhaseCompletion

\* Every step keeps the types and the links.
LEMMA TypeStep ==
  ASSUME TypeInv, [Next]_vars
  PROVE  TypeInv'
<1>. DEFINE Why == FailureEvent \cup
             {"none", "llm_generation_failed", "approval_failed",
              "task_rejected", "artifact_apply_deprecated"}
<1>0. ASSUME UNCHANGED <<n, row, orch>>, NEW t \in Rows, NEW s \in Status, NEW e \in Why,
             status' = status \/ status' = [status EXCEPT ![t] = s],
             lease' \in [Rows -> Lease],
             why' = why \/ why' = [why EXCEPT ![t] = e],
             job' \in [Worker -> Rows \cup {0}], approving' \subseteq Rows
      PROVE  TypeInv'
  <2>1. status \in [Rows -> Status] /\ why \in [Rows -> Why] /\ Rows' = Rows
    BY <1>0 DEF TypeInv, TypeOK, Rows
  <2>2. status' \in [Rows -> Status]
    BY <1>0, <2>1, ExceptType
  <2>3. why' \in [Rows -> Why]
    <3>. HIDE DEF Why
    <3>. QED
      BY <1>0, <2>1, ExceptType
  <2>4. Linked'
    BY <1>0, LinkedKept DEF TypeInv
  <2>. QED
    BY <1>0, <2>1, <2>2, <2>3, <2>4 DEF TypeInv, TypeOK
<1>1. ASSUME NEW s \in Service, NEW p \in Priority,
             SubmitRequest(s, p) \/ SubmitPlain(s, p) \/ InsertBare(s, p)
      PROVE  TypeInv'
  BY <1>1, SubmitRequestType, SubmitSingleType DEF SubmitPlain, InsertBare
<1>2. ASSUME NEW w \in Worker,
             FailPhase(w) \/ CompletePhase(w)
      PROVE  TypeInv'
  BY <1>2, FailPhaseType, CompletePhaseType
<1>3. ASSUME NEW w \in Worker,
             \/ Rollback(w) \/ FailGeneration(w) \/ FailSingle(w)
             \/ CompleteSingle(w) \/ LeaveRunning(w)
      PROVE  TypeInv'
  <2>1. /\ job[w] \in Rows /\ Done(w) /\ UNCHANGED <<n, row, orch>>
        /\ job' \in [Worker -> Rows \cup {0}] /\ approving' \subseteq Rows
    BY <1>3 DEF Rollback, FailGeneration, FailSingle, CompleteSingle, LeaveRunning,
                BlockAlone, Done, TypeInv, TypeOK
  <2>2. {"blocked", "running", "succeeded", "waiting_approval"} \subseteq Status
        /\ "live" \in Lease
    BY DEF Status, Lease
  <2>3. \E s \in Status, e \in Why :
           /\ status' = status \/ status' = [status EXCEPT ![job[w]] = s]
           /\ why' = why \/ why' = [why EXCEPT ![job[w]] = e]
    <3>1. CASE Rollback(w)
      BY <3>1, <2>2 DEF Rollback
    <3>2. CASE FailGeneration(w) \/ FailSingle(w)
      BY <3>2, <2>2 DEF FailGeneration, FailSingle, BlockAlone
    <3>3. CASE CompleteSingle(w)
      BY <3>3, <2>2 DEF CompleteSingle
    <3>4. CASE LeaveRunning(w)
      BY <3>4, <2>2 DEF LeaveRunning
    <3>. QED
      BY <1>3, <3>1, <3>2, <3>3, <3>4
  <2>4. lease' \in [Rows -> Lease]
    BY <1>3, <2>1, <2>2 DEF Rollback, FailGeneration, FailSingle, CompleteSingle,
                      LeaveRunning, BlockAlone, TypeInv, TypeOK
  <2>. QED
    BY <2>1, <2>3, <2>4, <1>0
<1>4. ASSUME NEW w \in Worker, LeaseNext(w)
      PROVE  TypeInv'
  <2>1. job' \in [Worker -> Rows \cup {0}]
    BY <1>4 DEF LeaseNext, NextQueued, Claimable, TypeInv, TypeOK
  <2>2. Linked'
    BY <1>4, LinkedKept DEF LeaseNext, TypeInv
  <2>. QED
    BY <1>4, <2>1, <2>2 DEF LeaseNext, TypeInv, TypeOK, Rows
<1>5. ASSUME RecoverBlocked \/ \E w \in Worker : RecoverExpired(w)
      PROVE  TypeInv'
  <2>1. status' \in [Rows -> Status] /\ lease' \in [Rows -> Lease]
        /\ UNCHANGED <<n, row, orch, why, job, approving>>
    BY <1>5 DEF RecoverBlocked, RecoverExpired, Status, Lease, TypeInv, TypeOK
  <2>2. Linked'
    BY <2>1, LinkedKept DEF TypeInv
  <2>. QED
    BY <2>1, <2>2 DEF TypeInv, TypeOK, Rows
<1>6. ASSUME NEW t \in Rows,
             \/ ExpireLease(t) \/ BeginApproval(t) \/ ApproveMerged(t)
             \/ ApproveFailed(t) \/ ApproveAbandoned(t) \/ Reject(t) \/ ApplyArtifact(t)
      PROVE  TypeInv'
  <2>1. UNCHANGED <<n, row, orch, job>> /\ approving' \subseteq Rows
        /\ lease' \in [Rows -> Lease]
    BY <1>6 DEF ExpireLease, BeginApproval, ApproveMerged, ApproveFailed, EndApproval,
         ApproveAbandoned, Reject, ApplyArtifact, BlockWaiting, Lease, TypeInv, TypeOK
  <2>2. {"blocked", "succeeded"} \subseteq Status
    BY DEF Status
  <2>3. \E s \in Status, e \in Why :
           /\ status' = status \/ status' = [status EXCEPT ![t] = s]
           /\ why' = why \/ why' = [why EXCEPT ![t] = e]
    <3>1. CASE ExpireLease(t) \/ BeginApproval(t) \/ ApproveAbandoned(t)
      BY <3>1, <2>2 DEF ExpireLease, BeginApproval, ApproveAbandoned
    <3>2. CASE ApproveMerged(t)
      BY <3>2, <2>2 DEF ApproveMerged
    <3>3. CASE ApproveFailed(t)
      BY <3>3, <2>2 DEF ApproveFailed
    <3>4. CASE Reject(t) \/ ApplyArtifact(t)
      BY <3>4, <2>2 DEF Reject, ApplyArtifact, BlockWaiting
    <3>. QED
      BY <1>6, <3>1, <3>2, <3>3, <3>4
  <2>4. job' \in [Worker -> Rows \cup {0}]
    BY <2>1 DEF TypeInv, TypeOK
  <2>. QED
    BY <2>1, <2>3, <2>4, <1>0
<1>7. CASE UNCHANGED vars
  BY <1>7 DEF vars, TypeInv, TypeOK, Linked, Rows, IsPhase, IsRoot
<1>. QED
  BY <1>1, <1>2, <1>3, <1>4, <1>5, <1>6, <1>7 DEF Next, Finish

\* The empty table has these types.
LEMMA TypeInit == Init => TypeInv
BY TaskTableAssumption DEF Init, TypeInv, TypeOK, Linked, Rows

\* Type correctness, and the links between rows, hold for ever.
THEOREM TypeCorrect == Spec => []TypeOK
<1>1. TypeInv /\ [Next]_vars => TypeInv'
  BY TypeStep
<1>2. Spec => []TypeInv
  BY TypeInit, <1>1, PTL DEF Spec
<1>3. TypeInv => TypeOK
  BY DEF TypeInv
<1>. QED
  BY <1>2, <1>3, PTL

-----------------------------------------------------------------------------
(* What the end of a worker's transaction may do to the table.             *)

\* The row added, if any, continues t: the next phase of t's round, or the
\* next round of phase 4, and the root records the same.
Appended(t) ==
  LET r == row[t].root
  IN  /\ n' = n + 1 /\ IsPhase(t) /\ CompletionFault(row[t].phase) = "none"
      /\ row'[n + 1].kind = "phase"
      /\ row'[n + 1].root = r /\ row'[n + 1].parent = t
      /\ status'[t] = "succeeded" /\ status'[n + 1] = "queued"
      /\ orch'[r].current = row'[n + 1].phase
      /\ orch'[n + 1] \in Orchestration
      /\ \/ /\ row[t].phase # 5 /\ row'[n + 1].phase = NextPhase(row[t].phase)
            /\ orch'[n + 1].attempt = orch[t].attempt
            /\ orch'[r].attempt = orch[r].attempt
         \/ /\ row[t].phase = 5 /\ row'[n + 1].phase = 4
            /\ orch'[n + 1].attempt = orch[r].attempt + 1
            /\ orch'[r].attempt = orch[r].attempt + 1
            /\ orch[r].attempt + 1 =< ReworkLimit

\* No row is added; the root still records the phase of t, or what it did.
NotAppended(t) ==
  LET r == row[t].root
  IN  /\ n' = n
      /\ \/ orch'[r] = orch[r]
         \/ /\ IsPhase(t)
            /\ orch'[r].current = row[t].phase
            /\ orch'[r].attempt = orch[r].attempt

\* Only t and, for a phase, its unlocked root change.
OnlyOwnRows(t) ==
  \A u \in Rows :
    /\ row'[u] = row[u]
    /\ u # t /\ status'[u] # status[u] =>
         u = row[t].root /\ IsPhase(t) /\ Unlocked(u)
    /\ orch'[u] # orch[u] => u = row[t].root /\ IsPhase(t)

\* block_root_task changes the task's own row and its unlocked root.
LEMMA BlockRootEffect ==
  ASSUME TypeInv, NEW t \in Rows, IsPhase(t), NEW own \in Status, NEW reason,
         BlockRootTask(t, own, reason), UNCHANGED <<n, row>>
  PROVE  OnlyOwnRows(t) /\ NotAppended(t)
<1>1. row[t].root \in Rows /\ orch[row[t].root] \in Orchestration
  BY DEF TypeInv, TypeOK, Linked
<1>2. CASE orch' = orch /\ status' = [status EXCEPT ![t] = own]
  BY <1>1, <1>2 DEF OnlyOwnRows, NotAppended, TypeInv, TypeOK
<1>3. CASE orch' # orch \/ status' # [status EXCEPT ![t] = own]
  <2>. DEFINE r == row[t].root
              blocked == [orch[r] EXCEPT !.current = row[t].phase, !.failure = reason]
  <2>1. /\ status' = [status EXCEPT ![t] = own, ![r] = "blocked"]
        /\ orch' = [orch EXCEPT ![r] = blocked] /\ Unlocked(r)
    BY <1>3 DEF BlockRootTask
  <2>2. blocked.current = row[t].phase /\ blocked.attempt = orch[r].attempt
    BY <1>1 DEF Orchestration
  <2>. HIDE DEF blocked
  <2>. QED
    BY <1>1, <2>1, <2>2 DEF OnlyOwnRows, NotAppended, TypeInv, TypeOK
<1>. QED
  BY <1>2, <1>3

\* A row is appended together with what the root records of it.
LEMMA AppendEffect ==
  ASSUME TypeInv, NEW t \in Rows, IsPhase(t), NEW p \in Phase,
         NEW payload \in Orchestration, NEW progress \in Orchestration,
         AppendPhase(t, p, payload, progress)
  PROVE  /\ \A u \in Rows : row'[u] = row[u]
         /\ \A u \in Rows \ {t} : status'[u] = status[u]
         /\ \A u \in Rows \ {row[t].root} : orch'[u] = orch[u]
         /\ n' = n + 1 /\ status'[t] = "succeeded" /\ status'[n + 1] = "queued"
         /\ row'[n + 1].kind = "phase" /\ row'[n + 1].root = row[t].root
         /\ row'[n + 1].parent = t /\ row'[n + 1].phase = p
         /\ orch'[n + 1] = payload /\ orch'[row[t].root] = progress
<1>1. /\ n \in Nat /\ Rows = 1 .. n /\ row[t].root \in Rows /\ row[t] \in Row
      /\ row[t].kind = "phase" /\ n' = n + 1
  BY TaskTableAssumption DEF TypeInv, TypeOK, Linked, Rows, IsPhase, AppendPhase
<1>2. /\ \A u \in Rows : row'[u] = row[u]
      /\ row'[n + 1] = [row[t] EXCEPT !.parent = t, !.phase = p, !.service = "brain"]
  <2>. DEFINE child == [row[t] EXCEPT !.parent = t, !.phase = p, !.service = "brain"]
  <2>1. row' = Put(row, n + 1, child)
    BY DEF AppendPhase
  <2>. HIDE DEF child
  <2>2. (\A u \in 1 .. n : row'[u] = row[u]) /\ row'[n + 1] = child
    BY <2>1, <1>1, PutValue
  <2>. QED
    BY <2>2, <1>1 DEF child
<1>3. /\ row'[n + 1].kind = "phase" /\ row'[n + 1].root = row[t].root
      /\ row'[n + 1].parent = t /\ row'[n + 1].phase = p
  BY <1>1, <1>2 DEF Row
<1>4. /\ \A u \in Rows : status'[u] = [status EXCEPT ![t] = "succeeded"][u]
      /\ status'[n + 1] = "queued"
  <2>. DEFINE settled == [status EXCEPT ![t] = "succeeded"]
  <2>1. status' = Put(settled, n + 1, "queued")
    BY DEF AppendPhase
  <2>. HIDE DEF settled
  <2>2. (\A u \in 1 .. n : status'[u] = settled[u]) /\ status'[n + 1] = "queued"
    BY <2>1, <1>1, PutValue
  <2>. QED
    BY <2>2, <1>1 DEF settled
<1>5. status'[t] = "succeeded" /\ \A u \in Rows \ {t} : status'[u] = status[u]
  BY <1>1, <1>4 DEF TypeInv, TypeOK
<1>6. /\ \A u \in Rows : orch'[u] = [orch EXCEPT ![row[t].root] = progress][u]
      /\ orch'[n + 1] = payload
  <2>. DEFINE recorded == [orch EXCEPT ![row[t].root] = progress]
  <2>1. orch' = Put(recorded, n + 1, payload)
    BY DEF AppendPhase
  <2>. HIDE DEF recorded
  <2>2. (\A u \in 1 .. n : orch'[u] = recorded[u]) /\ orch'[n + 1] = payload
    BY <2>1, <1>1, PutValue
  <2>. QED
    BY <2>2, <1>1 DEF recorded
<1>7. /\ orch'[row[t].root] = progress
      /\ \A u \in Rows \ {row[t].root} : orch'[u] = orch[u]
  BY <1>1, <1>6 DEF TypeInv, TypeOK
<1>. QED
  BY <1>1, <1>2, <1>3, <1>4, <1>5, <1>6, <1>7

\* The orchestrator's answer to a completed phase, as an effect on the table.
LEMMA CompletePhaseEffect ==
  ASSUME TypeInv, NEW w \in Worker, CompletePhase(w)
  PROVE  /\ OnlyOwnRows(job[w])
         /\ Appended(job[w]) \/ NotAppended(job[w])
<1>. DEFINE t == job[w]
            r == row[t].root
            p == row[t].phase
<1>1. PICK v \in Verdict : HandlePhaseCompletion(t, v)
  BY DEF CompletePhase
<1>2. /\ t \in Rows /\ r \in Rows /\ IsPhase(t) /\ p \in Phase
      /\ orch[t] \in Orchestration /\ orch[r] \in Orchestration /\ orch[r].attempt + 1 \in Nat
  BY DEF CompletePhase, TypeInv, TypeOK, Linked, IsPhase, Row, Orchestration
<1>3. "succeeded" \in Status
  BY DEF Status
<1>. DEFINE Goal == OnlyOwnRows(t) /\ (Appended(t) \/ NotAppended(t))
<1>3a. SUFFICES Goal
  OBVIOUS
<1>. HIDE DEF t
<1>4. ASSUME NEW reason, BlockOnCompletion(t, reason)
      PROVE  Goal
  <2>1. BlockRootTask(t, "succeeded", reason) /\ UNCHANGED <<n, row>>
    BY <1>4 DEF BlockOnCompletion
  <2>. QED
    BY <2>1, <1>2, <1>3, BlockRootEffect
<1>5. CASE status' = [status EXCEPT ![t] = "succeeded"] /\ UNCHANGED <<n, row, orch>>
  BY <1>5, <1>2 DEF OnlyOwnRows, NotAppended, TypeInv, TypeOK
<1>6. CASE EnqueueNextPhase(t)
  <2>1. NextPhase(p) \in Phase /\ p # 5 /\ Unlocked(r) /\ CompletionFault(p) = "none"
    BY <1>6, <1>2, NextPhaseType DEF EnqueueNextPhase
  <2>. DEFINE payload == [orch[t] EXCEPT !.current = NextPhase(p)]
              progress == [orch[r] EXCEPT !.current = NextPhase(p), !.last = p]
  <2>2. CASE AppendPhase(t, NextPhase(p), payload, progress)
    <3>1. /\ payload \in Orchestration /\ progress \in Orchestration
          /\ payload.attempt = orch[t].attempt
          /\ progress.attempt = orch[r].attempt /\ progress.current = NextPhase(p)
      BY <2>1, <1>2 DEF Orchestration
    <3>. HIDE DEF payload, progress
    <3>2. /\ \A u \in Rows : row'[u] = row[u]
          /\ \A u \in Rows \ {t} : status'[u] = status[u]
          /\ \A u \in Rows \ {r} : orch'[u] = orch[u]
          /\ n' = n + 1 /\ status'[t] = "succeeded" /\ status'[n + 1] = "queued"
          /\ row'[n + 1].kind = "phase" /\ row'[n + 1].root = r
          /\ row'[n + 1].parent = t /\ row'[n + 1].phase = NextPhase(p)
          /\ orch'[n + 1] = payload /\ orch'[r] = progress
      BY <2>1, <2>2, <3>1, <1>2, AppendEffect
    <3>3. OnlyOwnRows(t)
      BY <3>2, <1>2 DEF OnlyOwnRows
    <3>4. Appended(t)
      BY <3>1, <3>2, <2>1, <1>2 DEF Appended
    <3>. QED
      BY <3>3, <3>4
  <2>. QED
    BY <1>6, <2>2, <1>5 DEF EnqueueNextPhase
<1>7. CASE PromoteRoot(t)
  <2>. DEFINE outcome == IF row[r].target THEN "waiting_approval" ELSE "succeeded"
              approved == [orch[r] EXCEPT !.current = 5, !.last = 5, !.review = "approved"]
  <2>1. /\ status' = [status EXCEPT ![t] = "succeeded", ![r] = outcome]
        /\ orch' = [orch EXCEPT ![r] = approved]
        /\ Unlocked(r) /\ p = 5 /\ UNCHANGED <<n, row>>
    BY <1>7 DEF PromoteRoot
  <2>2. approved.current = 5 /\ approved.attempt = orch[r].attempt
    BY <1>2 DEF Orchestration
  <2>. HIDE DEF outcome, approved
  <2>. QED
    BY <1>2, <2>1, <2>2 DEF OnlyOwnRows, NotAppended, TypeInv, TypeOK
<1>8. CASE EnqueueRework(t)
  <2>. DEFINE attempt == orch[r].attempt + 1
              payload == [orch[t] EXCEPT !.current = 4, !.attempt = attempt]
              progress == [orch[r] EXCEPT !.current = 4, !.last = 5, !.review = "rejected",
                                          !.attempt = attempt]
  <2>1. /\ AppendPhase(t, 4, payload, progress) /\ Unlocked(r)
        /\ p = 5 /\ attempt =< ReworkLimit /\ CompletionFault(p) = "none"
    BY <1>8 DEF EnqueueRework
  <2>2. 4 \in Phase /\ 5 \in Phase \cup {-1} /\ attempt \in Nat
    BY <1>2 DEF Phase
  <2>3. /\ payload \in Orchestration /\ progress \in Orchestration
        /\ payload.attempt = attempt
        /\ progress.attempt = attempt /\ progress.current = 4
    <3>. HIDE DEF attempt
    <3>1. payload \in Orchestration /\ progress \in Orchestration
      BY <1>2, <2>2, ProgressType
    <3>. QED
      BY <3>1, <1>2 DEF Orchestration
  <2>. HIDE DEF payload, progress
  <2>4. /\ \A u \in Rows : row'[u] = row[u]
        /\ \A u \in Rows \ {t} : status'[u] = status[u]
        /\ \A u \in Rows \ {r} : orch'[u] = orch[u]
        /\ n' = n + 1 /\ status'[t] = "succeeded" /\ status'[n + 1] = "queued"
        /\ row'[n + 1].kind = "phase" /\ row'[n + 1].root = r
        /\ row'[n + 1].parent = t /\ row'[n + 1].phase = 4
        /\ orch'[n + 1] = payload /\ orch'[r] = progress
    BY <2>1, <2>2, <2>3, <1>2, AppendEffect
  <2>5. OnlyOwnRows(t)
    BY <2>4, <1>2 DEF OnlyOwnRows
  <2>6. Appended(t)
    BY <2>1, <2>3, <2>4, <1>2 DEF Appended
  <2>. QED
    BY <2>5, <2>6
<1>9. CASE IgnoreCompletion(t)
  BY <1>9, <1>5 DEF IgnoreCompletion
<1>10. ASSUME HandlePhase5Completion(t, v)
       PROVE  Goal
  BY <1>10, <1>4, <1>7, <1>8 DEF HandlePhase5Completion
<1>. QED
  BY <1>1, <1>4, <1>6, <1>9, <1>10 DEF HandlePhaseCompletion

\* The end of any worker's transaction, as an effect on the table.
LEMMA FinishEffect ==
  ASSUME TypeInv, NEW w \in Worker, Finish(w)
  PROVE  /\ job[w] \in Rows /\ Done(w)
         /\ OnlyOwnRows(job[w])
         /\ Appended(job[w]) \/ NotAppended(job[w])
<1>. DEFINE t == job[w]
<1>1. t \in Rows /\ Done(w)
  BY DEF Finish, FailPhase, FailGeneration, FailSingle, CompletePhase, CompleteSingle,
         LeaveRunning, BlockAlone, TypeInv, TypeOK
<1>2. CASE CompletePhase(w)
  BY <1>1, <1>2, CompletePhaseEffect
<1>3. CASE FailPhase(w)
  <2>1. "blocked" \in Status /\ IsPhase(t)
    BY <1>3 DEF Status, FailPhase, IsPhase
  <2>2. \E e \in FailureEvent : BlockRootTask(t, "blocked", e) /\ UNCHANGED <<n, row>>
    BY <1>3 DEF FailPhase, HandlePhaseBlocked
  <2>. HIDE DEF t
  <2>3. OnlyOwnRows(t) /\ NotAppended(t)
    BY <2>1, <2>2, <1>1, BlockRootEffect
  <2>. QED
    BY <2>3, <1>1 DEF t
<1>4. CASE FailGeneration(w) \/ FailSingle(w) \/ CompleteSingle(w) \/ LeaveRunning(w)
  <2>1. UNCHANGED <<n, row, orch>> /\ \E s : status' = [status EXCEPT ![t] = s]
    BY <1>4 DEF FailGeneration, FailSingle, CompleteSingle, LeaveRunning, BlockAlone
  <2>2. OnlyOwnRows(t) /\ NotAppended(t)
    BY <2>1, <1>1 DEF OnlyOwnRows, NotAppended, TypeInv, TypeOK
  <2>. QED
    BY <2>2, <1>1
<1>. QED
  BY <1>2, <1>3, <1>4 DEF Finish

-----------------------------------------------------------------------------
(* Row locks.                                                              *)

\* A row a dashboard request is merging is waiting for approval.
ApprovingWaits == \A t \in approving : status[t] = "waiting_approval"

LockInv == LeaseExclusive /\ ApprovingWaits

\* Locks only given up, and locked rows left alone, keep the lock invariant.
LEMMA LocksKept ==
  ASSUME TypeInv, TypeInv', LockInv,
         \A w \in Worker : job'[w] = job[w] \/ job'[w] = 0,
         approving' \subseteq approving,
         \A w \in Worker : job'[w] # 0 => status'[job[w]] = status[job[w]],
         \A t \in approving' : status'[t] = status[t]
  PROVE  LockInv'
BY DEF LockInv, LeaseExclusive, ApprovingWaits, TypeInv, TypeOK

\* Every step keeps the lock invariant.
LEMMA LockStep ==
  ASSUME TypeInv, LockInv, [Next]_vars
  PROVE  LockInv'
<1>. TypeInv'
  BY TypeStep
<1>1. ASSUME NEW s \in Service, NEW p \in Priority,
             SubmitRequest(s, p) \/ SubmitPlain(s, p) \/ InsertBare(s, p)
      PROVE  LockInv'
  <2>1. UNCHANGED <<job, approving>>
    BY <1>1 DEF SubmitRequest, SubmitPlain, InsertBare, SubmitSingle
  <2>2. \A t \in Rows : status'[t] = status[t]
    <3>1. n \in Nat /\ Rows = 1 .. n
      BY TaskTableAssumption DEF TypeInv, TypeOK, Rows
    <3>2. CASE SubmitRequest(s, p)
      <4>. DEFINE mid == Put(status, n + 1, "running")
                  k == n + 1
      <4>1. \A t \in 1 .. n : mid[t] = status[t]
        BY <3>1, PutValue
      <4>2. k \in Nat /\ status' = Put(mid, k + 1, "queued")
        BY <3>1, <3>2 DEF SubmitRequest
      <4>. HIDE DEF mid
      <4>3. \A t \in 1 .. k : status'[t] = mid[t]
        <5>. HIDE DEF k
        <5>. QED
          BY <4>2, PutValue
      <4>4. \A t \in 1 .. n : t \in 1 .. k
        BY <3>1
      <4>. QED
        BY <3>1, <4>1, <4>3, <4>4
    <3>3. CASE SubmitPlain(s, p) \/ InsertBare(s, p)
      <4>1. status' = Put(status, n + 1, "queued")
        BY <3>3 DEF SubmitPlain, InsertBare, SubmitSingle
      <4>. QED
        BY <3>1, <4>1, PutValue
    <3>. QED
      BY <1>1, <3>2, <3>3
  <2>. QED
    BY <2>1, <2>2, LocksKept DEF TypeInv, TypeOK
<1>2. ASSUME NEW w \in Worker, LeaseNext(w)
      PROVE  LockInv'
  <2>1. PICK t \in NextQueued(ServiceOf[w]) : job' = [job EXCEPT ![w] = t]
    BY <1>2 DEF LeaseNext
  <2>2. t \in Rows /\ status[t] = "queued" /\ Unlocked(t)
    BY <2>1 DEF NextQueued, Claimable
  <2>3. UNCHANGED <<status, approving>>
    BY <1>2 DEF LeaseNext
  <2>. QED
    BY <2>1, <2>2, <2>3 DEF LockInv, LeaseExclusive, ApprovingWaits, Unlocked, TypeInv, TypeOK
<1>3. ASSUME NEW w \in Worker, Rollback(w)
      PROVE  LockInv'
  BY <1>3, LocksKept DEF Rollback, Done, TypeInv, TypeOK
<1>4. ASSUME NEW w \in Worker, Finish(w)
      PROVE  LockInv'
  <2>1. job[w] \in Rows /\ Done(w) /\ OnlyOwnRows(job[w])
    BY <1>4, FinishEffect
  <2>2. ASSUME NEW v \in Worker, job'[v] # 0
        PROVE  status'[job[v]] = status[job[v]]
    <3>1. v # w /\ job[v] # 0 /\ job[v] \in Rows
      BY <2>1, <2>2 DEF Done, TypeInv, TypeOK
    <3>2. job[v] # job[w] /\ ~Unlocked(job[v])
      BY <3>1, <2>1 DEF LockInv, LeaseExclusive, Unlocked
    <3>. QED
      BY <3>1, <3>2, <2>1 DEF OnlyOwnRows
  <2>3. ASSUME NEW t \in approving
        PROVE  status'[t] = status[t]
    <3>1. t \in Rows /\ ~Unlocked(t)
      BY DEF Unlocked, TypeInv, TypeOK
    <3>2. t # job[w]
      BY <2>1 DEF LockInv, LeaseExclusive, Rows
    <3>. QED
      BY <3>1, <3>2, <2>1 DEF OnlyOwnRows
  <2>4. approving' = approving /\ \A v \in Worker : job'[v] = job[v] \/ job'[v] = 0
    BY <2>1 DEF Done, TypeInv, TypeOK
  <2>. QED
    BY <2>2, <2>3, <2>4, LocksKept
<1>5. ASSUME NEW w \in Worker, RecoverExpired(w)
      PROVE  LockInv'
  <2>1. \A t \in Rows : ~Unlocked(t) => status'[t] = status[t]
    BY <1>5 DEF RecoverExpired, ExpiredRows
  <2>2. UNCHANGED <<job, approving>>
    BY <1>5 DEF RecoverExpired
  <2>. QED
    BY <2>1, <2>2, LocksKept DEF Unlocked, TypeInv, TypeOK
<1>6. CASE RecoverBlocked
  <2>1. \A t \in Rows : status[t] # "blocked" => status'[t] = status[t]
    BY <1>6 DEF RecoverBlocked
  <2>2. UNCHANGED <<job, approving>>
    BY <1>6 DEF RecoverBlocked
  <2>. QED
    BY <2>1, <2>2, LocksKept DEF LockInv, LeaseExclusive, ApprovingWaits, TypeInv, TypeOK
<1>7. ASSUME NEW t \in Rows, BeginApproval(t)
      PROVE  LockInv'
  BY <1>7 DEF BeginApproval, LockInv, LeaseExclusive, ApprovingWaits, Unlocked, TypeInv, TypeOK
<1>8. ASSUME NEW t \in Rows, ExpireLease(t) \/ ApproveAbandoned(t)
      PROVE  LockInv'
  BY <1>8, LocksKept DEF ExpireLease, ApproveAbandoned, EndApproval, TypeInv, TypeOK
<1>9. ASSUME NEW t \in Rows, ApproveMerged(t) \/ ApproveFailed(t)
      PROVE  LockInv'
  <2>1. /\ t \in approving /\ approving' = approving \ {t} /\ job' = job
        /\ \A u \in Rows \ {t} : status'[u] = status[u]
    BY <1>9 DEF ApproveMerged, ApproveFailed, EndApproval, TypeInv, TypeOK
  <2>. QED
    BY <2>1, LocksKept DEF LockInv, LeaseExclusive, TypeInv, TypeOK
<1>10. ASSUME NEW t \in Rows, Reject(t) \/ ApplyArtifact(t)
       PROVE  LockInv'
  <2>1. /\ Unlocked(t) /\ UNCHANGED <<job, approving>>
        /\ \A u \in Rows \ {t} : status'[u] = status[u]
    BY <1>10 DEF Reject, ApplyArtifact, BlockWaiting, TypeInv, TypeOK
  <2>. QED
    BY <2>1, LocksKept DEF Unlocked, TypeInv, TypeOK
<1>11. CASE UNCHANGED vars
  BY <1>11 DEF vars, LockInv, LeaseExclusive, ApprovingWaits
<1>. QED
  BY <1>1, <1>2, <1>3, <1>4, <1>5, <1>6, <1>7, <1>8, <1>9, <1>10, <1>11 DEF Next

\* The row locks keep workers, lease recovery and the dashboard apart.
THEOREM LeasesAreExclusive == Spec => []LeaseExclusive
<1>1. Init => TypeInv /\ LockInv
  BY TypeInit DEF Init, LockInv, LeaseExclusive, ApprovingWaits
<1>2. TypeInv /\ LockInv /\ [Next]_vars => TypeInv' /\ LockInv'
  BY TypeStep, LockStep
<1>3. TypeInv /\ LockInv => LeaseExclusive
  BY DEF LockInv
<1>. QED
  BY <1>1, <1>2, <1>3, PTL DEF Spec

-----------------------------------------------------------------------------
(* The chain of a request's phase rows.                                    *)

\* What the chain properties say of one phase row.
InChain(t) ==
  /\ ~Newest(t) => status[t] = "succeeded"
  /\ Newest(t) => MirroredBy(t)
  /\ Continues(t, row[t].parent)

ChainInv == \A t \in Rows : IsPhase(t) => InChain(t)

\* ChainInv is the three properties of the chain.
LEMMA ChainParts ==
  ChainInv <=> OnlyNewestUnfinished /\ RootMirrorsChain /\ ChainOrder
BY DEF ChainInv, InChain, OnlyNewestUnfinished, RootMirrorsChain, ChainOrder, Newest

\* A step that changes no phase row but those it does not complete, and what
\* a root records only to its newest phase row.
ChainStep ==
  /\ Rows \subseteq Rows'
  /\ \A t \in Rows :
       /\ row'[t] = row[t]
       /\ IsPhase(t) => /\ orch'[t] = orch[t]
                        /\ status[t] = "succeeded" => status'[t] = "succeeded"

\* A phase row stays in its chain if nothing is appended to it.
LEMMA InChainKept ==
  ASSUME TypeInv, ChainStep, NEW t \in Rows, IsPhase(t), InChain(t),
         \A u \in Rows' \ Rows : ~(IsPhase(u)' /\ row'[u].root = row[t].root),
         Newest(t) =>
           /\ orch'[row[t].root].attempt = orch[row[t].root].attempt
           /\ orch'[row[t].root].current \in {orch[row[t].root].current, row[t].phase}
  PROVE  InChain(t)' /\ (Newest(t)' <=> Newest(t))
<1>1. /\ IsPhase(t)' /\ row'[t] = row[t] /\ orch'[t] = orch[t]
      /\ status[t] = "succeeded" => status'[t] = "succeeded"
  BY DEF ChainStep, IsPhase
<1>2. Newest(t)' <=> Newest(t)
  BY <1>1 DEF ChainStep, Newest, IsPhase
<1>3. ~Newest(t) => status'[t] = "succeeded"
  BY <1>1 DEF InChain
<1>4. Newest(t) => MirroredBy(t)'
  BY <1>1 DEF InChain, MirroredBy
<1>5. Continues(t, row[t].parent)'
  <2>. DEFINE p == row[t].parent
  <2>1. CASE p = row[t].root /\ row[t].phase = 0 /\ orch[t].attempt = 0
    BY <1>1, <2>1 DEF Continues
  <2>2. CASE p \in Rows /\ IsPhase(p) /\ status[p] = "succeeded"
    <3>1. /\ row'[p] = row[p] /\ orch'[p] = orch[p] /\ status'[p] = "succeeded"
          /\ p \in Rows' /\ IsPhase(p)'
      BY <2>2 DEF ChainStep, IsPhase
    <3>2. NextPhase(row'[p].phase) = NextPhase(row[p].phase)
      BY <3>1
    <3>. QED
      BY <1>1, <3>1, <3>2 DEF InChain, Continues
  <2>. QED
    BY <2>1, <2>2 DEF InChain, Continues
<1>. QED
  BY <1>1, <1>2, <1>3, <1>4, <1>5 DEF InChain

\* A step that adds no row keeps every chain.
LEMMA ChainKept ==
  ASSUME TypeInv, ChainInv, ChainStep, n' = n,
         \A t \in Rows : Newest(t) =>
           /\ orch'[row[t].root].attempt = orch[row[t].root].attempt
           /\ orch'[row[t].root].current \in {orch[row[t].root].current, row[t].phase}
  PROVE  ChainInv'
<1>1. Rows' = Rows /\ \A t \in Rows : IsPhase(t)' <=> IsPhase(t)
  BY DEF Rows, ChainStep, IsPhase
<1>. QED
  BY <1>1, InChainKept DEF ChainInv

\* A new request is a chain of its own, and joins no other.
LEMMA ChainSubmitted ==
  ASSUME TypeInv, ChainInv, NEW s \in Service, NEW p \in Priority, SubmitRequest(s, p)
  PROVE  ChainInv'
<1>. DEFINE root == NewRow("root", 0, n + 1, s, p, TRUE)
            child == NewRow("phase", n + 1, n + 1, s, p, TRUE)
            k == n + 1
            row1 == Put(row, n + 1, root)
            orch1 == Put(orch, n + 1, NewOrchestration)
            status1 == Put(status, n + 1, "running")
<1>1. n \in Nat /\ k \in Nat /\ n' = k + 1 /\ Rows = 1 .. n /\ Rows' = 1 .. k + 1
  BY TaskTableAssumption DEF SubmitRequest, TypeInv, TypeOK, Rows
<1>2. /\ row' = Put(row1, k + 1, child) /\ orch' = Put(orch1, k + 1, NewOrchestration)
      /\ status' = Put(status1, k + 1, "queued")
  BY DEF SubmitRequest
<1>3. /\ child.kind = "phase" /\ child.root = k /\ child.parent = k /\ child.phase = 0
      /\ root.kind = "root"
  BY DEF NewRow
<1>4. /\ \A t \in 1 .. n : row1[t] = row[t] /\ orch1[t] = orch[t] /\ status1[t] = status[t]
      /\ row1[n + 1] = root /\ orch1[n + 1] = NewOrchestration
  <2>. HIDE DEF root
  <2>. QED
    BY <1>1, PutValue
<1>. HIDE DEF root, child, row1, orch1, status1
<1>5. /\ \A t \in 1 .. k : row'[t] = row1[t] /\ orch'[t] = orch1[t] /\ status'[t] = status1[t]
      /\ row'[k + 1] = child /\ orch'[k + 1] = NewOrchestration
  <2>. HIDE DEF k
  <2>. QED
    BY <1>1, <1>2, PutValue
<1>6. \A t \in Rows : t \in 1 .. k /\ t # k
  BY <1>1
<1>7. ChainStep
  BY <1>1, <1>4, <1>5, <1>6 DEF ChainStep
<1>8. row'[k] = root /\ orch'[k] = NewOrchestration
  BY <1>1, <1>4, <1>5
<1>9. SUFFICES ASSUME NEW t \in Rows', IsPhase(t)'
               PROVE  InChain(t)'
  BY DEF ChainInv
<1>10. CASE t \in Rows
  <2>1. row[t].root \in Rows /\ row[t].root # k /\ IsPhase(t)
    BY <1>7, <1>9, <1>10, <1>6 DEF TypeInv, Linked, IsPhase, ChainStep
  <2>2. \A u \in Rows' \ Rows : ~(IsPhase(u)' /\ row'[u].root = row[t].root)
    <3>1. \A u \in Rows' \ Rows : u = k \/ u = k + 1
      BY <1>1
    <3>. QED
      BY <3>1, <2>1, <1>3, <1>5, <1>8 DEF IsPhase
  <2>3. orch'[row[t].root] = orch[row[t].root]
    BY <2>1, <1>4, <1>5, <1>6, <1>1
  <2>. QED
    BY <2>1, <2>2, <2>3, <1>7, <1>10, InChainKept DEF ChainInv
<1>11. CASE t = k
  BY <1>11, <1>8, <1>3, <1>9 DEF IsPhase
<1>12. CASE t = k + 1
  <2>1. Newest(t)'
    BY <1>1, <1>9, <1>12 DEF Newest
  <2>2. MirroredBy(t)'
    BY <1>12, <1>3, <1>5, <1>8, PhaseOrchestratorAssumption DEF MirroredBy, NewOrchestration
  <2>3. Continues(t, row[t].parent)'
    BY <1>12, <1>3, <1>5 DEF Continues, NewOrchestration
  <2>. QED
    BY <2>1, <2>2, <2>3 DEF InChain
<1>. QED
  BY <1>1, <1>10, <1>11, <1>12

\* A row of another kind joins no chain.
LEMMA ChainSubmittedSingle ==
  ASSUME TypeInv, ChainInv, NEW kind \in {"plain", "bare"}, NEW s \in Service,
         NEW p \in Priority, SubmitSingle(kind, s, p)
  PROVE  ChainInv'
<1>. DEFINE new == NewRow(kind, 0, n + 1, s, p, FALSE)
<1>1. n \in Nat /\ n' = n + 1 /\ Rows = 1 .. n /\ Rows' = 1 .. n + 1
  BY TaskTableAssumption DEF SubmitSingle, TypeInv, TypeOK, Rows
<1>2. new.kind # "phase" /\ row' = Put(row, n + 1, new)
  BY DEF NewRow, SubmitSingle
<1>. HIDE DEF new
<1>3. /\ \A t \in 1 .. n : row'[t] = row[t] /\ orch'[t] = orch[t] /\ status'[t] = status[t]
      /\ row'[n + 1] = new
  <2>1. (\A t \in 1 .. n : row'[t] = row[t]) /\ row'[n + 1] = new
    BY <1>1, <1>2, PutValue
  <2>2. \A t \in 1 .. n : orch'[t] = orch[t]
    BY <1>1, PutValue DEF SubmitSingle
  <2>3. \A t \in 1 .. n : status'[t] = status[t]
    BY <1>1, PutValue DEF SubmitSingle
  <2>. QED
    BY <2>1, <2>2, <2>3
<1>4. ChainStep
  BY <1>1, <1>3 DEF ChainStep
<1>5. \A u \in Rows' \ Rows : ~IsPhase(u)'
  BY <1>1, <1>2, <1>3 DEF IsPhase
<1>6. SUFFICES ASSUME NEW t \in Rows', IsPhase(t)'
               PROVE  InChain(t)'
  BY DEF ChainInv
<1>7. t \in Rows /\ IsPhase(t) /\ row[t].root \in Rows
  BY <1>1, <1>3, <1>5, <1>6 DEF IsPhase, TypeInv, Linked
<1>8. orch'[row[t].root] = orch[row[t].root]
  BY <1>1, <1>3, <1>7
<1>. QED
  BY <1>4, <1>5, <1>7, <1>8, InChainKept DEF ChainInv

\* A phase row that has not succeeded is the newest of its chain.
LEMMA UnfinishedIsNewest ==
  ASSUME TypeInv, ChainInv, NEW t \in Rows, IsPhase(t), status[t] # "succeeded"
  PROVE  Newest(t) /\ InChain(t)
BY DEF ChainInv, InChain

\* The end of a worker's transaction keeps every chain.
LEMMA ChainFinished ==
  ASSUME TypeInv, TypeInv', LockInv, ChainInv, NEW w \in Worker, Finish(w)
  PROVE  ChainInv'
<1>1. PICK t : t = job[w]
  OBVIOUS
<1>. DEFINE r == row[t].root
<1>2. OnlyOwnRows(t) /\ (Appended(t) \/ NotAppended(t)) /\ t \in Rows
  BY <1>1, FinishEffect
<1>3. status[t] = "queued"
  BY <1>1, <1>2 DEF LockInv, LeaseExclusive, TypeInv, TypeOK, Rows
<1>4. r \in Rows /\ (IsPhase(t) => IsRoot(r))
  BY <1>2 DEF TypeInv, Linked
<1>5. n \in Nat /\ Rows = 1 .. n /\ Rows' = 1 .. n'
  BY TaskTableAssumption DEF TypeInv, TypeOK, Rows
<1>6. ChainStep
  <2>1. Rows \subseteq Rows'
    BY <1>2, <1>5 DEF Appended, NotAppended
  <2>2. ASSUME NEW u \in Rows, IsPhase(u)
        PROVE  /\ orch'[u] = orch[u]
               /\ status[u] = "succeeded" => status'[u] = "succeeded"
    <3>1. ~(u = r /\ IsPhase(t))
      BY <2>2, <1>4 DEF IsPhase, IsRoot
    <3>. QED
      BY <2>2, <3>1, <1>2, <1>3 DEF OnlyOwnRows
  <2>. QED
    BY <2>1, <2>2, <1>2 DEF ChainStep, OnlyOwnRows
<1>7. ASSUME NEW u \in Rows, Newest(u), u # t
      PROVE  orch'[row[u].root] = orch[row[u].root]
  <2>1. CASE IsPhase(t)
    <3>1. Newest(t)
      BY <2>1, <1>2, <1>3, UnfinishedIsNewest
    <3>2. row[u].root # r
      BY <3>1, <1>7, <1>2, <1>5 DEF Newest
    <3>. QED
      BY <3>2, <1>7, <1>2 DEF OnlyOwnRows, TypeInv, Linked
  <2>2. CASE ~IsPhase(t)
    BY <2>2, <1>2, <1>7 DEF OnlyOwnRows, TypeInv, Linked
  <2>. QED
    BY <2>1, <2>2
<1>8. CASE NotAppended(t)
  <2>1. ASSUME NEW u \in Rows, Newest(u)
        PROVE  /\ orch'[row[u].root].attempt = orch[row[u].root].attempt
               /\ orch'[row[u].root].current \in {orch[row[u].root].current, row[u].phase}
    BY <2>1, <1>7, <1>8 DEF NotAppended
  <2>. QED
    BY <2>1, <1>6, <1>8, ChainKept DEF NotAppended
<1>9. CASE Appended(t)
  <2>1. /\ IsPhase(t) /\ n' = n + 1 /\ row'[n + 1].kind = "phase" /\ Rows' \ Rows = {n + 1}
        /\ row'[n + 1].root = r /\ status'[t] = "succeeded"
    BY <1>5, <1>9 DEF Appended, IsPhase
  <2>2. Newest(t) /\ InChain(t)
    BY <2>1, <1>2, <1>3, UnfinishedIsNewest
  <2>3. SUFFICES ASSUME NEW u \in Rows', IsPhase(u)'
                 PROVE  InChain(u)'
    BY DEF ChainInv
  <2>4. ASSUME u \in Rows, row[u].root # r
        PROVE  InChain(u)'
    <3>1. IsPhase(u) /\ InChain(u)
      BY <2>3, <2>4, <1>6 DEF ChainInv, ChainStep, IsPhase
    <3>2. orch'[row[u].root] = orch[row[u].root]
      BY <2>4, <1>2 DEF OnlyOwnRows, TypeInv, Linked
    <3>. QED
      BY <3>1, <3>2, <2>1, <2>4, <1>6, InChainKept
  <2>5. ASSUME u \in Rows, row[u].root = r
        PROVE  InChain(u)'
    <3>1. /\ IsPhase(u) /\ InChain(u) /\ row'[u] = row[u] /\ orch'[u] = orch[u]
          /\ u < n + 1
      BY <2>3, <2>5, <1>5, <1>6 DEF ChainInv, ChainStep, IsPhase
    <3>2. status'[u] = "succeeded"
      <4>1. CASE u = t
        BY <4>1, <2>1
      <4>2. CASE u # t
        <5>1. ~Newest(u)
          BY <4>2, <2>1, <2>2, <2>5, <1>2, <1>5 DEF Newest
        <5>. QED
          BY <5>1, <3>1, <1>6, <2>5 DEF InChain, ChainStep
      <4>. QED
        BY <4>1, <4>2
    <3>3. ~Newest(u)'
      BY <3>1, <2>1, <2>5, <1>5 DEF Newest, IsPhase
    <3>4. Continues(u, row[u].parent)'
      <4>. DEFINE p == row[u].parent
      <4>1. CASE p = row[u].root /\ row[u].phase = 0 /\ orch[u].attempt = 0
        BY <3>1, <4>1 DEF Continues
      <4>2. CASE p \in Rows /\ IsPhase(p) /\ status[p] = "succeeded"
        <5>1. /\ row'[p] = row[p] /\ orch'[p] = orch[p] /\ status'[p] = "succeeded"
              /\ p \in Rows' /\ IsPhase(p)'
          BY <3>1, <4>2, <1>6 DEF ChainStep, IsPhase
        <5>2. NextPhase(row'[p].phase) = NextPhase(row[p].phase)
          BY <5>1
        <5>. QED
          BY <3>1, <5>1, <5>2 DEF InChain, Continues
      <4>. QED
        BY <3>1, <4>1, <4>2 DEF InChain, Continues
    <3>. QED
      BY <3>1, <3>2, <3>3, <3>4 DEF InChain
  <2>6. CASE u = n + 1
    <3>1. Newest(u)'
      BY <2>6, <2>1, <2>3, <1>5 DEF Newest, IsPhase
    <3>2. MirroredBy(t) /\ row'[r] = row[r] /\ row'[t] = row[t] /\ orch'[t] = orch[t]
      BY <2>1, <2>2, <1>2, <1>4, <1>6 DEF InChain, ChainStep
    <3>3. orch[t] \in Orchestration /\ orch[r] \in Orchestration
      BY <1>2, <1>4 DEF TypeInv, TypeOK
    <3>4. MirroredBy(u)'
      BY <2>6, <2>1, <3>2, <1>9 DEF Appended, MirroredBy
    <3>5. Continues(u, row[u].parent)'
      <4>1. /\ row'[u].parent = t /\ t \in Rows' /\ IsPhase(t)' /\ t < u
            /\ row'[t].root = row'[u].root /\ status'[t] = "succeeded"
        BY <2>1, <2>6, <3>2, <1>2, <1>5, <1>9 DEF Appended, IsPhase
      <4>2. NextPhase(row'[t].phase) = NextPhase(row[t].phase)
        BY <3>2
      <4>. QED
        BY <4>1, <4>2, <2>6, <3>2, <1>9 DEF Appended, Continues, MirroredBy
    <3>. QED
      BY <3>1, <3>4, <3>5 DEF InChain
  <2>. QED
    BY <2>1, <2>4, <2>5, <2>6
<1>. QED
  BY <1>2, <1>8, <1>9

\* Every step keeps every chain.
LEMMA ChainNext ==
  ASSUME TypeInv, LockInv, ChainInv, [Next]_vars
  PROVE  ChainInv'
<1>. TypeInv'
  BY TypeStep
<1>0. ASSUME UNCHANGED <<n, row, orch>>,
             \A t \in Rows : status[t] = "succeeded" => status'[t] = "succeeded"
      PROVE  ChainInv'
  BY <1>0, ChainKept DEF ChainStep, Rows
<1>1. ASSUME NEW s \in Service, NEW p \in Priority,
             SubmitRequest(s, p) \/ SubmitPlain(s, p) \/ InsertBare(s, p)
      PROVE  ChainInv'
  BY <1>1, ChainSubmitted, ChainSubmittedSingle DEF SubmitPlain, InsertBare
<1>2. ASSUME NEW w \in Worker, Finish(w)
      PROVE  ChainInv'
  BY <1>2, ChainFinished
<1>3. ASSUME NEW w \in Worker, LeaseNext(w) \/ Rollback(w)
      PROVE  ChainInv'
  BY <1>3, <1>0 DEF LeaseNext, Rollback
<1>4. ASSUME NEW w \in Worker, RecoverExpired(w)
      PROVE  ChainInv'
  <2>1. UNCHANGED <<n, row, orch>>
        /\ \A t \in Rows : status[t] = "succeeded" => status'[t] = "succeeded"
    BY <1>4 DEF RecoverExpired, ExpiredRows
  <2>. QED
    BY <2>1, <1>0
<1>5. CASE RecoverBlocked
  BY <1>5, <1>0 DEF RecoverBlocked
<1>6. ASSUME NEW t \in Rows, ExpireLease(t) \/ BeginApproval(t) \/ ApproveAbandoned(t)
      PROVE  ChainInv'
  BY <1>6, <1>0 DEF ExpireLease, BeginApproval, ApproveAbandoned
<1>7. ASSUME NEW t \in Rows,
             ApproveMerged(t) \/ ApproveFailed(t) \/ Reject(t) \/ ApplyArtifact(t)
      PROVE  ChainInv'
  <2>1. UNCHANGED <<n, row, orch>> /\ status[t] = "waiting_approval"
    BY <1>7 DEF ApproveMerged, ApproveFailed, EndApproval, Reject, ApplyArtifact,
                BlockWaiting, LockInv, ApprovingWaits
  <2>2. \A u \in Rows \ {t} : status'[u] = status[u]
    BY <1>7 DEF ApproveMerged, ApproveFailed, Reject, ApplyArtifact, BlockWaiting,
                TypeInv, TypeOK
  <2>. QED
    BY <2>1, <2>2, <1>0
<1>8. CASE UNCHANGED vars
  BY <1>8, <1>0 DEF vars
<1>. QED
  BY <1>1, <1>2, <1>3, <1>4, <1>5, <1>6, <1>7, <1>8 DEF Next

\* The inductive invariant.
IInv == TypeInv /\ LockInv /\ ChainInv

\* It holds in every state of every behaviour.
LEMMA Invariant == Spec => []IInv
<1>1. Init => IInv
  BY TypeInit DEF Init, IInv, LockInv, LeaseExclusive, ApprovingWaits, ChainInv, Rows
<1>2. IInv /\ [Next]_vars => IInv'
  BY TypeStep, LockStep, ChainNext DEF IInv
<1>. QED
  BY <1>1, <1>2, PTL DEF Spec

\* A request never has two phases in progress, whatever workers, crashes,
\* rework and recovery do.
THEOREM OnePhaseAtATime == Spec => []OnlyNewestUnfinished
<1>1. IInv => OnlyNewestUnfinished
  BY ChainParts DEF IInv
<1>. QED
  BY <1>1, Invariant, PTL

\* The root's payload never disagrees with the chain, and no chain has more
\* rounds of rework than the limit.
THEOREM RootAgreesWithChain == Spec => []RootMirrorsChain
<1>1. IInv => RootMirrorsChain
  BY ChainParts DEF IInv
<1>. QED
  BY <1>1, Invariant, PTL

\* Every phase row continues a finished one in the order of the flow.
THEOREM PhasesInOrder == Spec => []ChainOrder
<1>1. IInv => ChainOrder
  BY ChainParts DEF IInv
<1>. QED
  BY <1>1, Invariant, PTL
=============================================================================
