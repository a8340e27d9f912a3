---------------------------- MODULE RequestProofs ----------------------------
(***************************************************************************)
(* What TaskBackend promises about whole requests, and TaskPage about a    *)
(* page of one, proved for any workers, services, flow, rework limit and   *)
(* number of requests.                                                     *)
(***************************************************************************)
EXTENDS TaskPage, TaskBackendProofs, FiniteSetTheorems

-----------------------------------------------------------------------------
(* Where a phase is in the flow.                                           *)

\* The phase p has one place in the flow.
InFlow(p) == ~DuplicatePhases /\ \E i \in 1 .. Len(PhaseFlow) : PhaseFlow[i] = p

\* A flow without duplicates has no two places with one phase.
LEMMA FlowInjective ==
  ASSUME ~DuplicatePhases, NEW i \in 1 .. Len(PhaseFlow), NEW j \in 1 .. Len(PhaseFlow),
         PhaseFlow[i] = PhaseFlow[j]
  PROVE  i = j
<1>. DEFINE S == 1 .. Len(PhaseFlow)
            T == {PhaseFlow[k] : k \in DOMAIN PhaseFlow}
            f == [k \in S |-> PhaseFlow[k]]
<1>1. DOMAIN PhaseFlow = S /\ Len(PhaseFlow) \in Nat
  BY PhaseOrchestratorAssumption
<1>2. f \in Surjection(S, T)
  BY <1>1 DEF Surjection
<1>3. IsFiniteSet(S) /\ Cardinality(S) = Len(PhaseFlow)
  <2>1. IsFiniteSet(1 .. Len(PhaseFlow))
        /\ Cardinality(1 .. Len(PhaseFlow)) = IF 1 > Len(PhaseFlow) THEN 0 ELSE Len(PhaseFlow) - 1 + 1
    BY <1>1, FS_Interval
  <2>. QED
    BY <2>1, <1>1
<1>4. Cardinality(T) = Cardinality(S)
  BY <1>3 DEF DuplicatePhases
<1>5. f \in Injection(S, T)
  <2>. HIDE DEF S, T, f
  <2>. QED
    BY <1>2, <1>3, <1>4, FS_Surjection
<1>6. f[i] = f[j]
  OBVIOUS
<1>. QED
  BY <1>5, <1>6 DEF Injection, IsInjective

\* The place of a phase in the flow.
LEMMA PlaceInFlow ==
  ASSUME NEW i \in 1 .. Len(PhaseFlow), ~DuplicatePhases
  PROVE  InFlow(PhaseFlow[i]) /\ PhaseIndex(PhaseFlow[i]) = i
<1>1. InFlow(PhaseFlow[i])
  BY DEF InFlow
<1>2. \E j \in 1 .. Len(PhaseFlow) : PhaseFlow[j] = PhaseFlow[i]
  OBVIOUS
<1>3. /\ PhaseIndex(PhaseFlow[i]) \in 1 .. Len(PhaseFlow)
      /\ PhaseFlow[PhaseIndex(PhaseFlow[i])] = PhaseFlow[i]
  BY <1>2 DEF PhaseIndex
<1>. QED
  BY <1>1, <1>3, FlowInjective

\* A phase the orchestrator goes on from is in the flow, and the next phase,
\* which is another one, follows it.
LEMMA NextPlace ==
  ASSUME NEW p \in Phase, CompletionFault(p) = "none", p # 5
  PROVE  /\ InFlow(p) /\ InFlow(NextPhase(p))
         /\ PhaseIndex(p) \in 1 .. Len(PhaseFlow) - 1
         /\ PhaseFlow[PhaseIndex(p)] = p
         /\ PhaseIndex(NextPhase(p)) = PhaseIndex(p) + 1
         /\ NextPhase(p) = PhaseFlow[PhaseIndex(p) + 1]
         /\ NextPhase(p) # p
<1>1. ~DuplicatePhases /\ HasNextPhase(p)
  BY DEF CompletionFault
<1>2. PhaseIndex(p) \in 1 .. Len(PhaseFlow) /\ PhaseFlow[PhaseIndex(p)] = p
  BY PhaseIndexType
<1>3. Len(PhaseFlow) \in Nat /\ PhaseIndex(p) < Len(PhaseFlow)
  BY <1>1, PhaseOrchestratorAssumption DEF HasNextPhase
<1>4. PhaseIndex(p) + 1 \in 1 .. Len(PhaseFlow) /\ NextPhase(p) = PhaseFlow[PhaseIndex(p) + 1]
  BY <1>2, <1>3 DEF NextPhase
<1>5. InFlow(NextPhase(p)) /\ PhaseIndex(NextPhase(p)) = PhaseIndex(p) + 1
  BY <1>1, <1>4, PlaceInFlow
<1>6. InFlow(p)
  BY <1>1, <1>2 DEF InFlow
<1>7. NextPhase(p) # p
  BY <1>2, <1>5
<1>. QED
  BY <1>2, <1>3, <1>4, <1>5, <1>6, <1>7

-----------------------------------------------------------------------------
(* The strengthened invariants.                                            *)

(***************************************************************************)
(* The columns of a committed row: nobody sees a row leased; phase rows    *)
(* wait, are blocked or are done; only a row without payload is left       *)
(* running with a lease.                                                   *)
(***************************************************************************)
ColumnsOf(t) ==
  /\ status[t] # "leased"
  /\ IsPhase(t) => status[t] \in {"queued", "blocked", "succeeded"}
  /\ status[t] = "running" => IsRoot(t) \/ row[t].kind = "bare"
  /\ row[t].kind # "bare" => lease[t] = "null"
  /\ row[t].kind = "bare" => BareRows
  /\ IsRoot(t) => row[t].target /\ row[t].phase = 0

ColumnInv == \A t \in Rows : ColumnsOf(t)

\* Of two rows of a chain, u belongs to a later round, or to a later phase of
\* the same round.
Later(t, u) ==
  \/ orch[t].attempt < orch[u].attempt
  \/ /\ orch[t].attempt = orch[u].attempt
     /\ InFlow(row[t].phase) /\ InFlow(row[u].phase)
     /\ PhaseIndex(row[t].phase) < PhaseIndex(row[u].phase)

RoundInv ==
  \A t, u \in Rows :
    IsPhase(t) /\ IsPhase(u) /\ row[t].root = row[u].root /\ t < u => Later(t, u)

(***************************************************************************)
(* What the newest phase row of a root says of its status, when blocked    *)
(* rows are not queued again.                                              *)
(***************************************************************************)
GateOf(t) ==
  LET r == row[t].root
  IN  /\ status[r] \in {"running", "waiting_approval", "succeeded", "blocked"}
      /\ status[r] \in {"waiting_approval", "succeeded"} =>
           orch[r].review = "approved" /\ row[t].phase = 5 /\ status[t] = "succeeded"
      /\ status[r] # "running" => status[t] # "queued"

\* Every root has a chain, and its end is as the root's status says.
GateInv ==
  /\ \A r \in Rows : IsRoot(r) => \E t \in Rows : Newest(t) /\ row[t].root = r
  /\ \A t \in Rows : Newest(t) => GateOf(t)

\* A running root's newest phase row is queued, or lost to the LLM.
RunningOf(t) ==
  status[row[t].root] = "running" =>
    \/ status[t] = "queued"
    \/ status[t] = "blocked" /\ why[t] = "llm_generation_failed"

RunningInv == \A t \in Rows : Newest(t) => RunningOf(t)

(***************************************************************************)
(* Phase 0 is only at the head of the flow, as in the one the dashboard    *)
(* writes (dashboard.py:185).  The root itself is a row of phase 0, which  *)
(* select_active_phase_task takes for a row of its chain: with a phase 0   *)
(* further on the chain would end before it, and leave the root running.   *)
(***************************************************************************)
ZeroOnlyFirst == \A i \in 2 .. Len(PhaseFlow) : PhaseFlow[i] # 0

-----------------------------------------------------------------------------
(* What the steps do to the table.                                         *)

\* Only the rows of S change their status.
StatusOnly(S) == \A u \in Rows \ S : status'[u] = status[u]

\* No row is added, and only the rows of S change their payload.
PayloadOnly(S) ==
  /\ n' = n /\ \A u \in Rows : row'[u] = row[u]
  /\ \A u \in Rows \ S : orch'[u] = orch[u]

\* The rows there are keep all their columns.
TableKept ==
  \A u \in Rows : /\ row'[u] = row[u] /\ status'[u] = status[u]
                  /\ orch'[u] = orch[u] /\ why'[u] = why[u]
                  /\ lease'[u] = lease[u]

\* A root and the row of its first phase are inserted.
Submits ==
  /\ n' = n + 2 /\ TableKept
  /\ row'[n + 1].kind = "root" /\ row'[n + 1].root = n + 1
  /\ row'[n + 1].target /\ row'[n + 1].phase = 0
  /\ row'[n + 2].kind = "phase" /\ row'[n + 2].root = n + 1 /\ row'[n + 2].phase = 0
  /\ status'[n + 1] = "running" /\ status'[n + 2] = "queued"
  /\ orch'[n + 1] = NewOrchestration /\ orch'[n + 2] = NewOrchestration
  /\ lease'[n + 1] = "null" /\ lease'[n + 2] = "null"

\* A row in no chain is inserted.
SubmitsSingle ==
  /\ n' = n + 1 /\ TableKept
  /\ row'[n + 1].kind \in {"plain", "bare"} /\ row'[n + 1].root = n + 1
  /\ row'[n + 1].kind = "bare" => BareRows
  /\ status'[n + 1] = "queued" /\ lease'[n + 1] = "null"

\* A row in no chain is settled.
EndsSingle(t) ==
  /\ ~IsPhase(t) /\ PayloadOnly({}) /\ StatusOnly({t})
  /\ status'[t] \in {"blocked", "succeeded", "waiting_approval", "running"}
  /\ status'[t] = "running" => row[t].kind = "bare"

\* A phase row is blocked and its request is not told.
LosesPhase(t) ==
  /\ IsPhase(t) /\ PayloadOnly({}) /\ StatusOnly({t})
  /\ status'[t] = "blocked" /\ why'[t] = "llm_generation_failed"

\* A phase row is settled whose request was decided before.
EndsLate(t) ==
  /\ IsPhase(t) /\ PayloadOnly({}) /\ StatusOnly({t})
  /\ status'[t] \in {"blocked", "succeeded"}
  /\ status[row[t].root] \in TERMINAL_ROOT_STATUSES

\* A phase row is settled and its request blocked.
StopsRequest(t) ==
  LET r == row[t].root
  IN  /\ IsPhase(t) /\ PayloadOnly({r}) /\ StatusOnly({t, r})
      /\ status'[t] \in {"blocked", "succeeded"}
      /\ status[r] \notin TERMINAL_ROOT_STATUSES /\ status'[r] = "blocked"
      /\ orch'[r].current = row[t].phase /\ orch'[r].attempt = orch[r].attempt

\* A phase row is done and the next one inserted.
PassesOn(t) ==
  /\ Appended(t) /\ StatusOnly({t})
  /\ \A u \in Rows : row'[u] = row[u]
  /\ \A u \in Rows \ {row[t].root} : orch'[u] = orch[u]
  /\ status[row[t].root] \notin TERMINAL_ROOT_STATUSES
  /\ lease'[n + 1] = "null"

\* The audit approved.
Promotes(t) ==
  LET r == row[t].root
  IN  /\ IsPhase(t) /\ PayloadOnly({r}) /\ StatusOnly({t, r})
      /\ row[t].phase = 5 /\ status'[t] = "succeeded"
      /\ status[r] \notin TERMINAL_ROOT_STATUSES /\ status'[r] # status[r]
      /\ status'[r] = IF row[r].target THEN "waiting_approval" ELSE "succeeded"
      /\ orch'[r].current = 5 /\ orch'[r].attempt = orch[r].attempt
      /\ orch'[r].review = "approved"

\* A phase row is settled and the next one not inserted: its root, in progress
\* and of phase 0, is taken for it.
EndsBeside(t) ==
  /\ ~ZeroOnlyFirst
  /\ IsPhase(t) /\ PayloadOnly({}) /\ StatusOnly({t})
  /\ status'[t] = "succeeded"
  /\ status[row[t].root] \notin TERMINAL_ROOT_STATUSES

\* The transaction of a worker that has leased t commits.
Ends(t) ==
  /\ t \in Rows /\ status[t] = "queued"
  /\ \A u \in Rows \ {t} : why'[u] = why[u]
  /\ \A u \in Rows : lease'[u] # lease[u] => u = t /\ row[t].kind = "bare"
  /\ \/ EndsSingle(t) \/ LosesPhase(t) \/ EndsLate(t)
     \/ StopsRequest(t) \/ PassesOn(t) \/ Promotes(t) \/ EndsBeside(t)

\* A waiting row is decided.
Decides(t) ==
  /\ t \in Rows /\ status[t] = "waiting_approval"
  /\ status'[t] \in {"succeeded", "blocked"}
  /\ PayloadOnly({}) /\ StatusOnly({t})
  /\ lease' = lease /\ \A u \in Rows \ {t} : why'[u] = why[u]

\* Rows left running, or blocked ones, are queued again.
Requeues ==
  /\ PayloadOnly({}) /\ why' = why
  /\ \A u \in Rows :
       \/ status'[u] = status[u] /\ lease'[u] \in {lease[u], "null"}
       \/ /\ status'[u] = "queued" /\ lease'[u] = "null"
          /\ status[u] = "running" /\ row[u].kind = "bare"
       \/ /\ status'[u] = "queued" /\ lease'[u] = lease[u]
          /\ status[u] = "blocked" /\ BlockedRecovery

\* Locks are taken or given up, or time passes.
Rests ==
  /\ UNCHANGED <<n, row, status, orch, why>>
  /\ \A u \in Rows : lease[u] = "null" => lease'[u] = "null"

\* What an insertion of one row leaves of a column.
LEMMA PutOne ==
  ASSUME TypeInv, NEW column, NEW column1, NEW v, column1 = Put(column, n + 1, v)
  PROVE  (\A u \in Rows : column1[u] = column[u]) /\ column1[n + 1] = v
<1>1. n \in Nat /\ Rows = 1 .. n
  BY TaskTableAssumption DEF TypeInv, TypeOK, Rows
<1>. QED
  BY <1>1, PutValue

\* What an insertion of two rows leaves of a column.
LEMMA PutTwo ==
  ASSUME TypeInv, NEW column, NEW column2, NEW v, NEW w,
         column2 = Put(Put(column, n + 1, v), n + 1 + 1, w)
  PROVE  /\ \A u \in Rows : column2[u] = column[u]
         /\ column2[n + 1] = v /\ column2[n + 2] = w
<1>. DEFINE mid == Put(column, n + 1, v)
            k == n + 1
<1>1. n \in Nat /\ Rows = 1 .. n /\ k \in Nat /\ k + 1 = n + 2
  BY TaskTableAssumption DEF TypeInv, TypeOK, Rows
<1>2. (\A u \in 1 .. n : mid[u] = column[u]) /\ mid[k] = v
  BY <1>1, PutValue
<1>3. column2 = Put(mid, k + 1, w)
  OBVIOUS
<1>. HIDE DEF mid
<1>4. (\A u \in 1 .. k : column2[u] = mid[u]) /\ column2[k + 1] = w
  <2>. HIDE DEF k
  <2>. QED
    BY <1>1, <1>3, PutValue
<1>. QED
  BY <1>1, <1>2, <1>4

\* The rows a submission inserts.
LEMMA SubmitEffect ==
  ASSUME TypeInv, NEW s \in Service, NEW p \in Priority, SubmitRequest(s, p)
  PROVE  Submits
<1>. DEFINE root == NewRow("root", 0, n + 1, s, p, TRUE)
            child == NewRow("phase", n + 1, n + 1, s, p, TRUE)
<1>1. /\ n' = n + 2
      /\ row' = Put(Put(row, n + 1, root), n + 1 + 1, child)
      /\ status' = Put(Put(status, n + 1, "running"), n + 1 + 1, "queued")
      /\ lease' = Put(Put(lease, n + 1, "null"), n + 1 + 1, "null")
      /\ orch' = Put(Put(orch, n + 1, NewOrchestration), n + 1 + 1, NewOrchestration)
      /\ why' = Put(Put(why, n + 1, "none"), n + 1 + 1, "none")
  BY DEF SubmitRequest
<1>2. /\ root.kind = "root" /\ root.root = n + 1 /\ root.target /\ root.phase = 0
      /\ child.kind = "phase" /\ child.root = n + 1 /\ child.phase = 0
  BY DEF NewRow
<1>. HIDE DEF root, child
<1>3. (\A u \in Rows : row'[u] = row[u]) /\ row'[n + 1] = root /\ row'[n + 2] = child
  BY <1>1, PutTwo
<1>4. /\ \A u \in Rows : status'[u] = status[u]
      /\ status'[n + 1] = "running" /\ status'[n + 2] = "queued"
  BY <1>1, PutTwo
<1>5. /\ \A u \in Rows : lease'[u] = lease[u]
      /\ lease'[n + 1] = "null" /\ lease'[n + 2] = "null"
  BY <1>1, PutTwo
<1>6. /\ \A u \in Rows : orch'[u] = orch[u]
      /\ orch'[n + 1] = NewOrchestration /\ orch'[n + 2] = NewOrchestration
  BY <1>1, PutTwo
<1>7. \A u \in Rows : why'[u] = why[u]
  BY <1>1, PutTwo
<1>. QED
  BY <1>1, <1>2, <1>3, <1>4, <1>5, <1>6, <1>7 DEF Submits, TableKept

LEMMA SubmitSingleEffect ==
  ASSUME TypeInv, NEW s \in Service, NEW p \in Priority,
         SubmitPlain(s, p) \/ InsertBare(s, p)
  PROVE  SubmitsSingle
<1>1. PICK kind \in {"plain", "bare"} : SubmitSingle(kind, s, p) /\ (kind = "bare" => BareRows)
  BY DEF SubmitPlain, InsertBare
<1>. DEFINE new == NewRow(kind, 0, n + 1, s, p, FALSE)
<1>2. /\ n' = n + 1
      /\ row' = Put(row, n + 1, new)
      /\ status' = Put(status, n + 1, "queued")
      /\ lease' = Put(lease, n + 1, "null")
      /\ orch' = Put(orch, n + 1, NewOrchestration)
      /\ why' = Put(why, n + 1, "none")
  BY <1>1 DEF SubmitSingle
<1>3. new.kind = kind /\ new.root = n + 1
  BY DEF NewRow
<1>. HIDE DEF new
<1>4. (\A u \in Rows : row'[u] = row[u]) /\ row'[n + 1] = new
  BY <1>2, PutOne
<1>5. (\A u \in Rows : status'[u] = status[u]) /\ status'[n + 1] = "queued"
  BY <1>2, PutOne
<1>6. (\A u \in Rows : lease'[u] = lease[u]) /\ lease'[n + 1] = "null"
  BY <1>2, PutOne
<1>7. (\A u \in Rows : orch'[u] = orch[u]) /\ \A u \in Rows : why'[u] = why[u]
  BY <1>2, PutOne
<1>. QED
  BY <1>1, <1>2, <1>3, <1>4, <1>5, <1>6, <1>7 DEF SubmitsSingle, TableKept

\* block_root_task settles the task late, or stops its request.
LEMMA BlockOutcome ==
  ASSUME TypeInv, NEW t \in Rows, IsPhase(t), NEW own \in {"blocked", "succeeded"}, NEW reason,
         BlockRootTask(t, own, reason), UNCHANGED <<n, row>>
  PROVE  EndsLate(t) \/ StopsRequest(t)
<1>. DEFINE r == row[t].root
            blocked == [orch[r] EXCEPT !.current = row[t].phase, !.failure = reason]
<1>1. r \in Rows /\ r # t /\ orch[r] \in Orchestration
  BY DEF TypeInv, TypeOK, Linked, IsPhase, IsRoot
<1>2. CASE /\ status[r] \in TERMINAL_ROOT_STATUSES
           /\ status' = [status EXCEPT ![t] = own]
           /\ UNCHANGED orch
  BY <1>1, <1>2 DEF EndsLate, PayloadOnly, StatusOnly, TypeInv, TypeOK
<1>3. CASE /\ status[r] \notin TERMINAL_ROOT_STATUSES
           /\ status' = [status EXCEPT ![t] = own, ![r] = "blocked"]
           /\ orch' = [orch EXCEPT ![r] = blocked]
  <2>1. blocked.current = row[t].phase /\ blocked.attempt = orch[r].attempt
    BY <1>1 DEF Orchestration
  <2>. HIDE DEF blocked
  <2>2. orch'[r] = blocked /\ \A u \in Rows \ {r} : orch'[u] = orch[u]
    BY <1>1, <1>3 DEF TypeInv, TypeOK
  <2>3. status'[t] = own /\ status'[r] = "blocked" /\ \A u \in Rows \ {t, r} : status'[u] = status[u]
    BY <1>1, <1>3 DEF TypeInv, TypeOK
  <2>. QED
    BY <1>1, <1>3, <2>1, <2>2, <2>3 DEF StopsRequest, PayloadOnly, StatusOnly
<1>. QED
  BY <1>2, <1>3 DEF BlockRootTask

\* A row is appended to the chain of t and nothing else changes.
LEMMA AppendOutcome ==
  ASSUME TypeInv, NEW t \in Rows, IsPhase(t), NEW p \in Phase,
         NEW payload \in Orchestration, NEW progress \in Orchestration,
         AppendPhase(t, p, payload, progress), Appended(t),
         status[row[t].root] \notin TERMINAL_ROOT_STATUSES
  PROVE  /\ PassesOn(t)
         /\ \A u \in Rows : why'[u] = why[u] /\ lease'[u] = lease[u]
<1>1. (\A u \in Rows : lease'[u] = lease[u]) /\ lease'[n + 1] = "null"
  BY PutOne DEF AppendPhase
<1>2. \A u \in Rows : why'[u] = why[u]
  BY PutOne DEF AppendPhase
<1>3. /\ \A u \in Rows : row'[u] = row[u]
      /\ \A u \in Rows \ {t} : status'[u] = status[u]
      /\ \A u \in Rows \ {row[t].root} : orch'[u] = orch[u]
  BY AppendEffect
<1>. QED
  BY <1>1, <1>2, <1>3 DEF PassesOn, StatusOnly

\* The only row of a chain in progress is t: none of the next phase is, but
\* for the root where the flow comes back to phase 0.
LEMMA NoTwins ==
  ASSUME TypeInv, ChainInv, ZeroOnlyFirst, NEW t \in Rows, IsPhase(t), status[t] = "queued",
         row[t].phase # 5, CompletionFault(row[t].phase) = "none", NEW u \in Rows,
         row[u].root = row[t].root, row[u].phase = NextPhase(row[t].phase),
         status[u] \in ActiveStatuses, ColumnInv
  PROVE  FALSE
<1>. DEFINE q == NextPhase(row[t].phase)
<1>1. row[t].phase \in Phase
  BY DEF TypeInv, TypeOK, Row
<1>2. q # row[t].phase /\ q # 0
  <2>1. PhaseIndex(row[t].phase) \in 1 .. Len(PhaseFlow) - 1 /\ Len(PhaseFlow) \in Nat
        /\ q = PhaseFlow[PhaseIndex(row[t].phase) + 1]
    BY <1>1, NextPlace, PhaseOrchestratorAssumption
  <2>2. PhaseIndex(row[t].phase) + 1 \in 2 .. Len(PhaseFlow)
    BY <2>1
  <2>. QED
    BY <1>1, <2>1, <2>2, NextPlace DEF ZeroOnlyFirst
<1>. HIDE DEF q
<1>3. CASE IsPhase(u)
  <2>1. Newest(t) /\ Newest(u)
    BY <1>3, UnfinishedIsNewest DEF ActiveStatuses
  <2>2. u =< t /\ t =< u /\ t \in Int /\ u \in Int
    BY <1>3, <2>1, TaskTableAssumption DEF Newest, Rows, TypeInv, TypeOK
  <2>3. u = t
    BY <2>2
  <2>. QED
    BY <2>3, <1>2 DEF q
<1>4. CASE ~IsPhase(u)
  <2>1. u = row[t].root /\ IsRoot(u)
    BY <1>4 DEF TypeInv, Linked
  <2>. QED
    BY <2>1, <1>2 DEF q, ColumnInv, ColumnsOf
<1>. QED
  BY <1>3, <1>4

\* The audit's approval, as an effect on the table.
LEMMA PromoteOutcome ==
  ASSUME TypeInv, NEW t \in Rows, IsPhase(t), PromoteRoot(t)
  PROVE  Promotes(t)
<1>. DEFINE r == row[t].root
            outcome == IF row[r].target THEN "waiting_approval" ELSE "succeeded"
            approved == [orch[r] EXCEPT !.current = 5, !.last = 5, !.review = "approved"]
<1>1. r \in Rows /\ r # t /\ orch[r] \in Orchestration
  BY DEF TypeInv, TypeOK, Linked, IsPhase, IsRoot
<1>2. /\ status' = [status EXCEPT ![t] = "succeeded", ![r] = outcome]
      /\ orch' = [orch EXCEPT ![r] = approved]
      /\ status[r] \notin TERMINAL_ROOT_STATUSES \cup {outcome} /\ row[t].phase = 5
      /\ UNCHANGED <<n, row>>
  BY DEF PromoteRoot
<1>3. approved.current = 5 /\ approved.attempt = orch[r].attempt /\ approved.review = "approved"
  BY <1>1 DEF Orchestration
<1>. HIDE DEF approved, outcome
<1>4. orch'[r] = approved /\ \A u \in Rows \ {r} : orch'[u] = orch[u]
  BY <1>1, <1>2 DEF TypeInv, TypeOK
<1>5. /\ status'[t] = "succeeded" /\ status'[r] = outcome
      /\ \A u \in Rows \ {t, r} : status'[u] = status[u]
  BY <1>1, <1>2 DEF TypeInv, TypeOK
<1>. QED
  BY <1>1, <1>2, <1>3, <1>4, <1>5 DEF Promotes, PayloadOnly, StatusOnly, outcome

\* The orchestrator's answer to a completed phase, as an effect on the table.
LEMMA CompleteOutcome ==
  ASSUME IInv, ColumnInv, NEW w \in Worker, CompletePhase(w)
  PROVE  /\ \/ EndsLate(job[w]) \/ StopsRequest(job[w]) \/ PassesOn(job[w])
            \/ Promotes(job[w]) \/ EndsBeside(job[w])
         /\ \A u \in Rows : why'[u] = why[u] /\ lease'[u] = lease[u]
<1>. DEFINE t == job[w]
            r == row[t].root
            p == row[t].phase
            Goal == /\ \/ EndsLate(t) \/ StopsRequest(t) \/ PassesOn(t)
                       \/ Promotes(t) \/ EndsBeside(t)
                    /\ \A u \in Rows : why'[u] = why[u] /\ lease'[u] = lease[u]
<1>1. PICK v \in Verdict : HandlePhaseCompletion(t, v)
  BY DEF CompletePhase
<1>2. /\ t \in Rows /\ r \in Rows /\ r # t /\ IsPhase(t) /\ p \in Phase
      /\ orch[t] \in Orchestration /\ orch[r] \in Orchestration /\ orch[r].attempt + 1 \in Nat
      /\ status \in [Rows -> Status]
  BY TaskTableAssumption DEF CompletePhase, IInv, TypeInv, TypeOK, Linked, IsPhase, IsRoot, Row, Orchestration
<1>3. Appended(t) \/ NotAppended(t)
  BY CompletePhaseEffect DEF IInv
<1>4. TypeInv /\ ChainInv /\ status[t] = "queued"
  BY <1>2, TaskTableAssumption DEF IInv, LockInv, LeaseExclusive, Rows, TypeInv, TypeOK
<1>5. n \in Nat
  BY <1>4, TaskTableAssumption DEF TypeInv, TypeOK
<1>6. SUFFICES Goal
  OBVIOUS
<1>. HIDE DEF t
<1>7. ASSUME n' = n + 1
      PROVE  Appended(t)
  BY <1>3, <1>5, <1>7 DEF NotAppended
<1>8. ASSUME NEW reason, BlockOnCompletion(t, reason)
      PROVE  Goal
  <2>1. BlockRootTask(t, "succeeded", reason) /\ UNCHANGED <<n, row, lease, why>>
    BY <1>8 DEF BlockOnCompletion
  <2>2. EndsLate(t) \/ StopsRequest(t)
    BY <2>1, <1>2, <1>4, BlockOutcome
  <2>. QED
    BY <2>1, <2>2
<1>9. CASE IgnoreCompletion(t)
  <2>1. EndsLate(t)
    BY <1>9, <1>2 DEF IgnoreCompletion, EndsLate, PayloadOnly, StatusOnly
  <2>. QED
    BY <2>1, <1>9 DEF IgnoreCompletion
<1>10. CASE EnqueueNextPhase(t)
  <2>. DEFINE q == NextPhase(p)
              payload == [orch[t] EXCEPT !.current = q]
              progress == [orch[r] EXCEPT !.current = q, !.last = p]
  <2>1. /\ status[r] \notin TERMINAL_ROOT_STATUSES /\ p # 5 /\ CompletionFault(p) = "none"
        /\ q \in Phase
    BY <1>10, <1>2, NextPhaseType DEF EnqueueNextPhase
  <2>2. payload \in Orchestration /\ progress \in Orchestration
    <3>. HIDE DEF q
    <3>. QED
      BY <2>1, <1>2 DEF Orchestration
  <2>3. CASE AppendPhase(t, q, payload, progress)
    <3>. HIDE DEF q, payload, progress
    <3>1. n' = n + 1
      BY <2>3 DEF AppendPhase
    <3>. QED
      BY <3>1, <2>1, <2>2, <2>3, <1>2, <1>4, <1>7, AppendOutcome
  <2>4. CASE /\ ActivePhaseRows(r, q) # {}
             /\ status' = [status EXCEPT ![t] = "succeeded"]
             /\ UNCHANGED <<n, row, lease, orch, why>>
    <3>1. PICK u \in Rows : row[u].root = r /\ row[u].phase = q /\ status[u] \in ActiveStatuses
      BY <2>4 DEF ActivePhaseRows
    <3>2. ~ZeroOnlyFirst
      BY <3>1, <2>1, <1>2, <1>4, NoTwins
    <3>3. EndsBeside(t)
      BY <3>2, <2>1, <2>4, <1>2 DEF EndsBeside, PayloadOnly, StatusOnly
    <3>. QED
      BY <3>3, <2>4
  <2>. QED
    BY <1>10, <2>3, <2>4 DEF EnqueueNextPhase
<1>11. CASE PromoteRoot(t)
  <2>1. Promotes(t)
    BY <1>11, <1>2, <1>4, PromoteOutcome
  <2>. QED
    BY <2>1, <1>11 DEF PromoteRoot
<1>12. CASE EnqueueRework(t)
  <2>. DEFINE attempt == orch[r].attempt + 1
              payload == [orch[t] EXCEPT !.current = 4, !.attempt = attempt]
              progress == [orch[r] EXCEPT !.current = 4, !.last = 5, !.review = "rejected",
                                          !.attempt = attempt]
  <2>1. AppendPhase(t, 4, payload, progress) /\ status[r] \notin TERMINAL_ROOT_STATUSES
    BY <1>12 DEF EnqueueRework
  <2>2. 4 \in Phase /\ 5 \in Phase \cup {-1} /\ attempt \in Nat
    BY <1>2 DEF Phase
  <2>3. payload \in Orchestration /\ progress \in Orchestration
    <3>. HIDE DEF attempt
    <3>. QED
      BY <1>2, <2>2, ProgressType
  <2>. HIDE DEF payload, progress
  <2>4. n' = n + 1
    BY <2>1 DEF AppendPhase
  <2>. QED
    BY <2>1, <2>2, <2>3, <2>4, <1>2, <1>4, <1>7, AppendOutcome
<1>13. ASSUME HandlePhase5Completion(t, v)
       PROVE  Goal
  BY <1>13, <1>8, <1>11, <1>12 DEF HandlePhase5Completion
<1>. QED
  BY <1>1, <1>8, <1>9, <1>10, <1>13 DEF HandlePhaseCompletion

\* The end of any worker's transaction, as an effect on the table.
LEMMA FinishOutcome ==
  ASSUME IInv, ColumnInv, NEW w \in Worker, Finish(w)
  PROVE  Ends(job[w]) /\ Done(w)
<1>. DEFINE t == job[w]
<1>1. t \in Rows /\ Done(w) /\ TypeInv /\ status[t] = "queued" /\ status \in [Rows -> Status]
  BY FinishEffect, TaskTableAssumption DEF IInv, LockInv, LeaseExclusive, Rows, TypeInv, TypeOK
<1>2. why \in [Rows -> FailureEvent \cup
             {"none", "llm_generation_failed", "approval_failed",
              "task_rejected", "artifact_apply_deprecated"}]
  BY <1>1 DEF TypeInv, TypeOK
<1>3. CASE CompletePhase(w)
  BY <1>1, <1>3, CompleteOutcome DEF Ends
<1>4. CASE FailPhase(w)
  <2>1. PICK e \in FailureEvent : HandlePhaseBlocked(t, e)
    BY <1>4 DEF FailPhase
  <2>2. IsPhase(t)
    BY <1>4 DEF FailPhase, IsPhase
  <2>. HIDE DEF t
  <2>3. /\ BlockRootTask(t, "blocked", e) /\ why' = [why EXCEPT ![t] = e]
        /\ UNCHANGED <<n, row, lease>>
    BY <2>1 DEF HandlePhaseBlocked
  <2>4. EndsLate(t) \/ StopsRequest(t)
    BY <2>2, <2>3, <1>1, BlockOutcome
  <2>5. Ends(t)
    BY <2>3, <2>4, <1>1, <1>2 DEF Ends
  <2>. QED
    BY <2>5, <1>1 DEF t
<1>5. CASE FailGeneration(w) \/ FailSingle(w)
  <2>1. PICK e : /\ BlockAlone(w, e)
                 /\ IsPhase(t) => e = "llm_generation_failed"
    BY <1>5 DEF FailGeneration, FailSingle, IsPhase
  <2>2. /\ status' = [status EXCEPT ![t] = "blocked"] /\ why' = [why EXCEPT ![t] = e]
        /\ UNCHANGED <<n, row, lease, orch>>
    BY <2>1 DEF BlockAlone
  <2>. HIDE DEF t
  <2>3. CASE IsPhase(t)
    <3>1. LosesPhase(t)
      BY <2>1, <2>2, <2>3, <1>1, <1>2 DEF LosesPhase, PayloadOnly, StatusOnly
    <3>2. Ends(t)
      BY <3>1, <2>2, <1>1, <1>2 DEF Ends
    <3>. QED
      BY <3>2, <1>1 DEF t
  <2>4. CASE ~IsPhase(t)
    <3>1. EndsSingle(t)
      BY <2>2, <2>4, <1>1 DEF EndsSingle, PayloadOnly, StatusOnly
    <3>2. Ends(t)
      BY <3>1, <2>2, <1>1, <1>2 DEF Ends
    <3>. QED
      BY <3>2, <1>1 DEF t
  <2>. QED
    BY <2>3, <2>4
<1>6. CASE CompleteSingle(w)
  <2>1. EndsSingle(t)
    BY <1>1, <1>6 DEF CompleteSingle, EndsSingle, IsPhase, PayloadOnly, StatusOnly
  <2>. QED
    BY <2>1, <1>1, <1>6 DEF CompleteSingle, Ends
<1>7. CASE LeaveRunning(w)
  <2>1. EndsSingle(t)
    BY <1>1, <1>7 DEF LeaveRunning, EndsSingle, IsPhase, PayloadOnly, StatusOnly
  <2>2. \A u \in Rows : lease'[u] # lease[u] => u = t /\ row[t].kind = "bare"
    BY <1>1, <1>7 DEF LeaveRunning, TypeInv, TypeOK
  <2>. QED
    BY <2>1, <2>2, <1>1, <1>7 DEF LeaveRunning, Ends
<1>. QED
  BY <1>3, <1>4, <1>5, <1>6, <1>7 DEF Finish

\* Every step is one of these, in any state of the invariant.
LEMMA StepEffect ==
  ASSUME IInv, ColumnInv, Next
  PROVE  \/ Submits \/ SubmitsSingle \/ Requeues \/ Rests
         \/ \E t \in Rows : Ends(t) \/ Decides(t)
<1>1. /\ TypeInv /\ LockInv
      /\ status \in [Rows -> Status] /\ why \in [Rows -> FailureEvent \cup
             {"none", "llm_generation_failed", "approval_failed",
              "task_rejected", "artifact_apply_deprecated"}]
      /\ lease \in [Rows -> Lease]
  BY DEF IInv, TypeInv, TypeOK
<1>2. ASSUME NEW s \in Service, NEW p \in Priority,
             SubmitRequest(s, p) \/ SubmitPlain(s, p) \/ InsertBare(s, p)
      PROVE  Submits \/ SubmitsSingle
  BY <1>1, <1>2, SubmitEffect, SubmitSingleEffect
<1>3. ASSUME NEW w \in Worker, Finish(w)
      PROVE  \E t \in Rows : Ends(t)
  BY <1>3, FinishOutcome DEF Ends
<1>4. ASSUME NEW w \in Worker, LeaseNext(w) \/ Rollback(w)
      PROVE  Rests
  BY <1>4 DEF LeaseNext, Rollback, Rests
<1>5. ASSUME NEW w \in Worker, RecoverExpired(w)
      PROVE  Requeues
  <2>1. \A u \in ExpiredRows(ServiceOf[w]) : status[u] = "running" /\ row[u].kind = "bare"
    BY DEF ExpiredRows, ColumnInv, ColumnsOf
  <2>2. PayloadOnly({}) /\ why' = why
    BY <1>5 DEF RecoverExpired, PayloadOnly
  <2>3. \A u \in Rows :
          IF u \in ExpiredRows(ServiceOf[w])
          THEN status'[u] = "queued" /\ lease'[u] = "null"
          ELSE status'[u] = status[u] /\ lease'[u] = lease[u]
    BY <1>5 DEF RecoverExpired
  <2>. QED
    BY <2>1, <2>2, <2>3 DEF Requeues
<1>6. CASE RecoverBlocked
  BY <1>6 DEF RecoverBlocked, Requeues, PayloadOnly
<1>7. ASSUME NEW t \in Rows, ExpireLease(t) \/ BeginApproval(t) \/ ApproveAbandoned(t)
      PROVE  Rests
  BY <1>1, <1>7 DEF ExpireLease, BeginApproval, ApproveAbandoned, Rests
<1>8. ASSUME NEW t \in Rows,
             ApproveMerged(t) \/ ApproveFailed(t) \/ Reject(t) \/ ApplyArtifact(t)
      PROVE  Decides(t)
  <2>1. status[t] = "waiting_approval"
    BY <1>1, <1>8 DEF ApproveMerged, ApproveFailed, EndApproval, Reject, ApplyArtifact,
                BlockWaiting, LockInv, ApprovingWaits
  <2>2. /\ UNCHANGED <<n, row, lease, orch>>
        /\ \E s \in {"succeeded", "blocked"} : status' = [status EXCEPT ![t] = s]
        /\ why' = why \/ \E e : why' = [why EXCEPT ![t] = e]
    BY <1>8 DEF ApproveMerged, ApproveFailed, Reject, ApplyArtifact, BlockWaiting
  <2>. QED
    BY <1>1, <2>1, <2>2 DEF Decides, PayloadOnly, StatusOnly
<1>. QED
  BY <1>2, <1>3, <1>4, <1>5, <1>6, <1>7, <1>8 DEF Next

\* The rows after a step, and the columns of the rows there were.
LEMMA RowsAfter ==
  ASSUME TypeInv
  PROVE  /\ n \in Nat /\ Rows = 1 .. n
         /\ n' = n => Rows' = Rows
         /\ n' = n + 1 => Rows' = Rows \cup {n + 1} /\ n + 1 \notin Rows
         /\ n' = n + 2 => Rows' = Rows \cup {n + 1, n + 2} /\ {n + 1, n + 2} \cap Rows = {}
<1>1. n \in Nat
  BY TaskTableAssumption DEF TypeInv, TypeOK
<1>2. Rows = 1 .. n /\ Rows' = 1 .. n'
  BY DEF Rows
<1>3. n' = n + 1 => Rows' = Rows \cup {n + 1} /\ n + 1 \notin Rows
  BY <1>1, <1>2
<1>4. n' = n + 2 => Rows' = Rows \cup {n + 1, n + 2} /\ {n + 1, n + 2} \cap Rows = {}
  BY <1>1, <1>2
<1>. QED
  BY <1>1, <1>2, <1>3, <1>4

-----------------------------------------------------------------------------
(* The columns of the rows.                                                *)

\* Every step keeps the columns as described.
LEMMA ColumnStep ==
  ASSUME IInv, ColumnInv, [Next]_vars
  PROVE  ColumnInv'
<1>0. TypeInv /\ \A t \in Rows : row[t].root \in Rows /\ (IsPhase(t) => IsRoot(row[t].root))
  BY DEF IInv, TypeInv, Linked
<1>1. SUFFICES ASSUME NEW u \in Rows'
               PROVE  ColumnsOf(u)'
  BY DEF ColumnInv
<1>2. CASE Submits
  <2>1. CASE u \in Rows
    BY <1>2, <2>1 DEF Submits, TableKept, ColumnInv, ColumnsOf, IsPhase, IsRoot
  <2>2. CASE u = n + 1 \/ u = n + 2
    BY <1>2, <2>2 DEF Submits, ColumnsOf, IsPhase, IsRoot
  <2>. QED
    BY <1>0, <1>2, <2>1, <2>2, RowsAfter DEF Submits
<1>3. CASE SubmitsSingle
  <2>1. CASE u \in Rows
    BY <1>3, <2>1 DEF SubmitsSingle, TableKept, ColumnInv, ColumnsOf, IsPhase, IsRoot
  <2>2. CASE u = n + 1
    BY <1>3, <2>2 DEF SubmitsSingle, ColumnsOf, IsPhase, IsRoot
  <2>. QED
    BY <1>0, <1>3, <2>1, <2>2, RowsAfter DEF SubmitsSingle
<1>4. ASSUME NEW t \in Rows, Ends(t)
      PROVE  ColumnsOf(u)'
  <2>1. ASSUME u \in Rows, row'[u] = row[u],
               status'[u] = status[u] \/ u = t \/ (IsPhase(t) /\ u = row[t].root),
               u = t /\ IsPhase(t) => status'[u] \in {"blocked", "succeeded"},
               u = t /\ ~IsPhase(t) =>
                 status'[u] \in {"blocked", "succeeded", "waiting_approval"}
                 \/ (status'[u] = "running" /\ row[t].kind = "bare"),
               IsPhase(t) /\ u = row[t].root =>
                 status'[u] \in {status[u], "blocked", "succeeded", "waiting_approval"}
        PROVE  ColumnsOf(u)'
    <3>1. row[u].kind # "bare" => lease'[u] = lease[u]
      BY <1>4, <2>1 DEF Ends
    <3>2. ColumnsOf(u)
      BY <2>1 DEF ColumnInv
    <3>3. IsPhase(t) /\ u = row[t].root => IsRoot(u)
      BY <1>0
    <3>. QED
      BY <2>1, <3>1, <3>2, <3>3 DEF ColumnsOf, IsPhase, IsRoot
  <2>2. CASE EndsSingle(t)
    <3>1. u \in Rows /\ row'[u] = row[u] /\ (u # t => status'[u] = status[u]) /\ ~IsPhase(t)
      BY <1>0, <2>2, RowsAfter DEF EndsSingle, PayloadOnly, StatusOnly
    <3>2. \/ status'[t] \in {"blocked", "succeeded", "waiting_approval"}
          \/ status'[t] = "running" /\ row[t].kind = "bare"
      BY <2>2 DEF EndsSingle
    <3>3. CASE u = t
      BY <2>1, <3>1, <3>2, <3>3
    <3>4. CASE u # t
      BY <2>1, <3>1, <3>4
    <3>. QED
      BY <3>3, <3>4
  <2>3. CASE LosesPhase(t) \/ EndsLate(t) \/ EndsBeside(t)
    BY <1>0, <2>1, <2>3, RowsAfter DEF LosesPhase, EndsLate, EndsBeside, PayloadOnly, StatusOnly
  <2>4. CASE StopsRequest(t) \/ Promotes(t)
    BY <1>0, <2>1, <2>4, RowsAfter DEF StopsRequest, Promotes, PayloadOnly, StatusOnly
  <2>5. CASE PassesOn(t)
    <3>1. CASE u \in Rows
      BY <1>0, <2>1, <2>5, <3>1 DEF PassesOn, Appended, StatusOnly
    <3>2. CASE u = n + 1
      BY <2>5, <3>2 DEF PassesOn, Appended, ColumnsOf, IsPhase, IsRoot
    <3>. QED
      BY <1>0, <2>5, <3>1, <3>2, RowsAfter DEF PassesOn, Appended
  <2>. QED
    BY <1>4, <2>2, <2>3, <2>4, <2>5 DEF Ends
<1>5. ASSUME NEW t \in Rows, Decides(t)
      PROVE  ColumnsOf(u)'
  <2>1. u \in Rows /\ row'[u] = row[u] /\ lease' = lease /\ (u # t => status'[u] = status[u])
    BY <1>0, <1>5, RowsAfter DEF Decides, PayloadOnly, StatusOnly
  <2>2. ColumnsOf(u) /\ ~IsPhase(t)
    BY <1>5, <2>1 DEF Decides, ColumnInv, ColumnsOf
  <2>. QED
    BY <1>5, <2>1, <2>2 DEF Decides, ColumnsOf, IsPhase, IsRoot
<1>6. CASE Requeues
  <2>1. u \in Rows /\ row'[u] = row[u]
    BY <1>0, <1>6, RowsAfter DEF Requeues, PayloadOnly
  <2>2. ColumnsOf(u)
    BY <2>1 DEF ColumnInv
  <2>. QED
    BY <1>6, <2>1, <2>2 DEF Requeues, ColumnsOf, IsPhase, IsRoot
<1>7. CASE Rests
  BY <1>0, <1>7, RowsAfter DEF Rests, ColumnInv, ColumnsOf, IsPhase, IsRoot
<1>8. CASE UNCHANGED vars
  BY <1>8 DEF vars, ColumnInv, ColumnsOf, IsPhase, IsRoot, Rows
<1>. QED
  BY <1>2, <1>3, <1>4, <1>5, <1>6, <1>7, <1>8, StepEffect

\* The invariant with the columns.
CInv == IInv /\ ColumnInv

LEMMA CStep ==
  ASSUME CInv, [Next]_vars
  PROVE  CInv'
<1>1. IInv'
  BY TypeStep, LockStep, ChainNext DEF CInv, IInv
<1>. QED
  BY <1>1, ColumnStep DEF CInv

LEMMA CInit == Init => CInv
BY TypeInit DEF Init, IInv, LockInv, LeaseExclusive, ApprovingWaits, ChainInv, CInv, ColumnInv, Rows

LEMMA ColumnInvariant == Spec => []CInv
<1>1. CInv /\ [Next]_vars => CInv'
  BY CStep
<1>. QED
  BY <1>1, CInit, PTL DEF Spec

-----------------------------------------------------------------------------
(* What a step may do to a row.                                            *)

\* A row changes its status only at the end of its own transaction or, a root,
\* at the end of one for a phase row of its, by a decision, or by recovery.
LEMMA StatusChange ==
  ASSUME CInv, Next, NEW u \in Rows, status'[u] # status[u]
  PROVE  \/ Ends(u)
         \/ \E t \in Rows : Ends(t) /\ IsPhase(t) /\ u = row[t].root /\ u # t
                            /\ (StopsRequest(t) \/ Promotes(t))
         \/ Decides(u)
         \/ Requeues
<1>1. TypeInv
  BY DEF CInv, IInv
<1>2. CASE Submits \/ SubmitsSingle \/ Rests
  BY <1>2 DEF Submits, SubmitsSingle, Rests, TableKept
<1>3. ASSUME NEW t \in Rows, Ends(t), u # t
      PROVE  IsPhase(t) /\ u = row[t].root /\ (StopsRequest(t) \/ Promotes(t))
  <2>1. ~StatusOnly({t})
    BY <1>3 DEF StatusOnly
  <2>2. StopsRequest(t) \/ Promotes(t)
    BY <1>3, <2>1 DEF Ends, EndsSingle, LosesPhase, EndsLate, PassesOn, EndsBeside
  <2>. QED
    BY <1>3, <2>2 DEF StopsRequest, Promotes, StatusOnly
<1>4. ASSUME NEW t \in Rows, Decides(t)
      PROVE  u = t
  BY <1>4 DEF Decides, StatusOnly
<1>. QED
  BY <1>2, <1>3, <1>4, StepEffect DEF CInv

(***************************************************************************)
(* The state machine of state_machine.py is kept to in every committed     *)
(* step of workers, people and recovery, unless rows without a payload are *)
(* inserted: those are queued again from running, which it does not allow. *)
(***************************************************************************)
THEOREM TransitionsAllowed ==
  ASSUME ~BareRows
  PROVE  Spec => OnlyAllowedTransitions
<1>. DEFINE Allowed == \A t \in Rows : status'[t] # status[t] =>
                         CommittedTransition(status[t], status'[t])
<1>1. ASSUME CInv, Next, NEW u \in Rows, status'[u] # status[u]
      PROVE  CommittedTransition(status[u], status'[u])
  <2>. USE DEF CommittedTransition, CanTransition, ALLOWED_TRANSITIONS
  <2>1. ColumnsOf(u) /\ status[u] \in Status /\ row[u].kind # "bare"
    BY <1>1 DEF CInv, IInv, TypeInv, TypeOK, ColumnInv, ColumnsOf
  <2>2. CASE Ends(u)
    <3>1. status[u] = "queued"
      BY <2>2 DEF Ends
    <3>2. status'[u] \in {"blocked", "succeeded", "waiting_approval"}
      <4>1. CASE EndsSingle(u)
        BY <4>1, <2>1 DEF EndsSingle
      <4>2. CASE LosesPhase(u) \/ EndsLate(u) \/ EndsBeside(u) \/ PassesOn(u) \/ StopsRequest(u) \/ Promotes(u)
        BY <4>2 DEF LosesPhase, EndsLate, EndsBeside, PassesOn, Appended, StopsRequest, Promotes
      <4>. QED
        BY <2>2, <4>1, <4>2 DEF Ends
    <3>. QED
      BY <3>1, <3>2
  <2>3. ASSUME NEW t \in Rows, u = row[t].root, StopsRequest(t) \/ Promotes(t)
        PROVE  CommittedTransition(status[u], status'[u])
    <3>1. status[u] \in {"queued", "running", "waiting_approval"}
      BY <2>1, <2>3 DEF StopsRequest, Promotes, TERMINAL_ROOT_STATUSES, ColumnsOf, Status
    <3>2. status'[u] \in {"blocked", "succeeded", "waiting_approval"}
      BY <2>3 DEF StopsRequest, Promotes
    <3>. QED
      BY <1>1, <3>1, <3>2
  <2>4. CASE Decides(u)
    BY <2>4 DEF Decides
  <2>5. CASE Requeues
    BY <1>1, <2>1, <2>5 DEF Requeues
  <2>. QED
    BY <1>1, <2>2, <2>3, <2>4, <2>5, StatusChange
<1>2. CInv /\ [Next]_vars => [Allowed]_vars
  BY <1>1
<1>. QED
  BY <1>2, ColumnInvariant, PTL DEF Spec, OnlyAllowedTransitions

\* A phase that has succeeded stays so.
LEMMA SucceededStays ==
  ASSUME CInv, [Next]_vars, NEW u \in Rows, IsPhase(u), status[u] = "succeeded"
  PROVE  status'[u] = "succeeded"
<1>1. TypeInv /\ row[u].kind = "phase"
  BY DEF CInv, IInv, IsPhase
<1>2. ~Ends(u) /\ ~Decides(u)
  BY DEF Ends, Decides
<1>3. ASSUME NEW t \in Rows, u = row[t].root, IsPhase(t)
      PROVE  FALSE
  BY <1>1, <1>3 DEF TypeInv, Linked, IsRoot
<1>4. CASE Requeues
  BY <1>1, <1>4 DEF Requeues
<1>5. CASE UNCHANGED vars
  BY <1>5 DEF vars
<1>. QED
  BY <1>2, <1>3, <1>4, <1>5, StatusChange

(***************************************************************************)
(* A late completion, failure, decision or recovery never rewrites what a  *)
(* decided request records, and never undoes a phase that succeeded.       *)
(***************************************************************************)
THEOREM DecisionsLast == Spec => DecidedStaysDecided
<1>. DEFINE Kept(t) ==
              /\ IsRoot(t) /\ status[t] \in TERMINAL_ROOT_STATUSES =>
                   /\ orch'[t] = orch[t]
                   /\ \/ status'[t] = status[t]
                      \/ BlockedRecovery /\ status[t] = "blocked" /\ status'[t] = "queued"
              /\ IsPhase(t) /\ status[t] = "succeeded" => status'[t] = "succeeded"
            Settled == \A t \in Rows : Kept(t)
<1>1. ASSUME CInv, Next, NEW u \in Rows, IsRoot(u), status[u] \in TERMINAL_ROOT_STATUSES
      PROVE  /\ orch'[u] = orch[u]
             /\ \/ status'[u] = status[u]
                \/ BlockedRecovery /\ status[u] = "blocked" /\ status'[u] = "queued"
  <2>1. TypeInv /\ row[u].kind # "bare"
    BY <1>1 DEF CInv, IInv, IsRoot
  <2>2. orch'[u] = orch[u]
    <3>1. ASSUME NEW t \in Rows, Ends(t)
          PROVE  orch'[u] = orch[u]
      <4>1. CASE EndsSingle(t) \/ LosesPhase(t) \/ EndsLate(t) \/ EndsBeside(t)
        BY <4>1 DEF EndsSingle, LosesPhase, EndsLate, EndsBeside, PayloadOnly
      <4>2. CASE StopsRequest(t) \/ Promotes(t)
        BY <4>2, <1>1 DEF StopsRequest, Promotes, PayloadOnly
      <4>3. CASE PassesOn(t)
        BY <4>3, <1>1 DEF PassesOn
      <4>. QED
        BY <3>1, <4>1, <4>2, <4>3 DEF Ends
    <3>2. CASE Submits \/ SubmitsSingle \/ Rests
      BY <3>2 DEF Submits, SubmitsSingle, Rests, TableKept
    <3>3. CASE Requeues \/ \E t \in Rows : Decides(t)
      BY <3>3 DEF Requeues, Decides, PayloadOnly
    <3>. QED
      BY <1>1, <3>1, <3>2, <3>3, StepEffect DEF CInv
  <2>3. \/ status'[u] = status[u]
        \/ BlockedRecovery /\ status[u] = "blocked" /\ status'[u] = "queued"
    <3>1. ~Ends(u) /\ ~Decides(u)
      BY <1>1 DEF Ends, Decides, TERMINAL_ROOT_STATUSES
    <3>2. ASSUME NEW t \in Rows, u = row[t].root, StopsRequest(t) \/ Promotes(t)
          PROVE  FALSE
      BY <1>1, <3>2 DEF StopsRequest, Promotes
    <3>3. CASE Requeues
      BY <2>1, <3>3 DEF Requeues
    <3>. QED
      BY <1>1, <3>1, <3>2, <3>3, StatusChange
  <2>. QED
    BY <2>2, <2>3
<1>2. CInv /\ [Next]_vars => [Settled]_vars
  BY <1>1, SucceededStays
<1>. QED
  BY <1>2, ColumnInvariant, PTL DEF Spec, DecidedStaysDecided

(***************************************************************************)
(* No phase of a running request is committed as done without its          *)
(* successor: the next phase row, a person's decision or the request's end *)
(* is in the same transaction.                                             *)
(***************************************************************************)
THEOREM NothingBetweenPhases ==
  ASSUME ZeroOnlyFirst
  PROVE  Spec => HandOver
<1>. DEFINE Handed(t) ==
              IsPhase(t) /\ status[t] # "succeeded" /\ status'[t] = "succeeded"
              /\ status[row[t].root] = "running" =>
                \/ status'[row[t].root] # "running"
                \/ /\ n' = n + 1
                   /\ row'[n'].parent = t /\ status'[n'] = "queued"
            Over == \A t \in Rows : Handed(t)
<1>1. ASSUME CInv, Next, NEW t \in Rows,
             IsPhase(t), status[t] # "succeeded", status'[t] = "succeeded",
             status[row[t].root] = "running"
      PROVE  \/ status'[row[t].root] # "running"
             \/ /\ n' = n + 1
                /\ row'[n'].parent = t /\ status'[n'] = "queued"
  <2>1. ASSUME NEW u \in Rows, t = row[u].root, IsPhase(u)
        PROVE  FALSE
    BY <1>1, <2>1 DEF CInv, IInv, TypeInv, Linked, IsRoot, IsPhase
  <2>2. ~Decides(t) /\ ~Requeues
    BY <1>1 DEF Decides, Requeues, CInv, ColumnInv, ColumnsOf
  <2>3. Ends(t)
    BY <1>1, <2>1, <2>2, StatusChange
  <2>4. StopsRequest(t) \/ PassesOn(t) \/ Promotes(t)
    BY <1>1, <2>3 DEF Ends, EndsSingle, LosesPhase, EndsLate, EndsBeside, TERMINAL_ROOT_STATUSES
  <2>5. CASE StopsRequest(t)
    BY <2>5 DEF StopsRequest
  <2>6. CASE PassesOn(t)
    BY <2>6 DEF PassesOn, Appended
  <2>7. CASE Promotes(t)
    BY <1>1, <2>7 DEF Promotes
  <2>. QED
    BY <2>4, <2>5, <2>6, <2>7
<1>2. CInv /\ [Next]_vars => [Over]_vars
  BY <1>1
<1>. QED
  BY <1>2, ColumnInvariant, PTL DEF Spec, HandOver

-----------------------------------------------------------------------------
(* One run of a phase per round.                                           *)

\* A phase in the flow has a place there.
LEMMA InFlowIndex ==
  ASSUME NEW p, InFlow(p)
  PROVE  PhaseIndex(p) \in 1 .. Len(PhaseFlow) /\ PhaseFlow[PhaseIndex(p)] = p
BY DEF InFlow, PhaseIndex

\* Later is an order.
LEMMA LaterTransitive ==
  ASSUME TypeInv, NEW t \in Rows, NEW u \in Rows, NEW v \in Rows, Later(t, u), Later(u, v)
  PROVE  Later(t, v)
<1>1. orch[t].attempt \in Nat /\ orch[u].attempt \in Nat /\ orch[v].attempt \in Nat
  BY DEF TypeInv, TypeOK, Orchestration
<1>2. \A p : InFlow(p) => PhaseIndex(p) \in Int
  BY InFlowIndex, PhaseOrchestratorAssumption
<1>. QED
  BY <1>1, <1>2 DEF Later

\* A row that changes neither its columns nor its payload keeps its place.
LEMMA LaterKept ==
  ASSUME NEW t \in Rows, NEW u \in Rows, Later(t, u),
         row'[t] = row[t], row'[u] = row[u], orch'[t] = orch[t], orch'[u] = orch[u]
  PROVE  Later(t, u)'
BY DEF Later, InFlow

\* Phase rows keep their phase and their round for ever.
LEMMA PhaseRowFixed ==
  ASSUME CInv, [Next]_vars, NEW t \in Rows
  PROVE  /\ t \in Rows' /\ row'[t] = row[t] /\ (IsPhase(t)' <=> IsPhase(t))
         /\ IsPhase(t) => orch'[t] = orch[t]
<1>1. TypeInv /\ (IsPhase(t) => \A u \in Rows : t # row[u].root \/ ~IsPhase(u))
  BY DEF CInv, IInv, TypeInv, Linked, IsRoot, IsPhase
<1>2. SUFFICES /\ t \in Rows' /\ row'[t] = row[t]
               /\ IsPhase(t) => orch'[t] = orch[t]
  BY DEF IsPhase
<1>3. CASE Submits \/ SubmitsSingle
  BY <1>1, <1>3, RowsAfter DEF Submits, SubmitsSingle, TableKept
<1>4. CASE Rests
  BY <1>1, <1>4, RowsAfter DEF Rests
<1>5. CASE Requeues \/ \E u \in Rows : Decides(u)
  BY <1>1, <1>5, RowsAfter DEF Requeues, Decides, PayloadOnly
<1>6. ASSUME NEW u \in Rows, Ends(u)
      PROVE  /\ t \in Rows' /\ row'[t] = row[t]
             /\ IsPhase(t) => orch'[t] = orch[t]
  <2>1. CASE EndsSingle(u) \/ LosesPhase(u) \/ EndsLate(u) \/ EndsBeside(u)
    BY <1>1, <2>1, RowsAfter DEF EndsSingle, LosesPhase, EndsLate, EndsBeside, PayloadOnly
  <2>2. CASE StopsRequest(u) \/ Promotes(u)
    BY <1>1, <2>2, RowsAfter DEF StopsRequest, Promotes, PayloadOnly
  <2>3. CASE PassesOn(u)
    BY <1>1, <2>3, RowsAfter DEF PassesOn, Appended
  <2>. QED
    BY <1>6, <2>1, <2>2, <2>3 DEF Ends
<1>7. CASE UNCHANGED vars
  BY <1>7 DEF vars, Rows
<1>. QED
  BY <1>3, <1>4, <1>5, <1>6, <1>7, StepEffect DEF CInv

\* The phase rows a step adds: the first of a new request, or the successor of
\* the newest of a chain.
LEMMA NewPhaseRow ==
  ASSUME CInv, [Next]_vars, NEW u \in Rows' \ Rows, IsPhase(u)'
  PROVE  \/ Submits /\ u = n + 2
         \/ u = n + 1 /\ \E t \in Rows : Ends(t) /\ PassesOn(t)
<1>1. TypeInv
  BY DEF CInv, IInv
<1>2. CASE Submits
  BY <1>1, <1>2, RowsAfter DEF Submits, IsPhase
<1>3. CASE SubmitsSingle
  BY <1>1, <1>3, RowsAfter DEF SubmitsSingle, IsPhase
<1>4. CASE Requeues \/ Rests \/ \E t \in Rows : Decides(t)
  BY <1>1, <1>4, RowsAfter DEF Requeues, Rests, Decides, PayloadOnly
<1>5. ASSUME NEW t \in Rows, Ends(t)
      PROVE  u = n + 1 /\ PassesOn(t)
  <2>1. n' # n
    BY <1>1, RowsAfter
  <2>2. PassesOn(t)
    BY <1>5, <2>1 DEF Ends, EndsSingle, LosesPhase, EndsLate, EndsBeside, StopsRequest,
                      Promotes, PayloadOnly
  <2>. QED
    BY <1>1, <2>2, RowsAfter DEF PassesOn, Appended
<1>6. CASE UNCHANGED vars
  BY <1>6 DEF vars, Rows
<1>. QED
  BY <1>2, <1>3, <1>4, <1>5, <1>6, StepEffect DEF CInv

\* Every step keeps the rows of a chain in order.
LEMMA RoundStep ==
  ASSUME CInv, RoundInv, [Next]_vars
  PROVE  RoundInv'
<1>1. TypeInv /\ ChainInv /\ n \in Nat /\ Rows = 1 .. n
  BY RowsAfter DEF CInv, IInv
<1>2. SUFFICES ASSUME NEW t \in Rows', NEW u \in Rows', IsPhase(t)', IsPhase(u)',
                      row'[t].root = row'[u].root, t < u
               PROVE  Later(t, u)'
  BY DEF RoundInv
<1>3. CASE u \in Rows
  <2>1. t \in Rows
    BY <1>1, <1>2, <1>3 DEF Rows
  <2>2. /\ row'[t] = row[t] /\ row'[u] = row[u] /\ orch'[t] = orch[t] /\ orch'[u] = orch[u]
        /\ IsPhase(t) /\ IsPhase(u)
    BY <1>2, <1>3, <2>1, PhaseRowFixed
  <2>. QED
    BY <1>2, <1>3, <2>1, <2>2, LaterKept DEF RoundInv
<1>4. CASE u \notin Rows /\ Submits
  <2>1. u = n + 2
    BY <1>1, <1>2, <1>4, NewPhaseRow DEF PassesOn, Appended, Submits
  <2>2. row'[u].root = n + 1 /\ t # n + 1
    BY <1>2, <1>4, <2>1 DEF Submits, IsPhase
  <2>3. t \in Rows
    BY <1>1, <1>2, <1>4, <2>1, <2>2, RowsAfter DEF Submits
  <2>4. row'[t].root \in Rows
    BY <1>1, <2>3, PhaseRowFixed DEF TypeInv, Linked
  <2>. QED
    BY <1>1, <1>2, <2>2, <2>4
<1>5. ASSUME u = n + 1, NEW s \in Rows, Ends(s), PassesOn(s)
      PROVE  Later(t, u)'
  <2>1. /\ IsPhase(s) /\ Newest(s) /\ MirroredBy(s)
        /\ row'[u].root = row[s].root /\ row[s].phase \in Phase
    BY <1>1, <1>5, UnfinishedIsNewest DEF Ends, PassesOn, Appended, InChain, TypeInv, TypeOK, Row
  <2>2. t \in Rows /\ IsPhase(t) /\ row[t].root = row[s].root
    BY <1>1, <1>2, <1>5, <2>1, PhaseRowFixed DEF Rows
  <2>3. t = s \/ Later(t, s)
    <3>1. t =< s
      BY <2>1, <2>2 DEF Newest
    <3>2. t = s \/ t < s
      BY <1>1, <2>2, <3>1
    <3>. QED
      BY <2>1, <2>2, <3>2 DEF RoundInv
  <2>4. /\ orch[s].attempt \in Nat /\ orch[s].attempt = orch[row[s].root].attempt
        /\ orch'[s] = orch[s] /\ row'[s] = row[s]
    BY <1>1, <2>1, PhaseRowFixed DEF MirroredBy, TypeInv, TypeOK, Orchestration
  <2>5. Later(s, u)'
    <3>1. CASE /\ row[s].phase # 5 /\ row'[u].phase = NextPhase(row[s].phase)
               /\ orch'[u].attempt = orch[s].attempt
      <4>1. CompletionFault(row[s].phase) = "none"
        BY <1>5 DEF PassesOn, Appended
      <4>2. /\ InFlow(row[s].phase) /\ InFlow(NextPhase(row[s].phase))
            /\ PhaseIndex(row[s].phase) \in Int
            /\ PhaseIndex(NextPhase(row[s].phase)) = PhaseIndex(row[s].phase) + 1
        BY <2>1, <3>1, <4>1, NextPlace, PhaseOrchestratorAssumption
      <4>. QED
        BY <2>4, <3>1, <4>2 DEF Later, InFlow
    <3>2. CASE orch'[u].attempt = orch[row[s].root].attempt + 1
      BY <2>4, <3>2 DEF Later
    <3>. QED
      BY <1>5, <3>1, <3>2 DEF PassesOn, Appended
  <2>6. CASE t = s
    BY <2>5, <2>6
  <2>7. CASE Later(t, s)
    <3>1. Later(t, s)'
      BY <2>1, <2>2, <2>7, LaterKept, PhaseRowFixed
    <3>2. orch'[t].attempt \in Nat /\ orch'[s].attempt \in Nat /\ orch'[u].attempt \in Nat
      <4>1. orch'[u] \in Orchestration
        BY <1>5 DEF PassesOn, Appended
      <4>2. orch'[t].attempt \in Nat
        BY <1>1, <2>2, PhaseRowFixed DEF TypeInv, TypeOK, Orchestration
      <4>. QED
        BY <2>4, <4>1, <4>2 DEF Orchestration
    <3>3. \A p : InFlow(p) => PhaseIndex(p) \in Int
      BY InFlowIndex, PhaseOrchestratorAssumption
    <3>. QED
      BY <2>5, <3>1, <3>2, <3>3 DEF Later, InFlow
  <2>. QED
    BY <2>3, <2>6, <2>7
<1>. QED
  BY <1>2, <1>3, <1>4, <1>5, NewPhaseRow

(***************************************************************************)
(* A phase is never run twice in a round: whatever workers complete it,    *)
(* crash, retry or are late, the next row is generated once.               *)
(***************************************************************************)
THEOREM OneRunPerRound == Spec => []PhaseRunOnce
<1>1. Init => RoundInv
  BY DEF Init, RoundInv, Rows
<1>2. CInv /\ RoundInv /\ [Next]_vars => RoundInv'
  BY RoundStep
<1>3. CInv /\ RoundInv => PhaseRunOnce
  <2>1. SUFFICES ASSUME CInv, RoundInv, NEW t \in Rows, NEW u \in Rows, IsPhase(t), IsPhase(u),
                        row[t].root = row[u].root, row[t].phase = row[u].phase,
                        orch[t].attempt = orch[u].attempt, t # u
                 PROVE  FALSE
    BY DEF PhaseRunOnce
  <2>2. t < u \/ u < t
    BY <2>1, RowsAfter DEF CInv, IInv
  <2>3. orch[t].attempt \in Nat
    BY <2>1 DEF CInv, IInv, TypeInv, TypeOK, Orchestration
  <2>4. InFlow(row[t].phase) => PhaseIndex(row[t].phase) \in Int
    BY InFlowIndex, PhaseOrchestratorAssumption
  <2>. QED
    BY <2>1, <2>2, <2>3, <2>4 DEF RoundInv, Later
<1>. QED
  BY <1>1, <1>2, <1>3, ColumnInvariant, PTL DEF Spec

-----------------------------------------------------------------------------
(* A request and the end of its chain, when blocked rows stay blocked.     *)

\* A chain has one newest row.
LEMMA NewestUnique ==
  ASSUME TypeInv, NEW t \in Rows, NEW u \in Rows, Newest(t), Newest(u), row[t].root = row[u].root
  PROVE  t = u
<1>1. t =< u /\ u =< t
  BY DEF Newest
<1>. QED
  BY <1>1, RowsAfter

\* The end of the chain after a step: the newest row is still that, unless it
\* has just passed on.
LEMMA NewestAfter ==
  ASSUME CInv, [Next]_vars, NEW t \in Rows
  PROVE  /\ Newest(t)' => Newest(t)
         /\ Newest(t) /\ ~PassesOn(t) => Newest(t)'
<1>1. TypeInv /\ ChainInv
  BY DEF CInv, IInv
<1>2. \A u \in Rows : u \in Rows' /\ row'[u] = row[u] /\ (IsPhase(u)' <=> IsPhase(u))
  BY PhaseRowFixed
<1>3. Newest(t)' => Newest(t)
  BY <1>2 DEF Newest
<1>4. ASSUME Newest(t), ~PassesOn(t), NEW u \in Rows' \ Rows, IsPhase(u)'
      PROVE  row'[u].root # row[t].root
  <2>1. row[t].root \in Rows
    BY <1>1 DEF TypeInv, Linked
  <2>2. CASE Submits /\ u = n + 2
    BY <1>1, <2>1, <2>2, RowsAfter DEF Submits
  <2>3. ASSUME u = n + 1, NEW s \in Rows, Ends(s), PassesOn(s)
        PROVE  row'[u].root # row[t].root
    <3>1. row'[u].root = row[s].root /\ Newest(s)
      BY <1>1, <2>3, UnfinishedIsNewest DEF Ends, PassesOn, Appended
    <3>2. row[s].root # row[t].root
      BY <1>1, <1>4, <2>3, <3>1, NewestUnique
    <3>. QED
      BY <3>1, <3>2
  <2>. QED
    BY <1>4, <2>2, <2>3, NewPhaseRow
<1>5. ASSUME Newest(t), ~PassesOn(t)
      PROVE  Newest(t)'
  BY <1>2, <1>4, <1>5 DEF Newest
<1>. QED
  BY <1>3, <1>5

\* A row that has passed on is no longer the newest.
LEMMA PassedOn ==
  ASSUME CInv, [Next]_vars, NEW t \in Rows, PassesOn(t)
  PROVE  ~Newest(t)'
<1>1. TypeInv /\ n \in Nat /\ Rows = 1 .. n
  BY RowsAfter DEF CInv, IInv
<1>2. PICK k \in Rows' : k = n + 1
  BY <1>1, RowsAfter DEF PassesOn, Appended
<1>3. row'[k].kind = "phase" /\ row'[k].root = row[t].root /\ row'[t] = row[t] /\ ~(k =< t)
  BY <1>1, <1>2 DEF PassesOn, Appended
<1>. QED
  BY <1>3 DEF Newest, IsPhase

\* Nothing happens to the request of t, nor to t.
Untouched(t) ==
  LET r == row[t].root
  IN  /\ status'[r] = status[r] /\ orch'[r] = orch[r]
      /\ status'[t] = status[t] /\ why'[t] = why[t]

\* The request of t is decided.
RootDecided(t) ==
  LET r == row[t].root
  IN  /\ Decides(r) /\ orch'[r] = orch[r]
      /\ status'[t] = status[t] /\ why'[t] = why[t]

\* The end of the transaction of another request's row.
LEMMA OtherUntouched ==
  ASSUME CInv, NEW t \in Rows, Newest(t), NEW s \in Rows, Ends(s),
         s # row[t].root, IsPhase(s) => row[s].root # row[t].root
  PROVE  Untouched(t)
<1>1. /\ row[t].root \in Rows /\ t # s /\ IsRoot(row[t].root)
      /\ t # row[s].root \/ ~IsPhase(s)
  BY DEF CInv, IInv, TypeInv, Linked, Newest, IsPhase, IsRoot
<1>2. why'[t] = why[t]
  BY <1>1 DEF Ends
<1>3. CASE EndsSingle(s) \/ LosesPhase(s) \/ EndsLate(s) \/ EndsBeside(s)
  BY <1>1, <1>2, <1>3 DEF EndsSingle, LosesPhase, EndsLate, EndsBeside, PayloadOnly, StatusOnly, Untouched
<1>4. CASE StopsRequest(s) \/ Promotes(s)
  BY <1>1, <1>2, <1>4 DEF StopsRequest, Promotes, PayloadOnly, StatusOnly, Untouched
<1>5. CASE PassesOn(s)
  BY <1>1, <1>2, <1>5 DEF PassesOn, Appended, StatusOnly, Untouched
<1>. QED
  BY <1>3, <1>4, <1>5 DEF Ends

\* A step other than the end of a transaction decides the request of t, or
\* leaves it alone.
LEMMA RequestRests ==
  ASSUME CInv, ~BlockedRecovery, [Next]_vars, NEW t \in Rows, Newest(t),
         \A s \in Rows : ~Ends(s)
  PROVE  Untouched(t) \/ RootDecided(t)
<1>1. /\ row[t].root \in Rows /\ IsPhase(t) /\ IsRoot(row[t].root)
      /\ row[t].kind # "bare" /\ row[row[t].root].kind # "bare"
  BY DEF CInv, IInv, TypeInv, Linked, Newest, IsPhase, IsRoot
<1>2. CASE Submits \/ SubmitsSingle \/ Rests
  BY <1>1, <1>2 DEF Submits, SubmitsSingle, Rests, TableKept, Untouched
<1>3. CASE Requeues
  BY <1>1, <1>3 DEF Requeues, PayloadOnly, Untouched
<1>4. ASSUME NEW s \in Rows, Decides(s)
      PROVE  Untouched(t) \/ RootDecided(t)
  <2>1. s # t
    BY <1>1, <1>4 DEF Decides, CInv, ColumnInv, ColumnsOf
  <2>2. CASE s = row[t].root
    BY <1>1, <1>4, <2>1, <2>2 DEF Decides, PayloadOnly, StatusOnly, RootDecided
  <2>3. CASE s # row[t].root
    BY <1>1, <1>4, <2>1, <2>3 DEF Decides, PayloadOnly, StatusOnly, Untouched
  <2>. QED
    BY <2>2, <2>3
<1>5. CASE UNCHANGED vars
  BY <1>5 DEF vars, Untouched
<1>. QED
  BY <1>2, <1>3, <1>4, <1>5, StepEffect DEF CInv

\* What a step may do to a request and the end of its chain.
ChainEvent(t) ==
  \/ Untouched(t)
  \/ RootDecided(t)
  \/ /\ status[t] = "queued" /\ status[row[t].root] = "running"
     /\ \A u \in Rows \ {t} : why'[u] = why[u]
     /\ LosesPhase(t) \/ StopsRequest(t) \/ PassesOn(t) \/ Promotes(t) \/ EndsBeside(t)

LEMMA RequestStep ==
  ASSUME CInv, GateInv, ~BlockedRecovery, [Next]_vars, NEW t \in Rows, Newest(t)
  PROVE  ChainEvent(t)
<1>1. TypeInv /\ ChainInv /\ GateOf(t) /\ row[t].root \in Rows /\ IsPhase(t) /\ IsRoot(row[t].root)
  BY DEF CInv, IInv, TypeInv, Linked, GateInv, Newest
<1>2. CASE \A s \in Rows : ~Ends(s)
  BY <1>2, RequestRests DEF ChainEvent
<1>3. ASSUME NEW s \in Rows, Ends(s)
      PROVE  ChainEvent(t)
  <2>1. status[s] = "queued" /\ s # row[t].root
    BY <1>1, <1>3 DEF Ends, GateOf
  <2>2. CASE IsPhase(s) /\ row[s].root = row[t].root
    <3>1. s = t
      BY <1>1, <2>1, <2>2, UnfinishedIsNewest, NewestUnique
    <3>2. status[row[t].root] = "running"
      BY <1>1, <2>1, <3>1 DEF GateOf
    <3>3. ~EndsSingle(t) /\ ~EndsLate(t)
      BY <1>1, <3>2 DEF EndsSingle, EndsLate, TERMINAL_ROOT_STATUSES
    <3>. QED
      BY <1>3, <2>1, <3>1, <3>2, <3>3 DEF Ends, ChainEvent
  <2>3. CASE IsPhase(s) => row[s].root # row[t].root
    BY <1>3, <2>1, <2>3, OtherUntouched DEF ChainEvent
  <2>. QED
    BY <2>2, <2>3
<1>. QED
  BY <1>2, <1>3

\* Only a submission adds a root.
LEMMA NewRoot ==
  ASSUME CInv, [Next]_vars, NEW r \in Rows' \ Rows, IsRoot(r)'
  PROVE  Submits /\ r = n + 1
<1>1. TypeInv /\ n \in Nat /\ Rows = 1 .. n
  BY RowsAfter DEF CInv, IInv
<1>2. CASE Submits
  BY <1>1, <1>2, RowsAfter DEF Submits, IsRoot
<1>3. CASE SubmitsSingle
  BY <1>1, <1>3, RowsAfter DEF SubmitsSingle, IsRoot
<1>4. ASSUME NEW s \in Rows, Ends(s)
      PROVE  FALSE
  <2>1. PassesOn(s)
    BY <1>1, <1>4, RowsAfter DEF Ends, EndsSingle, LosesPhase, EndsLate, EndsBeside, StopsRequest,
                      Promotes, PayloadOnly
  <2>. QED
    BY <1>1, <2>1, RowsAfter DEF PassesOn, Appended, IsRoot
<1>5. CASE Requeues \/ Rests \/ (\E s \in Rows : Decides(s)) \/ UNCHANGED vars
  BY <1>1, <1>5, RowsAfter DEF Requeues, Rests, Decides, PayloadOnly, vars
<1>. QED
  BY <1>2, <1>3, <1>4, <1>5, StepEffect DEF CInv

\* Every root keeps a chain, and a new one has one.
LEMMA HasNewest ==
  ASSUME CInv, GateInv, [Next]_vars, NEW r \in Rows', IsRoot(r)'
  PROVE  \E t \in Rows' : Newest(t)' /\ row'[t].root = r
<1>1. TypeInv /\ n \in Nat /\ Rows = 1 .. n
  BY RowsAfter DEF CInv, IInv
<1>2. CASE r \in Rows
  <2>1. PICK t \in Rows : Newest(t) /\ row[t].root = r
    BY <1>2, PhaseRowFixed DEF GateInv, IsRoot
  <2>2. CASE PassesOn(t)
    <3>1. PICK k \in Rows' : k = n + 1
      BY <1>1, <2>2, RowsAfter DEF PassesOn, Appended
    <3>2. Rows' = Rows \cup {k} /\ row'[k].root = r /\ IsPhase(k)'
      BY <1>1, <2>1, <2>2, <3>1, RowsAfter DEF PassesOn, Appended, IsPhase
    <3>3. \A u \in Rows' : u =< k
      BY <1>1, <3>1, <3>2
    <3>4. Newest(k)'
      BY <3>2, <3>3 DEF Newest
    <3>. QED
      BY <3>2, <3>4
  <2>3. CASE ~PassesOn(t)
    BY <2>1, <2>3, NewestAfter, PhaseRowFixed
  <2>. QED
    BY <2>2, <2>3
<1>3. CASE r \notin Rows /\ Submits
  <2>1. PICK k \in Rows' : k = n + 2
    BY <1>1, <1>3, RowsAfter DEF Submits
  <2>2. Rows' = Rows \cup {n + 1, k} /\ row'[k].kind = "phase" /\ row'[k].root = n + 1
    BY <1>1, <1>3, <2>1, RowsAfter DEF Submits
  <2>3. r = n + 1 /\ IsPhase(k)'
    BY <1>3, <2>2 DEF IsRoot, IsPhase
  <2>4. \A u \in Rows' : u =< k
    BY <1>1, <2>1, <2>2
  <2>5. Newest(k)'
    BY <2>2, <2>3, <2>4 DEF Newest
  <2>. QED
    BY <2>2, <2>3, <2>5
<1>. QED
  BY <1>2, <1>3, NewRoot

\* What a step that inserts a phase row says of it and of its request.
LEMMA NewestInserted ==
  ASSUME CInv, GateInv, ~BlockedRecovery, [Next]_vars, NEW t \in Rows' \ Rows, Newest(t)'
  PROVE  status'[t] = "queued" /\ status'[row'[t].root] = "running"
<1>1. TypeInv /\ ChainInv
  BY DEF CInv, IInv
<1>2. CASE Submits /\ t = n + 2
  BY <1>2 DEF Submits
<1>3. ASSUME t = n + 1, NEW s \in Rows, Ends(s), PassesOn(s)
      PROVE  status'[t] = "queued" /\ status'[row'[t].root] = "running"
  <2>1. IsPhase(s) /\ status[s] = "queued" /\ Newest(s) /\ row[s].root \in Rows /\ row[s].root # s
    BY <1>1, <1>3, UnfinishedIsNewest DEF Ends, PassesOn, Appended, TypeInv, Linked, IsPhase, IsRoot
  <2>2. status[row[s].root] = "running"
    BY <2>1 DEF GateInv, GateOf
  <2>3. status'[row[s].root] = "running"
    BY <1>3, <2>1, <2>2 DEF PassesOn, StatusOnly
  <2>. QED
    BY <1>3, <2>3 DEF PassesOn, Appended
<1>. QED
  BY <1>2, <1>3, NewPhaseRow DEF Newest

\* Every step keeps what the end of a chain says of its request.
LEMMA GateStep ==
  ASSUME CInv, GateInv, ~BlockedRecovery, [Next]_vars
  PROVE  GateInv'
<1>1. SUFFICES ASSUME NEW t \in Rows', Newest(t)'
               PROVE  GateOf(t)'
  BY HasNewest DEF GateInv
<1>2. CASE t \notin Rows
  BY <1>1, <1>2, NewestInserted DEF GateOf
<1>3. CASE t \in Rows
  <2>1. Newest(t) /\ GateOf(t) /\ row'[t] = row[t]
    BY <1>1, <1>3, NewestAfter, PhaseRowFixed DEF GateInv
  <2>2. row[t].root \in Rows /\ row[t].root # t /\ IsRoot(row[t].root) /\ IsPhase(t)
    BY <1>3, <2>1 DEF CInv, IInv, TypeInv, Linked, Newest, IsPhase, IsRoot
  <2>3. CASE Untouched(t)
    BY <2>1, <2>3 DEF Untouched, GateOf
  <2>4. CASE RootDecided(t)
    BY <2>1, <2>4 DEF RootDecided, Decides, GateOf
  <2>5. CASE LosesPhase(t) /\ status[row[t].root] = "running"
    <3>1. status'[row[t].root] = "running"
      BY <2>2, <2>5 DEF LosesPhase, StatusOnly
    <3>. QED
      BY <2>1, <3>1 DEF GateOf
  <2>6. CASE StopsRequest(t)
    BY <2>1, <2>6 DEF StopsRequest, GateOf
  <2>7. CASE Promotes(t)
    BY <2>1, <2>2, <2>7 DEF Promotes, GateOf, CInv, ColumnInv, ColumnsOf
  <2>8. CASE EndsBeside(t) /\ status[row[t].root] = "running"
    <3>1. status'[row[t].root] = "running"
      BY <2>2, <2>8 DEF EndsBeside, StatusOnly
    <3>. QED
      BY <2>1, <3>1 DEF GateOf
  <2>9. ~PassesOn(t)
    BY <1>1, <1>3, PassedOn
  <2>. QED
    BY <1>3, <2>1, <2>3, <2>4, <2>5, <2>6, <2>7, <2>8, <2>9, RequestStep DEF ChainEvent
<1>. QED
  BY <1>2, <1>3

LEMMA GateInvariant ==
  ASSUME ~BlockedRecovery
  PROVE  Spec => [](CInv /\ GateInv)
<1>1. Init => GateInv
  BY DEF Init, GateInv, Rows
<1>2. CInv /\ GateInv /\ [Next]_vars => GateInv'
  BY GateStep
<1>. QED
  BY <1>1, <1>2, ColumnInvariant, PTL DEF Spec

(***************************************************************************)
(* Nothing waits for a person, and nothing is merged, but after an audit   *)
(* that approved the last phase run for the request, whatever else went    *)
(* wrong on the way (recover_blocked_tasks not used: it queues the blocked *)
(* rows of decided requests again).                                        *)
(***************************************************************************)
THEOREM AuditBeforeApproval ==
  ASSUME ~BlockedRecovery
  PROVE  Spec => []ApprovalGate
<1>1. CInv /\ GateInv => ApprovalGate
  <2>1. SUFFICES ASSUME CInv, GateInv, NEW r \in Rows, IsRoot(r),
                        status[r] \in {"waiting_approval", "succeeded"}
                 PROVE  /\ orch[r].review = "approved"
                        /\ \A t \in Rows : Newest(t) /\ row[t].root = r =>
                             row[t].phase = 5 /\ status[t] = "succeeded"
    BY DEF ApprovalGate
  <2>2. \A t \in Rows : Newest(t) /\ row[t].root = r =>
          row[t].phase = 5 /\ status[t] = "succeeded" /\ orch[r].review = "approved"
    BY <2>1 DEF GateInv, GateOf
  <2>. QED
    BY <2>1, <2>2 DEF GateInv
<1>. QED
  BY <1>1, GateInvariant, PTL

\* Every step keeps the reasons a request is running.
LEMMA RunningStep ==
  ASSUME CInv, GateInv, RunningInv, ~BlockedRecovery, ZeroOnlyFirst, [Next]_vars
  PROVE  RunningInv'
<1>1. SUFFICES ASSUME NEW t \in Rows', Newest(t)'
               PROVE  RunningOf(t)'
  BY DEF RunningInv
<1>2. CASE t \notin Rows
  BY <1>1, <1>2, NewestInserted DEF RunningOf
<1>3. CASE t \in Rows
  <2>1. Newest(t) /\ RunningOf(t) /\ row'[t] = row[t]
    BY <1>1, <1>3, NewestAfter, PhaseRowFixed DEF RunningInv
  <2>2. CASE Untouched(t)
    BY <2>1, <2>2 DEF Untouched, RunningOf
  <2>3. CASE RootDecided(t)
    BY <2>1, <2>3 DEF RootDecided, Decides, RunningOf
  <2>4. CASE LosesPhase(t)
    BY <2>1, <2>4 DEF LosesPhase, RunningOf
  <2>5. CASE StopsRequest(t)
    BY <2>1, <2>5 DEF StopsRequest, RunningOf
  <2>6. CASE Promotes(t)
    BY <2>1, <2>6 DEF Promotes, RunningOf
  <2>7. ~EndsBeside(t)
    BY DEF EndsBeside
  <2>8. ~PassesOn(t)
    BY <1>1, <1>3, PassedOn
  <2>. QED
    BY <1>3, <2>1, <2>2, <2>3, <2>4, <2>5, <2>6, <2>7, <2>8, RequestStep DEF ChainEvent
<1>. QED
  BY <1>2, <1>3

(***************************************************************************)
(* A request that is running is waiting for its next phase to be run, or   *)
(* has lost one to the LLM, which _generate_task_result does not tell the  *)
(* orchestrator: nothing else, no crash and no late completion, leaves a   *)
(* request behind (recover_blocked_tasks not used).                        *)
(***************************************************************************)
THEOREM RunningExplained ==
  ASSUME ~BlockedRecovery, ZeroOnlyFirst
  PROVE  Spec => []RunningRootExplained
<1>1. Init => RunningInv
  BY DEF Init, RunningInv, Rows
<1>2. CInv /\ GateInv /\ RunningInv /\ [Next]_vars => RunningInv'
  BY RunningStep
<1>3. GateInv /\ RunningInv => RunningRootExplained
  BY DEF GateInv, RunningInv, RunningOf, RunningRootExplained
<1>. QED
  BY <1>1, <1>2, <1>3, GateInvariant, PTL DEF Spec

-----------------------------------------------------------------------------
(* The rows implement the lifecycle of a request.                          *)

\* The stage of a request, from its status and that of its newest row.
StageFor(root, newest) ==
  CASE root = "running" -> IF newest = "blocked" THEN "stranded" ELSE "working"
    [] root = "waiting_approval" -> "awaiting"
    [] root = "succeeded" -> "merged"
    [] OTHER -> "stopped"

StageInv ==
  \A t \in Rows : Newest(t) =>
    Lifecycle(row[t].root) =
      [stage |-> StageFor(status[row[t].root], status[t]),
       phase |-> orch[row[t].root].current, round |-> orch[row[t].root].attempt]

LEMMA StageRead == TypeInv => StageInv
<1>1. SUFFICES ASSUME TypeInv, NEW t \in Rows, Newest(t)
               PROVE  Lifecycle(row[t].root) =
                        [stage |-> StageFor(status[row[t].root], status[t]),
                         phase |-> orch[row[t].root].current, round |-> orch[row[t].root].attempt]
  BY DEF StageInv
<1>. DEFINE r == row[t].root
<1>2. r \in Rows /\ IsRoot(r)
  BY <1>1 DEF TypeInv, Linked, Newest
<1>3. (\E u \in Rows : Newest(u) /\ row[u].root = r /\ status[u] = "blocked")
        <=> status[t] = "blocked"
  BY <1>1, NewestUnique
<1>. HIDE DEF r
<1>4. StageOf(r) = StageFor(status[r], status[t])
  BY <1>3 DEF StageOf, StageFor
<1>. QED
  BY <1>2, <1>4 DEF Lifecycle, r

\* What a request's lifecycle reads before and after a step, while t is the
\* newest row of its chain.
LEMMA LifecycleRead ==
  ASSUME CInv, [Next]_vars, NEW t \in Rows, Newest(t)
  PROVE  LET r == row[t].root
         IN  /\ Lifecycle(r) = [stage |-> StageFor(status[r], status[t]),
                                phase |-> orch[r].current, round |-> orch[r].attempt]
             /\ Newest(t)' =>
                  Lifecycle(r)' = [stage |-> StageFor(status'[r], status'[t]),
                                   phase |-> orch'[r].current, round |-> orch'[r].attempt]
<1>1. TypeInv /\ TypeInv' /\ t \in Rows' /\ row'[t] = row[t]
  BY TypeStep, PhaseRowFixed DEF CInv, IInv
<1>2. StageInv /\ StageInv'
  BY <1>1, StageRead, PTL
<1>. QED
  BY <1>1, <1>2 DEF StageInv

\* What a step may do to the lifecycle of a submitted request.
Moves(a, b) ==
  \/ b = a
  \/ a.stage = "working" /\ b = [a EXCEPT !.stage = "stranded"]
  \/ a.stage \in {"working", "awaiting"} /\ b = [a EXCEPT !.stage = "stopped"]
  \/ a.stage = "awaiting" /\ b = [a EXCEPT !.stage = "merged"]
  \/ a.stage = "working" /\ a.phase = 5 /\ b = [a EXCEPT !.stage = "awaiting"]
  \/ /\ a.stage = "working"
     /\ \E q \in 0 .. 5 : RL!Follows(a.phase, q) /\ b = [a EXCEPT !.phase = q]
  \/ /\ a.stage = "working" /\ a.phase = 5 /\ a.round < ReworkLimit
     /\ b = [stage |-> "working", phase |-> 4, round |-> a.round + 1]

\* The newest row of a chain stays that while its request is left alone or
\* decided.
LEMMA StaysNewest ==
  ASSUME CInv, [Next]_vars, NEW t \in Rows, Newest(t), Untouched(t) \/ RootDecided(t)
  PROVE  Newest(t)'
<1>1. SUFFICES ASSUME PassesOn(t)
               PROVE  FALSE
  BY NewestAfter
<1>2. TypeInv /\ ChainInv /\ n \in Nat /\ Rows = 1 .. n
  BY RowsAfter DEF CInv, IInv
<1>3. PICK k \in Rows' \ Rows : k = n + 1
  BY <1>1, <1>2, RowsAfter DEF PassesOn, Appended
<1>4. row'[k].kind = "phase" /\ row'[k].root = row[t].root /\ n' = n + 1
  BY <1>1, <1>3 DEF PassesOn, Appended
<1>5. IsPhase(k)'
  BY <1>4 DEF IsPhase
<1>6. PICK s \in Rows : Ends(s) /\ PassesOn(s)
  BY <1>2, <1>3, <1>4, <1>5, NewPhaseRow DEF Submits
<1>7. Newest(s) /\ row[s].root = row[t].root
  BY <1>2, <1>3, <1>4, <1>6, UnfinishedIsNewest DEF Ends, PassesOn, Appended
<1>8. s = t
  BY <1>2, <1>7, NewestUnique
<1>9. status[t] = "queued" /\ status'[t] = "succeeded"
  BY <1>6, <1>8 DEF Ends, PassesOn, Appended
<1>. QED
  BY <1>9 DEF Untouched, RootDecided

\* Phase after phase, or back to phase 4.
LEMMA PassesOnMoves ==
  ASSUME CInv, [Next]_vars, NEW t \in Rows, Newest(t), PassesOn(t),
         status[t] = "queued", status[row[t].root] = "running"
  PROVE  Moves(Lifecycle(row[t].root), Lifecycle(row[t].root)')
<1>. DEFINE r == row[t].root
            a == [stage |-> "working", phase |-> row[t].phase, round |-> orch[r].attempt]
<1>1. TypeInv /\ TypeInv' /\ ChainInv /\ n \in Nat /\ Rows = 1 .. n
  BY RowsAfter, TypeStep DEF CInv, IInv
<1>2. /\ MirroredBy(t) /\ r # t /\ r \in Rows /\ row[t].phase \in Phase
      /\ orch[r].attempt \in Nat /\ IsPhase(t)
  <2>1. IsPhase(t) /\ MirroredBy(t)
    BY <1>1 DEF Newest, ChainInv, InChain
  <2>2. r # t /\ r \in Rows
    BY <1>1, <2>1 DEF TypeInv, Linked, IsRoot, IsPhase
  <2>3. row[t].phase \in Phase
    BY <1>1 DEF TypeInv, TypeOK, Row
  <2>4. orch[r].attempt \in Nat
    BY <1>1, <2>2 DEF TypeInv, TypeOK, Orchestration
  <2>. QED
    BY <2>1, <2>2, <2>3, <2>4
<1>3. Lifecycle(r) = a
  BY <1>2, LifecycleRead DEF MirroredBy, StageFor
<1>4. PICK k \in Rows' : k = n + 1
  BY <1>1, RowsAfter DEF PassesOn, Appended
<1>5. /\ Rows' = Rows \cup {k} /\ row'[k].kind = "phase" /\ row'[k].root = r
      /\ status'[k] = "queued"
  BY <1>1, <1>4, RowsAfter DEF PassesOn, Appended
<1>6. \A u \in Rows' : u =< k
  BY <1>1, <1>4, <1>5
<1>7. Newest(k)'
  BY <1>5, <1>6 DEF Newest, IsPhase
<1>8. status'[r] = "running"
  BY <1>2 DEF PassesOn, StatusOnly
<1>9. Lifecycle(r)' = [stage |-> "working", phase |-> orch'[r].current, round |-> orch'[r].attempt]
  <2>1. StageInv'
    BY <1>1, StageRead, PTL
  <2>2. /\ row'[k].root = r /\ status'[r] = "running" /\ status'[k] = "queued"
        /\ row'[t] = row[t]
    BY <1>5, <1>8, PhaseRowFixed
  <2>3. Lifecycle(r)' = [stage |-> StageFor(status'[r], status'[k]),
                         phase |-> orch'[r].current, round |-> orch'[r].attempt]
    BY <1>4, <1>7, <2>1, <2>2 DEF StageInv
  <2>. QED
    BY <2>2, <2>3 DEF StageFor
<1>10. CASE /\ row[t].phase # 5 /\ row'[n + 1].phase = NextPhase(row[t].phase)
            /\ orch'[r].attempt = orch[r].attempt
  <2>1. CompletionFault(row[t].phase) = "none" /\ orch'[r].current = NextPhase(row[t].phase)
    BY <1>10 DEF PassesOn, Appended
  <2>2. RL!Follows(row[t].phase, NextPhase(row[t].phase))
    BY <1>2, <1>10, <2>1, NextPlace DEF RL!Follows
  <2>3. NextPhase(row[t].phase) \in 0 .. 5
    BY <1>2, <1>10, <2>1, NextPhaseType DEF Phase
  <2>4. Lifecycle(r)' = [a EXCEPT !.phase = NextPhase(row[t].phase)]
    BY <1>9, <1>10, <2>1
  <2>. QED
    BY <1>3, <2>2, <2>3, <2>4 DEF Moves
<1>11. CASE /\ row[t].phase = 5 /\ row'[n + 1].phase = 4
            /\ orch'[r].attempt = orch[r].attempt + 1
            /\ orch[r].attempt + 1 =< ReworkLimit
  <2>1. orch'[r].current = 4
    BY <1>11 DEF PassesOn, Appended
  <2>2. Lifecycle(r)' = [stage |-> "working", phase |-> 4, round |-> a.round + 1]
    BY <1>9, <1>11, <2>1
  <2>3. a.round < ReworkLimit
    BY <1>2, <1>11, PhaseOrchestratorAssumption
  <2>. QED
    BY <1>3, <1>11, <2>2, <2>3 DEF Moves
<1>. QED
  BY <1>10, <1>11 DEF PassesOn, Appended

\* Every step moves a request as its lifecycle allows, or not at all.
LEMMA RequestMoves ==
  ASSUME CInv, GateInv, ~BlockedRecovery, [Next]_vars, NEW t \in Rows, Newest(t)
  PROVE  /\ Moves(Lifecycle(row[t].root), Lifecycle(row[t].root)')
         /\ Untouched(t) => Lifecycle(row[t].root)' = Lifecycle(row[t].root)
<1>. DEFINE r == row[t].root
            a == [stage |-> StageFor(status[r], status[t]), phase |-> orch[r].current,
                  round |-> orch[r].attempt]
            b == [stage |-> StageFor(status'[r], status'[t]), phase |-> orch'[r].current,
                  round |-> orch'[r].attempt]
<1>1. /\ TypeInv /\ MirroredBy(t) /\ r # t /\ r \in Rows /\ IsPhase(t)
      /\ IsRoot(r) /\ row[r].target
  BY DEF Newest, CInv, IInv, ChainInv, InChain, TypeInv, TypeOK, Linked, IsRoot, IsPhase,
         ColumnInv, ColumnsOf
<1>2. Lifecycle(r) = a /\ (Newest(t)' => Lifecycle(r)' = b)
  BY LifecycleRead
<1>3. CASE Untouched(t)
  <2>1. b = a
    BY <1>3 DEF Untouched
  <2>. QED
    BY <1>2, <1>3, <2>1, StaysNewest DEF Moves
<1>4. CASE RootDecided(t)
  <2>1. Lifecycle(r)' = b /\ orch'[r] = orch[r]
    BY <1>2, <1>4, StaysNewest DEF RootDecided
  <2>2. a.stage = "awaiting" /\ b.stage \in {"merged", "stopped"}
    BY <1>4 DEF RootDecided, Decides, StageFor
  <2>3. b = [a EXCEPT !.stage = b.stage]
    BY <2>1
  <2>4. Moves(Lifecycle(r), Lifecycle(r)')
    <3>. HIDE DEF a, b
    <3>. QED
      BY <1>2, <2>1, <2>2, <2>3 DEF Moves
  <2>5. ~Untouched(t)
    BY <1>4 DEF RootDecided, Decides, Untouched
  <2>. QED
    BY <2>4, <2>5
<1>5. CASE ~Untouched(t) /\ status[t] = "queued" /\ status[r] = "running"
  <2>1. a = [stage |-> "working", phase |-> row[t].phase, round |-> orch[r].attempt]
    BY <1>1, <1>5 DEF StageFor, MirroredBy
  <2>2. ~PassesOn(t) => Lifecycle(r)' = b
    BY <1>2, NewestAfter
  <2>3. CASE LosesPhase(t)
    <3>1. status'[r] = "running" /\ status'[t] = "blocked" /\ orch'[r] = orch[r]
      BY <1>1, <1>5, <2>3 DEF LosesPhase, StatusOnly, PayloadOnly
    <3>2. ~PassesOn(t)
      BY <2>3 DEF LosesPhase, PassesOn, Appended
    <3>3. b = [a EXCEPT !.stage = "stranded"]
      BY <1>1, <2>1, <3>1 DEF StageFor, MirroredBy
    <3>. QED
      BY <1>2, <1>5, <2>1, <2>2, <3>2, <3>3 DEF Moves
  <2>4. CASE StopsRequest(t)
    <3>1. status'[r] = "blocked" /\ orch'[r].current = row[t].phase /\ orch'[r].attempt = orch[r].attempt
      BY <2>4 DEF StopsRequest
    <3>2. ~PassesOn(t)
      BY <1>1, <2>4 DEF StopsRequest, PayloadOnly, PassesOn, Appended, TypeInv, TypeOK
    <3>3. b = [a EXCEPT !.stage = "stopped"]
      BY <2>1, <3>1 DEF StageFor
    <3>. QED
      BY <1>2, <1>5, <2>1, <2>2, <3>2, <3>3 DEF Moves
  <2>5. CASE Promotes(t)
    <3>1. /\ status'[r] = "waiting_approval" /\ orch'[r].current = 5
          /\ orch'[r].attempt = orch[r].attempt /\ row[t].phase = 5
      BY <1>1, <2>5 DEF Promotes
    <3>2. ~PassesOn(t)
      BY <1>1, <2>5 DEF Promotes, PayloadOnly, PassesOn, Appended, TypeInv, TypeOK
    <3>3. b = [a EXCEPT !.stage = "awaiting"]
      BY <2>1, <3>1 DEF StageFor
    <3>. QED
      BY <1>2, <1>5, <2>1, <2>2, <3>1, <3>2, <3>3 DEF Moves
  <2>6. CASE EndsBeside(t)
    <3>1. status'[r] = "running" /\ status'[t] = "succeeded" /\ orch'[r] = orch[r]
      BY <1>1, <1>5, <2>6 DEF EndsBeside, StatusOnly, PayloadOnly
    <3>2. ~PassesOn(t)
      BY <1>1, <2>6 DEF EndsBeside, PayloadOnly, PassesOn, Appended, TypeInv, TypeOK
    <3>3. b = a
      BY <1>1, <2>1, <3>1 DEF StageFor, MirroredBy
    <3>. QED
      BY <1>2, <1>5, <2>2, <3>2, <3>3 DEF Moves
  <2>7. CASE PassesOn(t)
    BY <1>5, <2>7, PassesOnMoves
  <2>. QED
    BY <1>5, <2>3, <2>4, <2>5, <2>6, <2>7, RequestStep DEF ChainEvent, RootDecided, Decides
<1>. QED
  BY <1>3, <1>4, <1>5, RequestStep DEF ChainEvent

\* What is no request before a step is none after it, but for a submission.
LEMMA NoRequest ==
  ASSUME CInv, [Next]_vars, NEW x \in 1 .. MaxTasks, ~(x \in Rows /\ IsRoot(x)),
         ~(Submits /\ x = n + 1)
  PROVE  Lifecycle(x)' = Lifecycle(x)
<1>1. ~(x \in Rows' /\ IsRoot(x)')
  <2>1. CASE x \in Rows
    BY <2>1, PhaseRowFixed DEF IsRoot
  <2>2. CASE x \notin Rows
    BY <2>2, NewRoot
  <2>. QED
    BY <2>1, <2>2
<1>. QED
  BY <1>1 DEF Lifecycle

\* A request nothing happens to.
LEMMA RequestKept ==
  ASSUME CInv, GateInv, ~BlockedRecovery, [Next]_vars, NEW x \in Rows, IsRoot(x),
         \A t \in Rows : Newest(t) /\ row[t].root = x => Untouched(t)
  PROVE  Lifecycle(x)' = Lifecycle(x)
<1>1. PICK t \in Rows : Newest(t) /\ row[t].root = x
  BY DEF GateInv
<1>2. Untouched(t) /\ row'[t] = row[t]
  BY <1>1, PhaseRowFixed
<1>. QED
  BY <1>1, <1>2, RequestMoves

\* A step changes the lifecycle of one request at most.
LEMMA OneRequest ==
  ASSUME CInv, GateInv, ~BlockedRecovery, [Next]_vars
  PROVE  \E x \in 0 .. MaxTasks :
           /\ \A y \in 1 .. MaxTasks \ {x} : Lifecycle(y)' = Lifecycle(y)
           /\ x = 0 \/ (x \in Rows /\ IsRoot(x)) \/ (Submits /\ x = n + 1)
<1>1. TypeInv /\ TypeInv' /\ MaxTasks \in Nat
  BY TypeStep, TaskTableAssumption DEF CInv, IInv
<1>2. /\ n \in 0 .. MaxTasks /\ n' \in 0 .. MaxTasks
      /\ n \in Nat /\ Rows = 1 .. n /\ Rows \subseteq 0 .. MaxTasks
  BY <1>1 DEF TypeInv, TypeOK, Rows
<1>3. CASE Submits
  <2>1. n + 1 \in 0 .. MaxTasks
    BY <1>1, <1>2, <1>3 DEF Submits
  <2>2. ASSUME NEW y \in 1 .. MaxTasks, y # n + 1
        PROVE  Lifecycle(y)' = Lifecycle(y)
    <3>1. CASE y \in Rows /\ IsRoot(y)
      <4>1. \A t \in Rows : row[t].root = y => Untouched(t)
        BY <1>3, <3>1 DEF Submits, TableKept, Untouched
      <4>. QED
        BY <3>1, <4>1, RequestKept
    <3>. QED
      BY <2>2, <3>1, NoRequest
  <2>. QED
    BY <1>3, <2>1, <2>2
<1>4. ASSUME ~Submits, NEW s \in Rows, Ends(s)
      PROVE  \E x \in 0 .. MaxTasks :
               /\ \A y \in 1 .. MaxTasks \ {x} : Lifecycle(y)' = Lifecycle(y)
               /\ x = 0 \/ (x \in Rows /\ IsRoot(x))
  <2>1. PICK x \in 0 .. MaxTasks : IF IsPhase(s) THEN x = row[s].root /\ x \in Rows /\ IsRoot(x) ELSE x = 0
    <3>1. IsPhase(s) => row[s].root \in Rows /\ IsRoot(row[s].root)
      BY <1>1 DEF TypeInv, Linked
    <3>. QED
      BY <1>1, <1>2, <3>1
  <2>2. ASSUME NEW y \in 1 .. MaxTasks, y # x
        PROVE  Lifecycle(y)' = Lifecycle(y)
    <3>1. CASE y \in Rows /\ IsRoot(y)
      <4>1. ASSUME NEW t \in Rows, Newest(t), row[t].root = y
            PROVE  Untouched(t)
        <5>1. s # y
          BY <1>4, <4>1 DEF Ends, GateInv, GateOf
        <5>2. IsPhase(s) => row[s].root # y
          BY <2>1, <2>2
        <5>. QED
          BY <1>4, <4>1, <5>1, <5>2, OtherUntouched
      <4>. QED
        BY <3>1, <4>1, RequestKept
    <3>. QED
      BY <1>4, <3>1, NoRequest
  <2>. QED
    BY <2>1, <2>2
<1>5. ASSUME ~Submits, \A s \in Rows : ~Ends(s), NEW x \in 0 .. MaxTasks,
             \A y \in Rows : Decides(y) => y = x
      PROVE  \A y \in 1 .. MaxTasks \ {x} : Lifecycle(y)' = Lifecycle(y)
  <2>1. SUFFICES ASSUME NEW y \in 1 .. MaxTasks, y # x
                 PROVE  Lifecycle(y)' = Lifecycle(y)
    OBVIOUS
  <2>2. CASE y \in Rows /\ IsRoot(y)
    <3>1. \A t \in Rows : Newest(t) /\ row[t].root = y => Untouched(t)
      BY <1>5, <2>1, <2>2, RequestRests DEF RootDecided
    <3>. QED
      BY <2>2, <3>1, RequestKept
  <2>. QED
    BY <1>5, <2>2, NoRequest
<1>6. CASE ~Submits /\ \A s \in Rows : ~Ends(s)
  <2>1. ASSUME NEW s \in Rows, NEW y \in Rows, Decides(s), Decides(y)
        PROVE  y = s
    BY <2>1 DEF Decides, StatusOnly
  <2>2. CASE \E s \in Rows : Decides(s) /\ IsRoot(s)
    <3>1. PICK s \in Rows : Decides(s) /\ IsRoot(s)
      BY <2>2
    <3>2. s \in 0 .. MaxTasks /\ \A y \in Rows : Decides(y) => y = s
      BY <1>2, <2>1, <3>1
    <3>. QED
      BY <1>5, <1>6, <3>1, <3>2
  <2>3. CASE \E s \in Rows : Decides(s) /\ ~IsRoot(s)
    <3>1. PICK s \in Rows : Decides(s) /\ ~IsRoot(s)
      BY <2>3
    <3>2. s \in 0 .. MaxTasks /\ \A y \in Rows : Decides(y) => y = s
      BY <1>2, <2>1, <3>1
    <3>3. \A y \in 1 .. MaxTasks \ {s} : Lifecycle(y)' = Lifecycle(y)
      BY <1>5, <1>6, <3>2
    <3>4. s \in 1 .. MaxTasks => Lifecycle(s)' = Lifecycle(s)
      BY <1>6, <3>1, NoRequest
    <3>5. 0 \in 0 .. MaxTasks
      BY <1>1
    <3>. QED
      BY <3>3, <3>4, <3>5
  <2>4. CASE \A s \in Rows : ~Decides(s)
    <3>1. 0 \in 0 .. MaxTasks
      BY <1>1
    <3>. QED
      BY <1>5, <1>6, <2>4, <3>1
  <2>. QED
    BY <2>2, <2>3, <2>4
<1>. QED
  BY <1>3, <1>4, <1>6

\* The lifecycle of every row.
Life == [r \in 1 .. MaxTasks |-> Lifecycle(r)]

\* A submission opens a request.
LEMMA OpensRequest ==
  ASSUME CInv, [Next]_vars, Submits, NEW x \in 1 .. MaxTasks, x = n + 1
  PROVE  /\ Lifecycle(x) = [stage |-> "none", phase |-> 0, round |-> 0]
         /\ Lifecycle(x)' = [stage |-> "working", phase |-> 0, round |-> 0]
<1>1. TypeInv /\ TypeInv' /\ n \in Nat /\ Rows = 1 .. n
  BY RowsAfter, TypeStep DEF CInv, IInv
<1>2. Lifecycle(x) = [stage |-> "none", phase |-> 0, round |-> 0]
  BY <1>1 DEF Lifecycle
<1>3. PICK k \in Rows' : k = n + 2
  BY <1>1, RowsAfter DEF Submits
<1>4. /\ Rows' = Rows \cup {x, k} /\ row'[k].kind = "phase" /\ row'[k].root = x
      /\ status'[x] = "running" /\ status'[k] = "queued" /\ orch'[x] = NewOrchestration
  BY <1>1, <1>3, RowsAfter DEF Submits
<1>5. \A u \in Rows' : u =< k
  BY <1>1, <1>3, <1>4
<1>6. Newest(k)'
  BY <1>4, <1>5 DEF Newest, IsPhase
<1>7. StageInv'
  BY <1>1, StageRead, PTL
<1>8. Lifecycle(x)' = [stage |-> StageFor(status'[x], status'[k]),
                       phase |-> orch'[x].current, round |-> orch'[x].attempt]
  BY <1>3, <1>4, <1>6, <1>7 DEF StageInv
<1>. QED
  BY <1>2, <1>4, <1>8 DEF StageFor, NewOrchestration

\* The lifecycles after a step that changes one of them.
LEMMA LifeExcept ==
  ASSUME NEW x \in 1 .. MaxTasks, \A y \in 1 .. MaxTasks \ {x} : Lifecycle(y)' = Lifecycle(y),
         NEW v, Lifecycle(x)' = v
  PROVE  Life' = [Life EXCEPT ![x] = v] /\ Life[x] = Lifecycle(x)
<1>1. Life' = [r \in 1 .. MaxTasks |-> Lifecycle(r)']
  BY DEF Life
<1>2. Life[x] = Lifecycle(x)
  BY DEF Life
<1>3. \A y \in 1 .. MaxTasks : Lifecycle(y)' = [Life EXCEPT ![x] = v][y]
  BY DEF Life
<1>. QED
  BY <1>1, <1>2, <1>3 DEF Life

\* Every step of the rows is one of the lifecycle, or none.
LEMMA LifeStep ==
  ASSUME CInv, GateInv, ~BlockedRecovery, [Next]_vars
  PROVE  RL!Next \/ Life' = Life
<1>1. PICK x \in 0 .. MaxTasks :
        /\ \A y \in 1 .. MaxTasks \ {x} : Lifecycle(y)' = Lifecycle(y)
        /\ x = 0 \/ (x \in Rows /\ IsRoot(x)) \/ (Submits /\ x = n + 1)
  BY OneRequest
<1>2. TypeInv /\ n \in Nat /\ Rows = 1 .. n /\ MaxTasks \in Nat
  BY RowsAfter, TaskTableAssumption DEF CInv, IInv
<1>3. CASE x = 0
  <2>1. \A y \in 1 .. MaxTasks : Lifecycle(y)' = Lifecycle(y)
    BY <1>1, <1>3
  <2>. QED
    BY <2>1 DEF Life
<1>4. ASSUME x # 0
      PROVE  x \in 1 .. MaxTasks
  BY <1>2, <1>4
<1>. USE DEF RL!Next, RL!Open, RL!Strand, RL!Stop, RL!Merge, RL!Pass, RL!Advance, RL!Rework, RL!Move
<1>5. CASE Submits /\ x = n + 1
  <2>1. x \in 1 .. MaxTasks
    BY <1>2, <1>4, <1>5
  <2>2. /\ Lifecycle(x) = [stage |-> "none", phase |-> 0, round |-> 0]
        /\ Lifecycle(x)' = [stage |-> "working", phase |-> 0, round |-> 0]
    BY <1>5, <2>1, OpensRequest
  <2>3. Lifecycle(x)' = [Lifecycle(x) EXCEPT !.stage = "working"]
    BY <2>2
  <2>4. /\ Life' = [Life EXCEPT ![x] = [Lifecycle(x) EXCEPT !.stage = "working"]]
        /\ Life[x] = Lifecycle(x)
    BY <1>1, <2>1, <2>3, LifeExcept
  <2>5. Lifecycle(x).stage = "none"
    BY <2>2
  <2>6. RL!Open(x)
    BY <2>4, <2>5 DEF Life
  <2>. QED
    BY <2>1, <2>6
<1>6. CASE x \in Rows /\ IsRoot(x) /\ x # 0
  <2>1. PICK t \in Rows : Newest(t) /\ row[t].root = x
    BY <1>6 DEF GateInv
  <2>2. Moves(Lifecycle(x), Lifecycle(x)')
    <3>1. row'[t] = row[t]
      BY <2>1, PhaseRowFixed
    <3>. QED
      BY <2>1, <3>1, RequestMoves
  <2>3. x \in 1 .. MaxTasks
    BY <1>4, <1>6
  <2>. DEFINE a == Lifecycle(x)
  <2>4. Life[x] = a
    BY <2>3 DEF Life
  <2>5. ASSUME NEW v, Lifecycle(x)' = v
        PROVE  Life' = [Life EXCEPT ![x] = v]
    BY <1>1, <2>3, <2>5, LifeExcept
  <2>6. CASE Lifecycle(x)' = a
    BY <1>1, <2>6 DEF Life
  <2>7. CASE a.stage = "working" /\ Lifecycle(x)' = [a EXCEPT !.stage = "stranded"]
    <3>1. Life' = [Life EXCEPT ![x] = [a EXCEPT !.stage = "stranded"]]
      BY <2>5, <2>7
    <3>2. RL!Strand(x)
      BY <2>4, <2>7, <3>1 DEF Life
    <3>. QED
      BY <2>3, <3>2
  <2>8. CASE a.stage \in {"working", "awaiting"} /\ Lifecycle(x)' = [a EXCEPT !.stage = "stopped"]
    <3>1. Life' = [Life EXCEPT ![x] = [a EXCEPT !.stage = "stopped"]]
      BY <2>5, <2>8
    <3>2. RL!Stop(x)
      BY <2>4, <2>8, <3>1 DEF Life
    <3>. QED
      BY <2>3, <3>2
  <2>9. CASE a.stage = "awaiting" /\ Lifecycle(x)' = [a EXCEPT !.stage = "merged"]
    <3>1. Life' = [Life EXCEPT ![x] = [a EXCEPT !.stage = "merged"]]
      BY <2>5, <2>9
    <3>2. RL!Merge(x)
      BY <2>4, <2>9, <3>1 DEF Life
    <3>. QED
      BY <2>3, <3>2
  <2>10. CASE /\ a.stage = "working" /\ a.phase = 5
              /\ Lifecycle(x)' = [a EXCEPT !.stage = "awaiting"]
    <3>1. Life' = [Life EXCEPT ![x] = [a EXCEPT !.stage = "awaiting"]]
      BY <2>5, <2>10
    <3>2. RL!Pass(x)
      BY <2>4, <2>10, <3>1 DEF Life
    <3>. QED
      BY <2>3, <3>2
  <2>11. CASE /\ a.stage = "working"
              /\ \E q \in 0 .. 5 : RL!Follows(a.phase, q) /\ Lifecycle(x)' = [a EXCEPT !.phase = q]
    <3>1. PICK q \in 0 .. 5 : RL!Follows(a.phase, q) /\ Lifecycle(x)' = [a EXCEPT !.phase = q]
      BY <2>11
    <3>2. Life' = [Life EXCEPT ![x] = [a EXCEPT !.phase = q]]
      BY <2>5, <3>1
    <3>3. RL!Advance(x)
      BY <2>4, <2>11, <3>1, <3>2 DEF Life
    <3>. QED
      BY <2>3, <3>3
  <2>12. CASE /\ a.stage = "working" /\ a.phase = 5 /\ a.round < ReworkLimit
              /\ Lifecycle(x)' = [stage |-> "working", phase |-> 4, round |-> a.round + 1]
    <3>1. Life' = [Life EXCEPT ![x] = [stage |-> "working", phase |-> 4, round |-> a.round + 1]]
      BY <2>5, <2>12
    <3>2. RL!Rework(x)
      BY <2>4, <2>12, <3>1 DEF Life
    <3>. QED
      BY <2>3, <3>2
  <2>. QED
    BY <2>2, <2>6, <2>7, <2>8, <2>9, <2>10, <2>11, <2>12 DEF Moves
<1>. QED
  BY <1>1, <1>3, <1>5, <1>6

(***************************************************************************)
(* The rows, transactions, crashes and late answers of TaskBackend         *)
(* implement the lifecycle of a request: phase after phase, bounded        *)
(* rework, approval only after an approved audit (recover_blocked_tasks    *)
(* not used).                                                              *)
(***************************************************************************)
THEOREM RequestsFollowLifecycle ==
  ASSUME ~BlockedRecovery
  PROVE  Spec => ImplementsLifecycle
<1>1. Init => RL!Init
  BY DEF Init, RL!Init, RL!NotSubmitted, Lifecycle, Rows
<1>2. CInv /\ GateInv /\ [Next]_vars => [RL!Next]_Life
  BY LifeStep
<1>3. Life = [r \in 1 .. MaxTasks |-> Lifecycle(r)]
  BY DEF Life
<1>4. CInv /\ GateInv /\ [Next]_vars => [RL!Next]_[r \in 1 .. MaxTasks |-> Lifecycle(r)]
  BY <1>2 DEF Life
<1>. QED
  BY <1>1, <1>4, GateInvariant, PTL DEF Spec, ImplementsLifecycle, RL!Spec

-----------------------------------------------------------------------------
(* The page of a request.                                                  *)

PageType ==
  page \in [of : Nat, status : Status \cup {"none"}, current : Phase, attempt : Nat,
            rows : SUBSET [id : Nat, phase : Phase, attempt : Nat, status : Status]]

\* What is still true of the rows of a request when its page has been loaded,
\* and the page is about to read them.
LoadedInv ==
  LET r == page.of
  IN  r # 0 =>
        /\ r \in Rows /\ IsRoot(r)
        /\ \E t \in Subtasks(r) : row[t].phase = page.current /\ orch[t].attempt = page.attempt
        /\ page.status # "running" => status[r] # "running"
        /\ page.status = "waiting_approval" =>
             /\ \A t \in Subtasks(r) : status[t] = "succeeded"
             /\ \E t \in Subtasks(r) : row[t].phase = 5 /\ orch[t].attempt = page.attempt

PageInv == PageType /\ LoadedInv /\ PageAgrees

\* The rows a page lists are the phase rows of its request.
LEMMA SubtasksArePhases ==
  ASSUME TypeInv, NEW r \in Rows, IsRoot(r), NEW t \in Rows
  PROVE  t \in Subtasks(r) <=> IsPhase(t) /\ row[t].root = r
BY DEF TypeInv, Linked, Subtasks, IsRoot, IsPhase

\* No phase row of a request that is not running is in the queue.
LEMMA NoneQueued ==
  ASSUME CInv, GateInv, NEW r \in Rows, IsRoot(r), status[r] # "running"
  PROVE  \A t \in Subtasks(r) : status[t] \notin {"queued", "running"}
<1>1. SUFFICES ASSUME NEW t \in Subtasks(r)
               PROVE  status[t] \notin {"queued", "running"}
  OBVIOUS
<1>2. t \in Rows /\ IsPhase(t) /\ row[t].root = r
  BY SubtasksArePhases DEF CInv, IInv, Subtasks
<1>3. CASE Newest(t)
  BY <1>2, <1>3 DEF GateInv, GateOf, CInv, ColumnInv, ColumnsOf
<1>4. CASE ~Newest(t)
  BY <1>2, <1>4 DEF CInv, IInv, ChainInv, InChain
<1>. QED
  BY <1>3, <1>4

\* The phase rows of a request stay, and only a running one gets more.
LEMMA SubtasksStep ==
  ASSUME CInv, CInv', GateInv, ~BlockedRecovery, [Next]_vars, NEW r \in Rows, IsRoot(r)
  PROVE  /\ r \in Rows' /\ IsRoot(r)'
         /\ \A t \in Subtasks(r) : /\ t \in Subtasks(r)' /\ row'[t] = row[t] /\ orch'[t] = orch[t]
                                   /\ status[t] = "succeeded" => status'[t] = "succeeded"
         /\ status[r] # "running" =>
              status'[r] # "running" /\ \A t \in Subtasks(r)' : t \in Subtasks(r)
<1>1. TypeInv /\ TypeInv' /\ ChainInv /\ n \in Nat /\ Rows = 1 .. n
  BY RowsAfter DEF CInv, IInv
<1>2. r \in Rows' /\ row'[r] = row[r] /\ IsRoot(r)'
  BY PhaseRowFixed DEF IsRoot
<1>3. ASSUME NEW t \in Subtasks(r)
      PROVE  /\ t \in Subtasks(r)' /\ row'[t] = row[t] /\ orch'[t] = orch[t]
             /\ status[t] = "succeeded" => status'[t] = "succeeded"
  <2>1. t \in Rows /\ t # r /\ IsPhase(t) /\ row[t].root = r
    BY <1>1, <1>3, SubtasksArePhases DEF Subtasks
  <2>2. t \in Rows' /\ row'[t] = row[t] /\ orch'[t] = orch[t]
    BY <2>1, PhaseRowFixed
  <2>3. status[t] = "succeeded" => status'[t] = "succeeded"
    BY <2>1, SucceededStays
  <2>. QED
    BY <2>1, <2>2, <2>3 DEF Subtasks
<1>4. ASSUME status[r] # "running"
      PROVE  status'[r] # "running" /\ \A t \in Subtasks(r)' : t \in Subtasks(r)
  <2>1. PICK t \in Rows : Newest(t) /\ row[t].root = r
    BY DEF GateInv
  <2>2. status'[r] # "running"
    BY <1>4, <2>1, RequestStep DEF ChainEvent, Untouched, RootDecided, Decides
  <2>3. ASSUME NEW u \in Rows' \ Rows, u # r, row'[u].root = r
        PROVE  FALSE
    <3>1. IsPhase(u)'
      BY <1>1, <2>3 DEF TypeInv, Linked
    <3>2. CASE Submits /\ u = n + 2
      BY <1>1, <2>3, <3>2, RowsAfter DEF Submits
    <3>3. ASSUME u = n + 1, NEW s \in Rows, Ends(s), PassesOn(s)
          PROVE  FALSE
      <4>1. row[s].root = r /\ Newest(s) /\ status[s] = "queued"
        BY <1>1, <2>3, <3>3, UnfinishedIsNewest DEF Ends, PassesOn, Appended
      <4>. QED
        BY <1>4, <4>1 DEF GateInv, GateOf
    <3>. QED
      BY <3>1, <3>2, <3>3, NewPhaseRow
  <2>4. ASSUME NEW u \in Subtasks(r)'
        PROVE  u \in Subtasks(r)
    <3>1. u \in Rows' /\ u # r /\ row'[u].root = r
      BY <2>4 DEF Subtasks
    <3>2. u \in Rows
      BY <2>3, <3>1
    <3>. QED
      BY <3>1, <3>2, PhaseRowFixed DEF Subtasks
  <2>. QED
    BY <2>2, <2>4
<1>. QED
  BY <1>2, <1>3, <1>4

\* What loading the page of a request finds.
LEMMA LoadTaskStep ==
  ASSUME CInv, GateInv, NEW r \in Rows, LoadTask(r)
  PROVE  PageInv'
<1>1. /\ TypeInv /\ ChainInv /\ IsRoot(r) /\ UNCHANGED vars
      /\ page' = [of |-> r, status |-> status[r], current |-> orch[r].current,
                  attempt |-> orch[r].attempt, rows |-> {}]
  BY DEF LoadTask, CInv, IInv, IsRoot
<1>2. status[r] \in Status /\ orch[r].current \in Phase /\ orch[r].attempt \in Nat /\ r \in Nat
  BY <1>1, RowsAfter DEF TypeInv, TypeOK, Orchestration
<1>3. PageType'
  BY <1>1, <1>2 DEF PageType
<1>4. PageAgrees'
  BY <1>1 DEF PageAgrees
<1>5. PICK t \in Rows : Newest(t) /\ row[t].root = r
  BY <1>1 DEF GateInv
<1>6. t \in Subtasks(r) /\ row[t].phase = orch[r].current /\ orch[t].attempt = orch[r].attempt
  BY <1>1, <1>5, SubtasksArePhases DEF Newest, ChainInv, InChain, MirroredBy
<1>7. ASSUME status[r] = "waiting_approval"
      PROVE  /\ row[t].phase = 5
             /\ \A u \in Subtasks(r) : status[u] = "succeeded"
  <2>1. row[t].phase = 5 /\ status[t] = "succeeded"
    BY <1>5, <1>7 DEF GateInv, GateOf
  <2>2. ASSUME NEW u \in Subtasks(r)
        PROVE  status[u] = "succeeded"
    <3>1. u \in Rows /\ IsPhase(u) /\ row[u].root = r
      BY <1>1, <2>2, SubtasksArePhases DEF Subtasks
    <3>2. CASE Newest(u)
      BY <1>1, <1>5, <2>1, <3>1, <3>2, NewestUnique
    <3>3. CASE ~Newest(u)
      BY <1>1, <3>1, <3>3 DEF ChainInv, InChain
    <3>. QED
      BY <3>2, <3>3
  <2>. QED
    BY <2>1, <2>2
<1>8. LoadedInv'
  <2>1. /\ Rows' = Rows /\ Subtasks(r)' = Subtasks(r) /\ row' = row /\ orch' = orch
        /\ status' = status /\ IsRoot(r)'
    BY <1>1 DEF vars, Rows, Subtasks, IsRoot
  <2>2. page'.of = r /\ page'.status = status[r] /\ page'.current = orch[r].current
        /\ page'.attempt = orch[r].attempt
    BY <1>1
  <2>. QED
    BY <1>6, <1>7, <2>1, <2>2 DEF LoadedInv
<1>. QED
  BY <1>3, <1>4, <1>8 DEF PageInv

\* The second connection's answer agrees with the first one's.
LEMMA LoadSubtasksStep ==
  ASSUME CInv, GateInv, PageInv, LoadSubtasks
  PROVE  PageInv'
<1>. DEFINE r == page.of
            line(t) == [id |-> t, phase |-> row[t].phase, attempt |-> orch[t].attempt,
                        status |-> status[t]]
            rows == {line(t) : t \in Subtasks(r)}
<1>1. /\ TypeInv /\ r # 0 /\ page' = [page EXCEPT !.rows = rows] /\ UNCHANGED vars
      /\ PageType /\ LoadedInv
  BY DEF LoadSubtasks, CInv, IInv, PageInv
<1>2. \A t \in Subtasks(r) : line(t) \in [id : Nat, phase : Phase, attempt : Nat, status : Status]
  BY <1>1, RowsAfter DEF TypeInv, TypeOK, Row, Orchestration, Subtasks
<1>3. rows \in SUBSET [id : Nat, phase : Phase, attempt : Nat, status : Status]
  BY <1>2
<1>4. \A t \in Subtasks(r) : line(t) \in rows /\ line(t).phase = row[t].phase
                              /\ line(t).attempt = orch[t].attempt /\ line(t).status = status[t]
  OBVIOUS
<1>5. \A s \in rows : \E t \in Subtasks(r) : s.status = status[t]
  OBVIOUS
<1>6. r \in Rows /\ IsRoot(r)
  BY <1>1 DEF LoadedInv
<1>7. page.status # "running" => \A s \in rows : s.status \notin {"queued", "running"}
  BY <1>1, <1>5, <1>6, NoneQueued DEF LoadedInv
<1>8. page.status = "waiting_approval" =>
        /\ \A s \in rows : s.status = "succeeded"
        /\ \E s \in rows : s.phase = 5 /\ s.attempt = page.attempt
  BY <1>1, <1>4, <1>5 DEF LoadedInv
<1>9. \E s \in rows : s.phase = page.current /\ s.attempt = page.attempt
  BY <1>1, <1>4 DEF LoadedInv
<1>. HIDE DEF rows
<1>10. /\ page'.of = r /\ page'.status = page.status /\ page'.current = page.current
       /\ page'.attempt = page.attempt /\ page'.rows = rows /\ PageType'
  BY <1>1, <1>3 DEF PageType
<1>11. PageAgrees'
  BY <1>7, <1>8, <1>9, <1>10 DEF PageAgrees
<1>12. LoadedInv'
  BY <1>1, <1>10 DEF LoadedInv, vars, Rows, Subtasks, IsRoot
<1>. QED
  BY <1>10, <1>11, <1>12 DEF PageInv

\* What a page has read stays true of the rows.
LEMMA PageKept ==
  ASSUME CInv, CInv', GateInv, PageInv, ~BlockedRecovery, [Next]_vars, UNCHANGED page
  PROVE  PageInv'
<1>1. PageType' /\ PageAgrees'
  BY DEF PageInv, PageType, PageAgrees
<1>2. SUFFICES ASSUME page.of # 0
               PROVE  LoadedInv'
  BY <1>1 DEF PageInv, LoadedInv
<1>3. PICK r \in Rows : r = page.of /\ r = page'.of /\ IsRoot(r)
  BY <1>2 DEF PageInv, LoadedInv
<1>4. /\ \E t \in Subtasks(r) : row[t].phase = page.current /\ orch[t].attempt = page.attempt
      /\ page.status # "running" => status[r] # "running"
      /\ page.status = "waiting_approval" =>
           /\ \A t \in Subtasks(r) : status[t] = "succeeded"
           /\ \E t \in Subtasks(r) : row[t].phase = 5 /\ orch[t].attempt = page.attempt
  BY <1>2, <1>3 DEF PageInv, LoadedInv
<1>5. /\ r \in Rows' /\ IsRoot(r)'
      /\ \A t \in Subtasks(r) : /\ t \in Subtasks(r)' /\ row'[t] = row[t] /\ orch'[t] = orch[t]
                                /\ status[t] = "succeeded" => status'[t] = "succeeded"
      /\ status[r] # "running" =>
           status'[r] # "running" /\ \A t \in Subtasks(r)' : t \in Subtasks(r)
  BY <1>3, SubtasksStep
<1>. QED
  BY <1>3, <1>4, <1>5 DEF LoadedInv

(***************************************************************************)
(* However much the workers and other people do to a request between the   *)
(* two connections its page is read on, the list of phases is never behind *)
(* the task above it (recover_blocked_tasks not used).                     *)
(***************************************************************************)
THEOREM PageIsConsistent ==
  ASSUME ~BlockedRecovery
  PROVE  PageSpec => []PageAgrees
<1>1. PageInit => CInv /\ GateInv /\ PageInv
  <2>1. ASSUME PageInit
        PROVE  GateInv /\ PageInv
    <3>1. page = [of |-> 0, status |-> "none", current |-> 0, attempt |-> 0, rows |-> {}]
      BY <2>1 DEF PageInit, Closed
    <3>2. PageType /\ LoadedInv /\ PageAgrees
      BY <3>1 DEF PageType, LoadedInv, PageAgrees, Phase
    <3>3. GateInv
      BY <2>1 DEF PageInit, Init, GateInv, Rows
    <3>. QED
      BY <3>2, <3>3 DEF PageInv
  <2>. QED
    BY <2>1, CInit DEF PageInit
<1>2. ASSUME CInv, GateInv, PageInv, [PageNext]_pageVars
      PROVE  CInv' /\ GateInv' /\ PageInv'
  <2>1. [Next]_vars
    BY <1>2 DEF PageNext, pageVars, LoadTask, LoadSubtasks, Close
  <2>2. CInv' /\ GateInv'
    BY <1>2, <2>1, CStep, GateStep
  <2>3. CASE UNCHANGED page
    BY <1>2, <2>1, <2>2, <2>3, PageKept
  <2>4. ASSUME NEW r \in Rows, LoadTask(r)
        PROVE  PageInv'
    BY <1>2, <2>4, LoadTaskStep
  <2>5. CASE LoadSubtasks
    BY <1>2, <2>2, <2>5, LoadSubtasksStep
  <2>6. CASE Close
    <3>1. page' = [of |-> 0, status |-> "none", current |-> 0, attempt |-> 0, rows |-> {}]
      BY <2>6 DEF Close, Closed
    <3>2. PageType' /\ LoadedInv' /\ PageAgrees'
      BY <3>1 DEF PageType, LoadedInv, PageAgrees, Phase
    <3>. QED
      BY <2>2, <3>2 DEF PageInv
  <2>. QED
    BY <1>2, <2>2, <2>3, <2>4, <2>5, <2>6 DEF PageNext, pageVars
<1>3. CInv /\ GateInv /\ PageInv => PageAgrees
  BY DEF PageInv
<1>. QED
  BY <1>1, <1>2, <1>3, PTL DEF PageSpec
=============================================================================
