------------------------- MODULE WorkerCycleProofs -------------------------
(***************************************************************************)
(* For every number of processes, rows, retries and faults: a process      *)
(* between two cycles is clean, and the artifact of a decided row is that  *)
(* of the run that was recorded.  Both rest on who holds a row lock.       *)
(***************************************************************************)
EXTENDS WorkerCycle, TLAPS

Status == {"queued", "running", "blocked", "succeeded", "waiting_approval"}
Done == {"succeeded", "waiting_approval"}
Within == Calls \cup {"commit"}
PC == Calls \cup {"ensure", "recover", "lease", "commit", "wait", "stopped"}

-----------------------------------------------------------------------------
(* The inductive invariant.                                                *)

\* A transaction is open exactly while a row is worked on.
Opened ==
  \A w \in Worker :
    /\ pc[w] \in Within => depth[w] = 1 /\ job[w] \in Task
    /\ pc[w] \notin Within => depth[w] = 0 /\ job[w] = 0 /\ draft[w] = NoDraft
    /\ pc[w] \in Calls => draft[w].status = "running"

\* A session that lives holds the lock of the row its process works on, and
\* no other; nobody has decided that row.
Locked ==
  \A w \in Worker :
    /\ \A t \in Task : owner[t] = w => pc[w] \in Within /\ job[w] = t /\ conn[w] = "up"
    /\ pc[w] \in Within /\ conn[w] = "up" => owner[job[w]] = w /\ status[job[w]] = "queued"
    /\ pc[w] \in Within /\ job[w] \notin orphaned => conn[w] = "up"

\* A response that is kept is on disk, unless the row's session has ended.
HasKept(w) == pc[w] \in {"settle", "push"} \/ (pc[w] = "commit" /\ draft[w].status \in Done)

Kept == \A w \in Worker : HasKept(w) => job[w] \in orphaned \/ artifact[job[w]] = w

\* What TypeOK leaves open.
Shapes ==
  /\ expired \subseteq Task
  /\ draft = [w \in Worker |-> draft[w]]

IInv == TypeOK /\ Shapes /\ Opened /\ Locked /\ Kept /\ ArtifactOfRecordedRun

LEMMA InitHolds == Init => IInv
<1> SUFFICES ASSUME Init PROVE IInv
  OBVIOUS
<1> USE WorkerCycleAssumption DEF Init
<1>1. TypeOK /\ Shapes
  BY DEF TypeOK, Shapes, NoDraft, Calls
<1>2. Opened /\ Locked /\ Kept /\ ArtifactOfRecordedRun
  BY DEF Opened, Locked, Kept, HasKept, ArtifactOfRecordedRun, Within, Calls, Done
<1> QED BY <1>1, <1>2 DEF IInv

-----------------------------------------------------------------------------
(* Steps inside a transaction.                                             *)

\* What such a step may leave of the artifact.
ArtifactStep(w) ==
  artifact' = artifact \/ artifact' = [artifact EXCEPT ![job[w]] = w]

LEMMA GoOn ==
  ASSUME IInv, NEW w \in Worker, pc[w] \in Within, NEW next \in Within, NEW d,
         pc' = [pc EXCEPT ![w] = next],
         draft' = [draft EXCEPT ![w] = d],
         d.status \in Status, next \in Calls => d.status = "running",
         attempt' \in [Worker -> 0 .. MaxRetries],
         Inside(w), UNCHANGED <<owner, depth, job>>, ArtifactStep(w),
         next \in {"settle", "push"} \/ (next = "commit" /\ d.status \in Done)
           => job[w] \in orphaned \/ artifact'[job[w]] = w
  PROVE  IInv'
<1> USE DEF IInv, Inside, table
<1>0. orphaned' = orphaned /\ job' = job
  OBVIOUS
<1>1. job[w] \in Task
  BY DEF Opened
<1>2. artifact' \in [Task -> Worker \cup {Nobody}]
  BY <1>1 DEF ArtifactStep, TypeOK
<1>3. \A v \in Worker : v # w => pc'[v] = pc[v] /\ draft'[v] = draft[v]
  BY DEF TypeOK, Shapes
<1>4. pc'[w] = next /\ draft'[w] = d
  BY DEF TypeOK, Shapes
<1>5. TypeOK'
  BY <1>2, <1>3, <1>4 DEF TypeOK, Status, Within, Calls
<1>6. Shapes'
  BY DEF Shapes
<1>7. Opened'
  BY <1>3, <1>4 DEF Opened
<1>8. Locked'
  BY <1>3, <1>4 DEF Locked
<1>9. \A v \in Worker : v # w /\ pc[v] \in Within /\ job[v] \notin orphaned
        => job[v] # job[w] \/ job[w] \in orphaned
  BY <1>1 DEF Locked
<1>10. Kept'
  <2> SUFFICES ASSUME NEW v \in Worker, HasKept(v)',
                      job[v] \notin orphaned
               PROVE  artifact'[job[v]] = v
    BY <1>0 DEF Kept
  <2>1. CASE v = w
    BY <1>4, <2>1 DEF HasKept
  <2>2. CASE v # w
    <3>1. pc[v] \in Within /\ artifact[job[v]] = v /\ job[v] \in Task
      BY <1>3, <2>2 DEF Kept, HasKept, Within, Calls, Opened
    <3>2. job[v] # job[w]
      BY <1>9, <2>2, <3>1
    <3> QED BY <1>1, <3>1, <3>2 DEF ArtifactStep, TypeOK
  <2> QED BY <2>1, <2>2
<1>11. ArtifactOfRecordedRun'
  <2>1. job[w] \notin orphaned => status[job[w]] \notin Done
    BY DEF Locked, Done
  <2> QED BY <1>1, <2>1 DEF ArtifactOfRecordedRun, ArtifactStep, TypeOK, Done
<1> QED BY <1>5, <1>6, <1>7, <1>8, <1>10, <1>11

LEMMA GiveUp ==
  ASSUME IInv, NEW w \in Worker, pc[w] \in Within, Abandon(w),
         UNCHANGED <<row, server, table, conn, stop, orphaned>>,
         faults' \in 0 .. MaxFaults,
         artifact' = artifact \/ (ArtifactStep(w) /\ conn[w] = "lost")
  PROVE  IInv'
<1> USE DEF IInv, table
<1>0. orphaned' = orphaned
  OBVIOUS
<1>1. job[w] \in Task /\ depth[w] = 1
  BY DEF Opened
<1>2. artifact' \in [Task -> Worker \cup {Nobody}]
  BY <1>1 DEF ArtifactStep, TypeOK
<1>3. \A v \in Worker : v # w =>
        pc'[v] = pc[v] /\ draft'[v] = draft[v] /\ job'[v] = job[v] /\ depth'[v] = depth[v]
  BY DEF TypeOK, Shapes, Abandon
<1>4. pc'[w] = "wait" /\ draft'[w] = NoDraft /\ job'[w] = 0 /\ depth'[w] = 0
  BY <1>1 DEF TypeOK, Shapes, Abandon
<1>5. owner' = Released(w, Nobody)
  BY <1>4 DEF Abandon
<1>6. \A t \in Task : owner'[t] = IF owner[t] = w THEN Nobody ELSE owner[t]
  BY <1>5 DEF Released
<1>7. TypeOK'
  <2>1. /\ owner' \in [Task -> Worker \cup {Nobody, Ghost}]
        /\ pc' \in [Worker -> PC] /\ depth' \in [Worker -> 0 .. 1]
        /\ job' \in [Worker -> Task \cup {0}] /\ attempt' \in [Worker -> 0 .. MaxRetries]
    BY <1>1, <1>5, WorkerCycleAssumption DEF TypeOK, Released, Abandon, PC
  <2>2. \A v \in Worker : draft'[v].status \in Status
    <3>1. NoDraft.status \in Status
      BY DEF NoDraft, Status
    <3>2. \A v \in Worker : draft[v].status \in Status
      BY DEF TypeOK, Status
    <3> QED BY <1>3, <1>4, <3>1, <3>2
  <2>3. /\ row' = row /\ server' = server /\ conn' = conn /\ stop' = stop
        /\ status' = status /\ expired' = expired /\ recorded' = recorded
    OBVIOUS
  <2> QED BY <1>0, <1>2, <2>1, <2>2, <2>3 DEF TypeOK, PC, Status
<1>8. Shapes'
  BY DEF Shapes, Abandon
<1>9. Opened'
  BY <1>3, <1>4 DEF Opened, Within, Calls
<1>10. Locked'
  <2> SUFFICES ASSUME NEW v \in Worker
               PROVE  /\ \A t \in Task : owner'[t] = v =>
                           pc'[v] \in Within /\ job'[v] = t /\ conn[v] = "up"
                      /\ pc'[v] \in Within /\ conn[v] = "up" =>
                           owner'[job'[v]] = v /\ status[job'[v]] = "queued"
                      /\ pc'[v] \in Within /\ job'[v] \notin orphaned => conn[v] = "up"
    BY <1>0 DEF Locked
  <2>1. CASE v = w
    BY <1>4, <1>6, <2>1, WorkerCycleAssumption DEF Within, Calls
  <2>2. CASE v # w
    <3>1. \A t \in Task : owner'[t] = v <=> owner[t] = v
      BY <1>6, <2>2, WorkerCycleAssumption
    <3>2. pc[v] \in Within => job[v] \in Task
      BY DEF Opened
    <3> QED BY <1>3, <2>2, <3>1, <3>2 DEF Locked
  <2> QED BY <2>1, <2>2
<1>11. conn[w] = "lost" => job[w] \in orphaned
  BY DEF Locked
<1>12. \A t \in Task \ orphaned : artifact'[t] = artifact[t]
  BY <1>1, <1>11 DEF ArtifactStep, TypeOK
<1>13. Kept'
  <2> SUFFICES ASSUME NEW v \in Worker, HasKept(v)',
                      job'[v] \notin orphaned
               PROVE  artifact'[job'[v]] = v
    BY <1>0 DEF Kept
  <2>1. v # w
    BY <1>4 DEF HasKept
  <2>2. job[v] \in Task /\ HasKept(v)
    BY <1>3, <2>1 DEF Opened, HasKept, Within, Calls
  <2> QED BY <1>3, <1>12, <2>1, <2>2 DEF Kept
<1>14. ArtifactOfRecordedRun'
  BY <1>12 DEF ArtifactOfRecordedRun
<1> QED BY <1>7, <1>8, <1>9, <1>10, <1>13, <1>14

LEMMA WriteHolds ==
  ASSUME IInv, NEW w \in Worker, pc[w] \in Within, NEW s \in Status, NEW events,
         NEW next \in Within, next \in Calls => s = "running",
         Write(w, s, events, next), Inside(w), ArtifactStep(w),
         next \in {"settle", "push"} \/ (next = "commit" /\ s \in Done)
           => job[w] \in orphaned \/ artifact'[job[w]] = w
  PROVE  IInv'
<1>1. CASE conn[w] = "up" /\ draft' = [draft EXCEPT ![w] =
                               [status |-> s, events |-> draft[w].events \o events]]
  <2>1. CASE pc' = [pc EXCEPT ![w] = next] /\ UNCHANGED <<owner, depth, job, attempt>>
    <3> DEFINE d == [status |-> s, events |-> draft[w].events \o events]
    <3>1. attempt' \in [Worker -> 0 .. MaxRetries]
      BY <2>1 DEF IInv, TypeOK
    <3>2. d.status = s /\ draft' = [draft EXCEPT ![w] = d]
      BY <1>1
    <3> HIDE DEF d
    <3> QED BY <2>1, <3>1, <3>2, GoOn
  <2>2. CASE conn[w] = "lost" /\ Abandon(w)
    BY <1>1, <2>2
  <2> QED BY <1>1, <2>1, <2>2 DEF Write
<1>2. CASE conn[w] = "lost" /\ Abandon(w)
  <2>1. faults' \in 0 .. MaxFaults
    BY DEF Inside, IInv, TypeOK
  <2> QED BY <1>2, <2>1, GiveUp DEF Inside
<1> QED BY <1>1, <1>2 DEF Write

\* A call that leaves the transaction's records as they are.
LEMMA MoveOn ==
  ASSUME IInv, NEW w \in Worker, pc[w] \in Calls, NEW next \in Within,
         pc' = [pc EXCEPT ![w] = next], attempt' \in [Worker -> 0 .. MaxRetries],
         UNCHANGED <<owner, depth, job, draft>>, Inside(w), ArtifactStep(w),
         next \in {"settle", "push"} => job[w] \in orphaned \/ artifact'[job[w]] = w
  PROVE  IInv'
<1> DEFINE d == draft[w]
<1>1. d.status = "running"
  BY DEF IInv, Opened
<1>2. draft' = [draft EXCEPT ![w] = d]
  BY DEF IInv, Shapes
<1>3. pc[w] \in Within /\ "running" \in Status /\ "running" \notin Done
  BY DEF Within, Status, Done
<1>4. next \in {"settle", "push"} \/ (next = "commit" /\ d.status \in Done)
        => job[w] \in orphaned \/ artifact'[job[w]] = w
  BY <1>1, <1>3
<1>5. UNCHANGED <<owner, depth, job>> /\ d.status \in Status
  BY <1>1, <1>3
<1> HIDE DEF d
<1> QED BY <1>1, <1>2, <1>3, <1>4, <1>5, GoOn

LEMMA CallHolds ==
  ASSUME IInv, NEW w \in Worker,
         \/ PrepareRepository(w) \/ ValidateCompose(w) \/ ReadInstruction(w) \/ Generate(w)
         \/ KeepResponse(w) \/ Settle(w) \/ CommitAndPush(w)
  PROVE  IInv'
<1> DEFINE kept == job[w] \in orphaned \/ artifact'[job[w]] = w
<1>1. /\ pc[w] \in Calls => pc[w] \in Within
      /\ {"prepare", "validate", "instruct", "generate", "keep", "settle", "push"} \subseteq Calls
      /\ Calls \subseteq Within /\ "commit" \in Within /\ "commit" \notin Calls
      /\ {"running", "blocked", "succeeded", "waiting_approval"} \subseteq Status
      /\ "blocked" \notin Done /\ "running" \notin Done
  BY DEF Within, Calls, Status, Done
<1>2. artifact' = artifact => ArtifactStep(w)
  BY DEF ArtifactStep
<1>3. attempt \in [Worker -> 0 .. MaxRetries]
  BY DEF IInv, TypeOK
<1>4. ASSUME NEW events, Block(w, events), pc[w] \in Calls, Inside(w), ArtifactStep(w)
      PROVE  IInv'
  BY <1>1, <1>4, WriteHolds DEF Block
<1>5. ASSUME NEW events, NEW next \in Calls, Say(w, events, next), pc[w] \in Calls,
             Inside(w), ArtifactStep(w), next \in {"settle", "push"} => kept
      PROVE  IInv'
  BY <1>1, <1>5, WriteHolds DEF Say
<1>6. ASSUME NEW s \in {"succeeded", "waiting_approval"}, NEW events, Succeed(w, s, events),
             pc[w] \in {"settle", "push"}, Inside(w), artifact' = artifact
      PROVE  IInv'
  <2>1. kept
    BY <1>6 DEF IInv, Kept, HasKept
  <2> QED BY <1>1, <1>2, <1>6, <2>1, WriteHolds DEF Succeed
<1> HIDE DEF kept
<1>7. CASE PrepareRepository(w)
  BY <1>1, <1>2, <1>4, <1>5, <1>7 DEF PrepareRepository
<1>8. CASE ValidateCompose(w)
  BY <1>1, <1>2, <1>4, <1>5, <1>8 DEF ValidateCompose
<1>9. CASE ReadInstruction(w)
  <2>1. CASE pc' = [pc EXCEPT ![w] = "commit"] /\ UNCHANGED <<owner, depth, job, draft, attempt>>
    BY <1>1, <1>2, <1>3, <1>9, <2>1, MoveOn DEF ReadInstruction
  <2> QED BY <1>1, <1>2, <1>4, <1>5, <1>9, <2>1 DEF ReadInstruction
<1>10. CASE Generate(w)
  <2>1. CASE pc' = [pc EXCEPT ![w] = "keep"] /\ UNCHANGED <<owner, depth, job, draft, attempt>>
    BY <1>1, <1>2, <1>3, <1>10, <2>1, MoveOn DEF Generate
  <2>2. CASE attempt[w] < MaxRetries /\ attempt' = [attempt EXCEPT ![w] = @ + 1]
               /\ UNCHANGED <<owner, depth, job, draft, pc>>
    <3>1. attempt' \in [Worker -> 0 .. MaxRetries]
      BY <1>3, <2>2, WorkerCycleAssumption
    <3>2. pc' = [pc EXCEPT ![w] = "generate"]
      BY <1>10, <2>2 DEF Generate, IInv, TypeOK
    <3> QED BY <1>1, <1>2, <1>10, <2>2, <3>1, <3>2, MoveOn DEF Generate
  <2> QED BY <1>1, <1>2, <1>4, <1>10, <2>1, <2>2 DEF Generate
<1>11. CASE KeepResponse(w)
  <2>1. CASE artifact' = [artifact EXCEPT ![job[w]] = w]
    <3>1. job[w] \in Task
      BY <1>1, <1>11 DEF KeepResponse, IInv, Opened
    <3>2. ArtifactStep(w) /\ kept
      BY <2>1, <3>1 DEF ArtifactStep, kept, IInv, TypeOK
    <3>3. CASE Say(w, <<>>, "settle")
      BY <1>1, <1>5, <1>11, <3>2, <3>3 DEF KeepResponse
    <3>4. CASE pc' = [pc EXCEPT ![w] = "settle"] /\ UNCHANGED <<owner, depth, job, draft, attempt>>
      BY <1>1, <1>3, <1>11, <3>2, <3>4, MoveOn DEF KeepResponse, kept
    <3>5. CASE Block(w, <<"llm_generation_failed">>)
      BY <1>1, <1>4, <1>11, <3>2, <3>5 DEF KeepResponse
    <3> QED BY <1>11, <3>3, <3>4, <3>5 DEF KeepResponse
  <2>2. CASE Block(w, <<"llm_generation_failed">>) /\ artifact' = artifact
    BY <1>1, <1>2, <1>4, <1>11, <2>2 DEF KeepResponse
  <2> QED BY <1>11, <2>1, <2>2 DEF KeepResponse
<1>12. CASE Settle(w)
  <2>1. CASE pc' = [pc EXCEPT ![w] = "push"] /\ UNCHANGED <<owner, depth, job, draft, attempt>>
    <3>1. job[w] \in orphaned \/ artifact'[job[w]] = w
      BY <1>12 DEF Settle, IInv, Kept, HasKept
    <3> QED BY <1>1, <1>2, <1>3, <1>12, <2>1, <3>1, MoveOn DEF Settle
  <2> QED BY <1>1, <1>2, <1>4, <1>6, <1>12, <2>1 DEF Settle
<1>13. CASE CommitAndPush(w)
  <2>1. TargetStatus(job[w]) \in {"succeeded", "waiting_approval"}
    BY DEF TargetStatus
  <2> QED BY <1>1, <1>2, <1>4, <1>6, <1>13, <2>1 DEF CommitAndPush
<1> QED BY <1>7, <1>8, <1>9, <1>10, <1>11, <1>12, <1>13

-----------------------------------------------------------------------------
(* The ends of a transaction and of a process.                             *)

(***************************************************************************)
(* A process leaves its transaction or is gone.  Its locks go to h, and    *)
(* what it may have committed is the row it worked on.                     *)
(***************************************************************************)
Leaves(w, h) ==
  /\ pc' \in [Worker -> PC] /\ \A v \in Worker : v # w => pc'[v] = pc[v]
  /\ pc'[w] \notin Within
  /\ depth' = [depth EXCEPT ![w] = 0]
  /\ job' = [job EXCEPT ![w] = 0]
  /\ draft' = [draft EXCEPT ![w] = NoDraft]
  /\ attempt' = [attempt EXCEPT ![w] = 0]
  /\ owner' = Released(w, h)
  /\ conn' \in [Worker -> {"up", "lost"}] /\ \A v \in Worker : v # w => conn'[v] = conn[v]
  /\ UNCHANGED <<row, server, expired, stop, artifact, orphaned>>

Same == UNCHANGED <<status, told, recorded>>

LEMMA LeavesHolds ==
  ASSUME IInv, NEW w \in Worker, NEW h \in {Nobody, Ghost}, Leaves(w, h),
         faults' \in 0 .. MaxFaults,
         Same \/ (pc[w] = "commit" /\ conn[w] = "up" /\ Committed(w))
  PROVE  IInv'
<1> USE DEF IInv, Leaves
<1>1. pc[w] = "commit" => job[w] \in Task
  BY DEF Opened, Within
<1>2. \A v \in Worker : v # w =>
        pc'[v] = pc[v] /\ draft'[v] = draft[v] /\ job'[v] = job[v] /\ depth'[v] = depth[v]
  BY DEF TypeOK, Shapes
<1>3. pc'[w] \notin Within /\ draft'[w] = NoDraft /\ job'[w] = 0 /\ depth'[w] = 0
  BY DEF TypeOK, Shapes
<1>4. \A t \in Task : owner'[t] = IF owner[t] = w THEN h ELSE owner[t]
  BY DEF Released
<1>5. /\ status' \in [Task -> Status] /\ recorded' \in [Task -> Worker \cup {Nobody}]
      /\ \A t \in Task : t # job[w] => status'[t] = status[t] /\ recorded'[t] = recorded[t]
  BY <1>1 DEF Same, Committed, TypeOK, Status
<1>6. \A t \in Task : (owner[t] # w => status'[t] = status[t])
  BY <1>1, <1>5 DEF Same, Locked, Within
<1>7. TypeOK'
  <2>1. /\ owner' \in [Task -> Worker \cup {Nobody, Ghost}] /\ depth' \in [Worker -> 0 .. 1]
        /\ job' \in [Worker -> Task \cup {0}] /\ attempt' \in [Worker -> 0 .. MaxRetries]
    BY WorkerCycleAssumption DEF TypeOK, Released
  <2>2. \A v \in Worker : draft'[v].status \in Status
    <3>1. NoDraft.status \in Status
      BY DEF NoDraft, Status
    <3>2. \A v \in Worker : draft[v].status \in Status
      BY DEF TypeOK, Status
    <3> QED BY <1>2, <1>3, <3>1, <3>2
  <2>3. \A t \in expired : status[t] = "running" /\ t \in Task
    BY DEF TypeOK, Shapes
  <2>4. \A t \in Task : status[t] = "running" => status'[t] = status[t]
    BY <1>6 DEF Locked
  <2>5. \A t \in expired' : status'[t] = "running"
    BY <2>3, <2>4
  <2> QED BY <1>5, <2>1, <2>2, <2>5 DEF TypeOK, PC, Status
<1>8. Shapes'
  BY DEF Shapes
<1>9. Opened'
  BY <1>2, <1>3 DEF Opened, Within
<1>10. Locked'
  <2> SUFFICES ASSUME NEW v \in Worker
               PROVE  /\ \A t \in Task : owner'[t] = v =>
                           pc'[v] \in Within /\ job'[v] = t /\ conn'[v] = "up"
                      /\ pc'[v] \in Within /\ conn'[v] = "up" =>
                           owner'[job'[v]] = v /\ status'[job'[v]] = "queued"
                      /\ pc'[v] \in Within /\ job'[v] \notin orphaned => conn'[v] = "up"
    BY DEF Locked
  <2>1. CASE v = w
    BY <1>3, <1>4, <2>1, WorkerCycleAssumption
  <2>2. CASE v # w
    <3>0. v # h
      BY WorkerCycleAssumption
    <3>1. \A t \in Task : owner'[t] = v <=> owner[t] = v
      BY <1>4, <2>2, <3>0
    <3>2. pc[v] \in Within => job[v] \in Task
      BY DEF Opened
    <3>3. conn'[v] = conn[v]
      BY <2>2
    <3> QED BY <1>2, <1>6, <2>2, <3>1, <3>2, <3>3 DEF Locked
  <2> QED BY <2>1, <2>2
<1>11. Kept'
  <2> SUFFICES ASSUME NEW v \in Worker, HasKept(v)', job'[v] \notin orphaned
               PROVE  artifact[job'[v]] = v
    BY DEF Kept
  <2>1. v # w
    BY <1>3 DEF HasKept, Within, Calls
  <2>2. HasKept(v)
    BY <1>2, <2>1 DEF HasKept
  <2> QED BY <1>2, <2>1, <2>2 DEF Kept
<1>12. ArtifactOfRecordedRun'
  <2> SUFFICES ASSUME NEW t \in Task \ orphaned, status'[t] \in Done
               PROVE  artifact[t] = recorded'[t]
    BY DEF ArtifactOfRecordedRun, Done
  <2>1. CASE Same
    BY <2>1 DEF Same, ArtifactOfRecordedRun, Done
  <2>2. CASE t # job[w]
    BY <1>5, <2>2 DEF ArtifactOfRecordedRun, Done
  <2>3. CASE t = job[w] /\ pc[w] = "commit" /\ Committed(w)
    <3>1. draft[w].status \in Done /\ recorded'[t] = w
      BY <2>3 DEF Committed, TypeOK, Done
    <3> QED BY <2>3, <3>1 DEF Kept, HasKept
  <2> QED BY <2>1, <2>2, <2>3
<1> QED BY <1>7, <1>8, <1>9, <1>10, <1>11, <1>12

LEMMA EndHolds ==
  ASSUME IInv, NEW w \in Worker, Commit(w) \/ CommitUnanswered(w) \/ Crash(w) PROVE IInv'
<1> USE DEF table, Same
<1>1. /\ PC = Within \cup {"ensure", "recover", "lease", "wait", "stopped"}
      /\ {"wait", "ensure", "stopped"} \cap Within = {}
  BY DEF PC, Within, Calls
<1>2. pc \in [Worker -> PC] /\ conn \in [Worker -> {"up", "lost"}] /\ faults \in 0 .. MaxFaults
  BY DEF IInv, TypeOK, PC
<1>3. Fault => faults' \in 0 .. MaxFaults
  BY <1>2, WorkerCycleAssumption DEF Fault
<1>4. ASSUME NEW q \in {"wait", "ensure", "stopped"}, pc' = [pc EXCEPT ![w] = q]
      PROVE  /\ pc' \in [Worker -> PC] /\ \A v \in Worker : v # w => pc'[v] = pc[v]
             /\ pc'[w] \notin Within
  BY <1>1, <1>2, <1>4
<1>5. pc[w] = "commit" => depth[w] = 1 /\ depth \in [Worker -> 0 .. 1]
  BY DEF IInv, Opened, Within, TypeOK
<1>6. pc[w] = "commit" /\ LeftBlock(w) => depth' = [depth EXCEPT ![w] = 0]
  BY <1>5 DEF LeftBlock
<1>7. ASSUME LeftBlock(w), pc[w] = "commit", owner' = Released(w, Nobody), UNCHANGED expired,
             conn' = conn \/ conn' = [conn EXCEPT ![w] = "lost"]
      PROVE  Leaves(w, Nobody)
  BY <1>2, <1>4, <1>6, <1>7 DEF Leaves, LeftBlock
<1>8. CASE Commit(w)
  <2>1. CASE conn[w] = "up"
    BY <1>2, <1>5, <1>7, <1>8, <2>1, LeavesHolds DEF Commit, Committed
  <2>2. CASE conn[w] = "lost"
    <3>1. \A t \in Task : owner[t] # w
      BY <2>2 DEF IInv, Locked
    <3>2. owner = Released(w, Nobody)
      BY <3>1 DEF Released, IInv, TypeOK
    <3> QED BY <1>2, <1>7, <1>8, <2>2, <3>2, LeavesHolds DEF Commit
  <2> QED BY <1>2, <2>1, <2>2
<1>9. CASE CommitUnanswered(w)
  <2>1. Leaves(w, Nobody)
    BY <1>7, <1>9 DEF CommitUnanswered, Committed
  <2> QED BY <1>3, <1>9, <2>1, LeavesHolds DEF CommitUnanswered
<1>10. CASE Crash(w)
  <2>1. PICK h \in {Nobody, Ghost} : owner' = Released(w, h)
    BY <1>10 DEF Crash
  <2>2. Leaves(w, h)
    BY <1>2, <1>4, <1>10, <2>1 DEF Crash, Leaves
  <2> QED BY <1>3, <1>10, <2>2, LeavesHolds DEF Crash
<1> QED BY <1>8, <1>9, <1>10

-----------------------------------------------------------------------------
(* Everything else.                                                        *)

\* Steps that open or end no transaction, and touch no row worked on.
LEMMA BetweenHolds ==
  ASSUME IInv, NEW w \in Worker, EnsureConnection(w) \/ RecoverExpired(w) \/ Wait(w)
  PROVE  IInv'
<1> USE DEF IInv, table, past
<1>1. pc[w] \in {"ensure", "recover", "wait"} /\ pc[w] \notin Within
  BY DEF EnsureConnection, RecoverExpired, Wait, Within, Calls
<1>2. depth[w] = 0 /\ job[w] = 0 /\ draft[w] = NoDraft /\ \A t \in Task : owner[t] # w
  BY <1>1 DEF Opened, Locked
<1>3. owner' = owner
  <2>1. owner = Released(w, Nobody)
    BY <1>2 DEF Released, TypeOK
  <2> QED BY <2>1 DEF EnsureConnection, RecoverExpired, Wait
<1>4. PICK q \in {"ensure", "recover", "lease", "wait", "stopped"} : pc' = [pc EXCEPT ![w] = q]
  BY DEF EnsureConnection, RecoverExpired, Wait
<1>5. pc' \in [Worker -> PC] /\ pc'[w] \notin Within /\ \A v \in Worker : v # w => pc'[v] = pc[v]
  BY <1>4 DEF TypeOK, PC, Within, Calls
<1>6. depth' = depth
  BY <1>2 DEF EnsureConnection, RecoverExpired, Wait, TypeOK
<1>7. conn' \in [Worker -> {"up", "lost"}] /\ \A v \in Worker : v # w => conn'[v] = conn[v]
  BY DEF EnsureConnection, RecoverExpired, Wait, TypeOK
<1>8. /\ status' \in [Task -> Status] /\ expired' \subseteq Task
      /\ \A t \in expired' : status'[t] = "running"
      /\ \A t \in Task : status'[t] = status[t] \/ status'[t] = "queued"
  BY DEF EnsureConnection, RecoverExpired, Wait, TypeOK, Shapes, Status
<1>9. UNCHANGED <<row, server, job, draft, attempt, stop, recorded, faults, artifact, orphaned>>
  BY DEF EnsureConnection, RecoverExpired, Wait
<1>10. TypeOK'
  BY <1>3, <1>5, <1>6, <1>7, <1>8, <1>9 DEF TypeOK, PC, Status
<1>11. Shapes' /\ Opened'
  BY <1>1, <1>2, <1>5, <1>6, <1>8, <1>9 DEF Shapes, Opened, Within
<1>12. Locked'
  <2>1. \A v \in Worker : pc[v] \in Within => job[v] \in Task
    BY DEF Opened
  <2> QED BY <1>1, <1>2, <1>3, <1>5, <1>7, <1>8, <1>9, <2>1 DEF Locked
<1>13. Kept'
  <2>1. \A v \in Worker : HasKept(v)' => HasKept(v)
    BY <1>5, <1>9 DEF HasKept, Within, Calls
  <2> QED BY <1>9, <2>1 DEF Kept
<1>14. ArtifactOfRecordedRun'
  BY <1>8, <1>9 DEF ArtifactOfRecordedRun
<1> QED BY <1>10, <1>11, <1>12, <1>13, <1>14

LEMMA LeaseHolds ==
  ASSUME IInv, NEW w \in Worker, LeaseNext(w) PROVE IInv'
<1> USE DEF IInv, table
<1>1. pc[w] = "lease" /\ depth[w] = 0 /\ job[w] = 0 /\ draft[w] = NoDraft
      /\ \A t \in Task : owner[t] # w
  BY DEF LeaseNext, Opened, Locked, Within, Calls
<1>2. /\ UNCHANGED <<row, server, status, told, expired, recorded, conn, attempt, stop,
                     faults, artifact, orphaned>>
      /\ {"prepare", "instruct", "commit"} \subseteq Within /\ "lease" \notin Within
      /\ {"wait", "prepare", "instruct", "commit"} \subseteq PC /\ "wait" \notin Within
  BY DEF LeaseNext, PC, Within, Calls
<1>3. CASE pc' = [pc EXCEPT ![w] = "wait"] /\ UNCHANGED <<owner, depth, job, draft>>
  <2>1. pc' \in [Worker -> PC] /\ pc'[w] = "wait" /\ \A v \in Worker : v # w => pc'[v] = pc[v]
    BY <1>2, <1>3 DEF TypeOK, PC
  <2>2. TypeOK' /\ Shapes' /\ ArtifactOfRecordedRun'
    BY <1>2, <1>3, <2>1 DEF TypeOK, PC, Shapes, ArtifactOfRecordedRun
  <2>3. Opened' /\ Locked'
    BY <1>1, <1>2, <1>3, <2>1 DEF Opened, Locked, Within
  <2>4. \A v \in Worker : HasKept(v)' => HasKept(v)
    BY <1>3, <2>1 DEF HasKept
  <2>5. Kept'
    BY <1>2, <1>3, <2>4 DEF Kept
  <2> QED BY <2>2, <2>3, <2>5
<1>4. ASSUME NEW t \in NextQueued(w), conn[w] # "lost",
             owner' = [owner EXCEPT ![t] = w], depth' = [depth EXCEPT ![w] = @ + 1],
             job' = [job EXCEPT ![w] = t],
             NEW q \in {"prepare", "instruct", "commit"}, pc' = [pc EXCEPT ![w] = q],
             NEW d, draft' = [draft EXCEPT ![w] = d],
             (q = "commit" /\ d.status = "blocked") \/ d.status = "running"
      PROVE  IInv'
  <2>1. t \in Task /\ status[t] = "queued" /\ owner[t] = Nobody
    BY DEF NextQueued, Oldest
  <2>2. /\ pc'[w] = q /\ depth'[w] = 1 /\ job'[w] = t /\ draft'[w] = d
        /\ \A v \in Worker : v # w =>
             pc'[v] = pc[v] /\ depth'[v] = depth[v] /\ job'[v] = job[v] /\ draft'[v] = draft[v]
    BY <1>1, <1>4 DEF TypeOK, Shapes
  <2>3. \A u \in Task : owner'[u] = IF u = t THEN w ELSE owner[u]
    BY <1>4 DEF TypeOK
  <2>4. TypeOK'
    <3>1. /\ pc' \in [Worker -> PC] /\ depth' \in [Worker -> 0 .. 1]
          /\ job' \in [Worker -> Task \cup {0}]
          /\ owner' \in [Task -> Worker \cup {Nobody, Ghost}]
      BY <1>1, <1>2, <1>4, <2>1 DEF TypeOK, PC
    <3>2. \A v \in Worker : draft'[v].status \in Status
      BY <1>4, <2>2 DEF TypeOK, Status
    <3> QED BY <1>2, <3>1, <3>2 DEF TypeOK, PC, Status
  <2>5. Shapes'
    BY <1>2, <1>4 DEF Shapes
  <2>6. Opened'
    BY <1>2, <1>4, <2>1, <2>2 DEF Opened, Calls
  <2>7. conn[w] = "up"
    BY <1>4 DEF TypeOK
  <2>8. Locked'
    <3> SUFFICES ASSUME NEW v \in Worker
                 PROVE  /\ \A u \in Task : owner'[u] = v =>
                             pc'[v] \in Within /\ job'[v] = u /\ conn[v] = "up"
                        /\ pc'[v] \in Within /\ conn[v] = "up" =>
                             owner'[job'[v]] = v /\ status[job'[v]] = "queued"
                        /\ pc'[v] \in Within /\ job'[v] \notin orphaned => conn[v] = "up"
      BY <1>2 DEF Locked
    <3>1. CASE v = w
      BY <1>1, <1>2, <1>4, <2>1, <2>2, <2>3, <2>7, <3>1
    <3>2. CASE v # w
      <4>1. pc[v] \in Within /\ conn[v] = "up" => job[v] \in Task /\ job[v] # t
        BY <2>1, WorkerCycleAssumption DEF Locked, Opened
      <4> QED BY <2>1, <2>2, <2>3, <3>2, <4>1 DEF Locked
    <3> QED BY <3>1, <3>2
  <2>9. \A v \in Worker : HasKept(v)' => v # w /\ HasKept(v)
    BY <1>4, <2>2 DEF HasKept, Done
  <2>10. Kept' /\ ArtifactOfRecordedRun'
    BY <1>2, <2>2, <2>9 DEF Kept, ArtifactOfRecordedRun
  <2> QED BY <2>4, <2>5, <2>6, <2>8, <2>10
<1>5. \A t \in Task : FirstCall(t) \in {"prepare", "instruct", "commit"}
  BY DEF FirstCall
<1>6. NextQueued(w) \subseteq Task
  BY DEF NextQueued, Oldest
<1> QED BY <1>3, <1>4, <1>5, <1>6 DEF LeaseNext

\* Sessions end: those of the processes in W, whose locks go to h.
LEMMA SessionsEnd ==
  ASSUME IInv, NEW W \in SUBSET Worker, NEW h \in {Nobody, Ghost},
         conn' = [v \in Worker |-> IF v \in W THEN "lost" ELSE conn[v]],
         \A v \in W : pc[v] \in Within => job[v] \in orphaned',
         orphaned \subseteq orphaned', orphaned' \subseteq Task,
         owner' \in [Task -> Worker \cup {Nobody, Ghost}],
         \A t \in Task : IF owner[t] \in W THEN owner'[t] \in {Nobody, h}
                         ELSE owner'[t] = owner[t] \/ (W = Worker /\ owner'[t] = Nobody),
         UNCHANGED <<row, table, depth, pc, job, draft, attempt, stop, artifact>>,
         server' \in BOOLEAN, faults' \in 0 .. MaxFaults
  PROVE  IInv'
<1> USE DEF IInv, table
<1>1. TypeOK' /\ Shapes' /\ Opened'
  BY DEF TypeOK, Shapes, Opened
<1>2. Locked'
  <2> SUFFICES ASSUME NEW v \in Worker
               PROVE  /\ \A t \in Task : owner'[t] = v =>
                           pc[v] \in Within /\ job[v] = t /\ conn'[v] = "up"
                      /\ pc[v] \in Within /\ conn'[v] = "up" =>
                           owner'[job[v]] = v /\ status[job[v]] = "queued"
                      /\ pc[v] \in Within /\ job[v] \notin orphaned' => conn'[v] = "up"
    BY DEF Locked
  <2>1. v # Nobody /\ v # h
    BY WorkerCycleAssumption
  <2>2. CASE v \in W
    <3>1. \A t \in Task : owner'[t] # v
      BY <2>1, <2>2
    <3> QED BY <2>2, <3>1
  <2>3. CASE v \notin W
    <3>1. \A t \in Task : owner'[t] = v <=> owner[t] = v
      BY <2>1, <2>3
    <3>2. conn'[v] = conn[v] /\ (pc[v] \in Within => job[v] \in Task)
      BY <2>3 DEF Opened
    <3> QED BY <3>1, <3>2 DEF Locked
  <2> QED BY <2>2, <2>3
<1>3. \A v \in Worker : HasKept(v)' => HasKept(v)
  BY DEF HasKept
<1>4. Kept' /\ ArtifactOfRecordedRun'
  BY <1>3 DEF Kept, ArtifactOfRecordedRun
<1> QED BY <1>1, <1>2, <1>4

LEMMA FaultHolds ==
  ASSUME IInv,
         \/ \E w \in Worker : LoseConnection(w) \/ Raise(w)
         \/ ServerStops \/ ServerStarts \/ DropGhosts
  PROVE  IInv'
<1> USE DEF table, local, past
<1>1. /\ faults \in 0 .. MaxFaults /\ conn \in [Worker -> {"up", "lost"}]
      /\ owner \in [Task -> Worker \cup {Nobody, Ghost}] /\ server \in BOOLEAN
      /\ orphaned \subseteq Task /\ job \in [Worker -> Task \cup {0}]
  BY DEF IInv, TypeOK
<1>2. \A w \in Worker : pc[w] \in Within => job[w] \in Task /\ job[w] # 0
  BY WorkerCycleAssumption DEF IInv, Opened
<1>3. Fault => faults' \in 0 .. MaxFaults
  BY <1>1, WorkerCycleAssumption DEF Fault
<1>4. ASSUME NEW w \in Worker, LoseConnection(w) PROVE IInv'
  <2>1. PICK h \in {Nobody, Ghost} : owner' = Released(w, h)
    BY <1>4 DEF LoseConnection
  <2>2. conn' = [v \in Worker |-> IF v \in {w} THEN "lost" ELSE conn[v]]
    BY <1>1, <1>4 DEF LoseConnection
  <2>3. /\ pc[w] \in Within => job[w] \in orphaned'
        /\ orphaned \subseteq orphaned' /\ orphaned' \subseteq Task
    BY <1>1, <1>2, <1>4 DEF LoseConnection
  <2>4. /\ owner' \in [Task -> Worker \cup {Nobody, Ghost}]
        /\ \A t \in Task : IF owner[t] \in {w} THEN owner'[t] \in {Nobody, h}
                           ELSE owner'[t] = owner[t]
    BY <1>1, <2>1 DEF Released
  <2>5. UNCHANGED <<row, table, depth, pc, job, draft, attempt, stop, artifact>>
        /\ server' \in BOOLEAN /\ faults' \in 0 .. MaxFaults
    BY <1>1, <1>3, <1>4 DEF LoseConnection
  <2> QED BY <2>2, <2>3, <2>4, <2>5, SessionsEnd
<1>5. ASSUME NEW w \in Worker, Raise(w) PROVE IInv'
  <2>1. pc[w] \in Within
    BY <1>5 DEF Raise, InTransaction, IInv, Opened
  <2> QED BY <1>3, <1>5, <2>1, GiveUp DEF Raise
<1>6. CASE ServerStops
  <2>1. conn' = [v \in Worker |-> IF v \in Worker THEN "lost" ELSE conn[v]]
    BY <1>6 DEF ServerStops
  <2>2. /\ \A v \in Worker : pc[v] \in Within => job[v] \in orphaned'
        /\ orphaned \subseteq orphaned' /\ orphaned' \subseteq Task
    BY <1>1, <1>2, <1>6 DEF ServerStops, InHand
  <2>3. /\ owner' \in [Task -> Worker \cup {Nobody, Ghost}]
        /\ \A t \in Task : owner'[t] = Nobody
    BY <1>6 DEF ServerStops
  <2>4. UNCHANGED <<row, table, depth, pc, job, draft, attempt, stop, artifact>>
        /\ server' \in BOOLEAN /\ faults' \in 0 .. MaxFaults
    BY <1>3, <1>6 DEF ServerStops
  <2> QED BY <2>1, <2>2, <2>3, <2>4, SessionsEnd
<1>7. CASE ServerStarts
  <2>1. conn' = [v \in Worker |-> IF v \in {} THEN "lost" ELSE conn[v]]
    BY <1>1, <1>7 DEF ServerStarts
  <2>2. owner' = owner /\ orphaned' = orphaned /\ server' \in BOOLEAN /\ faults' = faults
        /\ UNCHANGED <<row, table, depth, pc, job, draft, attempt, stop, artifact>>
    BY <1>7 DEF ServerStarts
  <2>3. owner' \in [Task -> Worker \cup {Nobody, Ghost}] /\ faults' \in 0 .. MaxFaults
        /\ orphaned \subseteq orphaned' /\ orphaned' \subseteq Task
    BY <1>1, <2>2
  <2>4. \A t \in Task : IF owner[t] \in {} THEN owner'[t] \in {Nobody, Nobody}
                        ELSE owner'[t] = owner[t] \/ ({} = Worker /\ owner'[t] = Nobody)
    BY <2>2
  <2>5. \A v \in {} : pc[v] \in Within => job[v] \in orphaned'
    OBVIOUS
  <2>6. {} \in SUBSET Worker /\ Nobody \in {Nobody, Ghost}
    OBVIOUS
  <2> HIDE <1>7
  <2> QED BY <2>1, <2>2, <2>3, <2>4, <2>5, <2>6, SessionsEnd
<1>8. CASE DropGhosts
  <2>1. Opened' /\ Shapes' /\ Kept' /\ ArtifactOfRecordedRun'
    BY <1>8 DEF DropGhosts, IInv, Opened, Shapes, Kept, HasKept, ArtifactOfRecordedRun
  <2>2. owner' \in [Task -> Worker \cup {Nobody, Ghost}]
    BY <1>1, <1>8 DEF DropGhosts
  <2>3. TypeOK'
    BY <1>8, <2>2 DEF DropGhosts, IInv, TypeOK
  <2>4. \A v \in Worker, t \in Task : owner'[t] = v <=> owner[t] = v
    BY <1>8, WorkerCycleAssumption DEF DropGhosts
  <2>5. Locked'
    BY <1>2, <1>8, <2>4 DEF DropGhosts, IInv, Locked
  <2> QED BY <2>1, <2>3, <2>5 DEF IInv
<1> QED BY <1>4, <1>5, <1>6, <1>7, <1>8

LEMMA RestHolds ==
  ASSUME IInv, (\E t \in Task : ExpireLease(t)) \/ (\E w \in Worker : Signal(w)) \/ UNCHANGED vars
  PROVE  IInv'
<1> USE DEF table, local, past
<1>1. CASE \E t \in Task : ExpireLease(t)
  <2>1. TypeOK' /\ Shapes'
    BY <1>1, WorkerCycleAssumption DEF ExpireLease, Fault, IInv, TypeOK, Shapes
  <2> QED BY <1>1, <2>1
       DEF ExpireLease, IInv, Opened, Locked, Kept, HasKept, ArtifactOfRecordedRun
<1>2. CASE \E w \in Worker : Signal(w)
  BY <1>2 DEF Signal, IInv, TypeOK, Shapes, Opened, Locked, Kept, HasKept, ArtifactOfRecordedRun
<1>3. CASE UNCHANGED vars
  BY <1>3 DEF vars, IInv, TypeOK, Shapes, Opened, Locked, Kept, HasKept, ArtifactOfRecordedRun
<1> QED BY <1>1, <1>2, <1>3

LEMMA NextHolds == IInv /\ [Next]_vars => IInv'
<1> SUFFICES ASSUME IInv, [Next]_vars PROVE IInv'
  OBVIOUS
<1> QED BY CallHolds, EndHolds, BetweenHolds, LeaseHolds, FaultHolds, RestHolds DEF Next, Step

LEMMA IInvHolds == Spec => []IInv
  BY InitHolds, NextHolds, PTL DEF Spec

-----------------------------------------------------------------------------
(* The theorems.                                                           *)

(***************************************************************************)
(* Types, and the transaction depth is never more than one: no exception,  *)
(* crash or lost connection makes two transactions of a process pile up.   *)
(***************************************************************************)
THEOREM WorkerTypeCorrect == Spec => []TypeOK
<1>1. IInv => TypeOK
  BY DEF IInv
<1> QED BY <1>1, IInvHolds, PTL

(***************************************************************************)
(* Between two cycles a process has no transaction open and no row locked, *)
(* whatever broke and wherever.  MariaDBAccessor.transaction, run_worker.  *)
(***************************************************************************)
THEOREM ProcessesAreCleanBetweenCycles == Spec => []CleanBetweenCycles
<1>1. IInv => CleanBetweenCycles
  BY DEF IInv, Opened, Locked, CleanBetweenCycles, Within
<1> QED BY <1>1, IInvHolds, PTL

(***************************************************************************)
(* Unless its session ended under a process, a decided row's artifact is   *)
(* of the run that was recorded.  FOR UPDATE SKIP LOCKED over the whole of *)
(* process_next_queued_task.                                               *)
(***************************************************************************)
THEOREM ArtifactsMatchTheRecord == Spec => []ArtifactOfRecordedRun
<1>1. IInv => ArtifactOfRecordedRun
  BY DEF IInv
<1> QED BY <1>1, IInvHolds, PTL
=============================================================================
