---------------------- MODULE RepositoryWorkspaceProofs ----------------------
(***************************************************************************)
(* What RepositoryWorkspace promises of a request, its clone and its       *)
(* remote, proved for any workers, approving requests, flow, rework limit  *)
(* and number of faults.                                                   *)
(***************************************************************************)
EXTENDS RepositoryWorkspace, FiniteSetTheorems, TLAPS

-----------------------------------------------------------------------------
(* Types, and what a process that has the row knows.                       *)

\* Commits of the request, of the repository, and of the others who do something.
Made == {c \in Commits : c.by \in {"base", "run", "merge"} \cup Outside}

\* A branch has finitely many commits.
Branch == {b \in SUBSET Made : IsFiniteSet(b)}

\* Clones with branches of B and edits of D.
CloneOf(B, D) ==
  [there : {"none", "partial", "ready"}, head : {"main", "work"},
   main : B, work : B, oMain : B, oWork : B, dirty : SUBSET D, unmerged : BOOLEAN]

Statuses == {"queued", "waiting_approval", "succeeded", "blocked", "stranded"}
WorkerAt == {"fetch", "checkout", "generate", "commit", "push", "record", "verdict"}
ApproverAt == {"target", "branch", "sync", "merge", "push_main", "delete_local",
               "delete_remote", "approve"}

\* The git side: branches of commits whose edits are of runs that were started.
GitTypes ==
  /\ remote \in [main : Branch, work : Branch]
  /\ clone \in CloneOf(Branch, 1 .. runs)
  /\ audited \in Branch /\ seen \in [Worker -> Branch]

RunTypes ==
  /\ runs \in Nat /\ run \in [Worker -> 0 .. runs]
  /\ \A w \in Worker : pc[w] # "idle" => run[w] \in 1 .. runs
  /\ edited \subseteq 1 .. runs /\ recorded \subseteq edited /\ clone.dirty \subseteq edited
  /\ faults \in 0 .. MaxFaults /\ outside \subseteq Outside

Requests == [status : Statuses, phase : {Flow[i] : i \in 1 .. Len(Flow)},
             round : 0 .. MaxRework]

\* The row, and what the process that has it locked knows of the request.
OwnerTypes ==
  /\ request \in Requests
  /\ owner \in Process \cup {Nobody}
  /\ pc \in [Process -> {"idle"} \cup WorkerAt \cup ApproverAt]
  /\ \A w \in Worker : pc[w] \in {"idle"} \cup WorkerAt
  /\ \A a \in Approver : pc[a] \in {"idle"} \cup ApproverAt
  /\ \A w \in Worker : owner = w =>
       /\ request.status = "queued" /\ pc[w] # "idle"
       /\ pc[w] \in {"commit", "push", "record"} => request.phase # 5
       /\ pc[w] = "verdict" => request.phase = 5
  /\ \A a \in Approver : owner = a => request.status = "waiting_approval" /\ pc[a] # "idle"

TInv == GitTypes /\ RunTypes /\ OwnerTypes

-----------------------------------------------------------------------------
(* The work, from the LLM to the target ref, while no worker loses its     *)
(* connection.                                                             *)

SteadyWorkers == Fragile \cap Worker = {}

\* Nobody deletes the target ref, or pushes to the working branch.
TargetStays  == "drop_main" \notin Outside
BranchIsOurs == "push_work" \notin Outside

\* The branch b has all of c, and besides only what others pushed to it.
ButForOthers(b, c) == \A x \in b : x \in c \/ x.by = "push_work"
Extends(b, c) == c \subseteq b /\ ButForOthers(b, c)

\* A worker that is not idle has the row; approving requests, also those that
\* have lost theirs, come after an approving audit.
Turns ==
  /\ \A w \in Worker : pc[w] # "idle" => owner = w
  /\ \A a \in Approver : pc[a] # "idle" => audited # {}
  /\ request.status \in {"waiting_approval", "succeeded"} => audited # {}
  /\ audited # {} => request.status \notin {"queued", "stranded"}

\* The working branch of the worker w.
AtWork(w) ==
  /\ pc[w] \in {"fetch", "checkout", "generate"} => run[w] \notin edited
  /\ pc[w] = "checkout" =>
       /\ Extends(remote.work, clone.oWork)
       /\ remote.work # {} => clone.oWork # {}
       /\ recorded \subseteq EditsIn(clone.oWork)
  /\ pc[w] \in {"generate", "commit", "push", "record", "verdict"} =>
       /\ clone.head = "work" /\ clone.work # {}
       /\ recorded \subseteq EditsIn(clone.work) /\ ButForOthers(remote.work, clone.work)
  /\ pc[w] \in {"generate", "verdict"} => remote.work = {} \/ clone.work \subseteq remote.work
  /\ run[w] \in edited =>
       /\ pc[w] = "commit" => run[w] \in clone.dirty
       /\ pc[w] = "push" => run[w] \in EditsIn(clone.work)
       /\ pc[w] = "record" => run[w] \in EditsIn(remote.work)
  /\ pc[w] = "verdict" => seen[w] = clone.work

\* Until an audit approves, the target ref gets nothing of the request.
BeforeAudit ==
  /\ \A c \in remote.main \cup clone.main \cup clone.oMain : c.by \notin {"run", "merge"}
  /\ \A c \in remote.work \cup clone.work \cup clone.oWork : c.by # "merge"
  /\ recorded \subseteq EditsIn(remote.work)
  /\ \A w \in Worker : pc[w] # "idle" => AtWork(w)

\* A target ref that has of the request nothing but what was audited, and one merge.
OnlyAudited(branch) ==
  /\ \A c \in branch : c.by = "run" => c \in audited
  /\ BranchIsOurs =>
       \A c \in branch : c.by = "merge" => c = Merge(1) /\ audited \subseteq branch

\* What was audited has reached the target ref, here and on the remote.
Merged == audited \subseteq clone.main /\ (TargetStays => audited \subseteq remote.main)

\* How far the approving request a has merged.
AtMerge(a) ==
  /\ pc[a] = "merge" => clone.head = "main" \/ audited \subseteq clone.main
  /\ pc[a] = "push_main" => audited \subseteq clone.main
  /\ pc[a] \in {"delete_local", "delete_remote", "approve"} => Merged
  /\ pc[a] = "approve" => remote.work = {}

\* After that the working branch is what was audited, and on its way to the
\* target ref it does not get lost.
AfterAudit ==
  /\ \A c \in audited : c.by # "merge"
  /\ recorded \subseteq EditsIn(audited)
  /\ clone.work = {} \/ Extends(clone.work, audited)
  /\ remote.work = {} \/ Extends(remote.work, audited)
  /\ TargetStays /\ remote.work = {} => recorded = {} \/ audited \subseteq remote.main
  /\ clone.work = {} => Merged
  /\ OnlyAudited(clone.main) /\ OnlyAudited(remote.main)
  /\ \A a \in Approver : AtMerge(a)
  /\ request.status = "succeeded" => Merged /\ remote.work = {}

WorkInv ==
  /\ Turns
  /\ audited = {} => BeforeAudit
  /\ audited # {} => AfterAudit

-----------------------------------------------------------------------------
(* Types.                                                                  *)

\* Clones after one of the updates git makes.
LEMMA CloneUpdates ==
  ASSUME NEW B, NEW D, NEW c \in CloneOf(B, D)
  PROVE  /\ \A k \in {"none", "partial", "ready"} : [c EXCEPT !.there = k] \in CloneOf(B, D)
         /\ \A x, y, z \in B : [c EXCEPT !.there = "ready", !.main = x, !.oMain = y,
                                         !.oWork = z] \in CloneOf(B, D)
         /\ \A x, y \in B : [c EXCEPT !.head = "work", !.work = x, !.main = y] \in CloneOf(B, D)
         /\ \A d \in SUBSET D : [c EXCEPT !.dirty = d] \in CloneOf(B, D)
         /\ \A x \in B : [c EXCEPT !.oWork = x] \in CloneOf(B, D)
         /\ \A x \in B : [c EXCEPT !.oMain = x] \in CloneOf(B, D)
         /\ \A x, y \in B : [c EXCEPT !.oMain = x, !.oWork = y] \in CloneOf(B, D)
         /\ \A x, y \in B : [c EXCEPT !.head = "work", !.work = x, !.oWork = y] \in CloneOf(B, D)
         /\ \A x, y \in B : [c EXCEPT !.head = "main", !.oMain = x, !.main = y] \in CloneOf(B, D)
         /\ \A x \in B : [c EXCEPT !.work = x] \in CloneOf(B, D)
         /\ [c EXCEPT !.unmerged = TRUE] \in CloneOf(B, D)
         /\ \A x \in B, d \in SUBSET D : [c EXCEPT ![c.head] = x, !.dirty = d] \in CloneOf(B, D)
         /\ \A x \in B : [c EXCEPT ![c.head] = x] \in CloneOf(B, D)
BY DEF CloneOf

\* The commits git and the others make.
LEMMA CommitsMade ==
  ASSUME runs \in Nat
  PROVE  /\ Base \in Made
         /\ \A what \in Outside \cap {"push_main", "push_work"} : Other(what) \in Made
         /\ \A k \in Nat : Merge(k) \in Made
         /\ \A r \in Nat, e \in SUBSET (1 .. runs) : Work(r, e) \in Made
BY DEF Base, Other, Merge, Work, Commits, Made

\* Branches grow into branches.
LEMMA BranchesGrow ==
  /\ {} \in Branch
  /\ \A b, c \in Branch : b \cup c \in Branch
  /\ \A b \in Branch, c \in Made : b \cup {c} \in Branch
  /\ \A b \in Branch : Cardinality(Merges(b)) \in Nat
<1>1. {} \in Branch
  BY FS_EmptySet DEF Branch
<1>2. ASSUME NEW b \in Branch, NEW c \in Branch PROVE b \cup c \in Branch
  BY <1>2, FS_Union DEF Branch
<1>3. ASSUME NEW b \in Branch, NEW c \in Made PROVE b \cup {c} \in Branch
  BY <1>3, FS_AddElement DEF Branch
<1>4. ASSUME NEW b \in Branch PROVE Cardinality(Merges(b)) \in Nat
  <2>1. IsFiniteSet(Merges(b))
    BY <1>4, FS_Subset DEF Branch, Merges
  <2> QED BY <2>1, FS_CardinalityType
<1> QED BY <1>1, <1>2, <1>3, <1>4

\* A lease leaves branches branches: only the range of the edits grows.
LEMMA BranchesKept ==
  ASSUME runs \in Nat, runs' \in {runs, runs + 1}
  PROVE  /\ Branch \subseteq Branch' /\ 1 .. runs \subseteq 1 .. runs'
         /\ CloneOf(Branch, 1 .. runs) \subseteq CloneOf(Branch', 1 .. runs')
         /\ runs' = runs => Branch' = Branch
<1>1. Made \subseteq Made' /\ 1 .. runs \subseteq 1 .. runs'
  BY DEF Made, Commits
<1>2. Branch \subseteq Branch'
  BY <1>1 DEF Branch
<1>3. CloneOf(Branch, 1 .. runs) \subseteq CloneOf(Branch', 1 .. runs')
  BY <1>1, <1>2 DEF CloneOf
<1>4. runs' = runs => Branch' = Branch
  BY DEF Branch, Made, Commits
<1> QED BY <1>1, <1>2, <1>3, <1>4

\* The branches of a worker's step are branches.
LEMMA WorkerGit ==
  ASSUME TInv, NEW w \in Worker, RunPhase(w)
  PROVE  GitTypes'
<1> USE RepositoryWorkspaceAssumption
<1>t. /\ remote.main \in Branch /\ remote.work \in Branch
      /\ remote \in [main : Branch, work : Branch]
      /\ clone \in CloneOf(Branch, 1 .. runs)
      /\ clone.main \in Branch /\ clone.work \in Branch /\ clone.oMain \in Branch
      /\ clone.oWork \in Branch /\ clone.dirty \in SUBSET (1 .. runs)
      /\ clone.head \in {"main", "work"} /\ clone[clone.head] \in Branch
      /\ runs \in Nat /\ run[w] \in 0 .. runs /\ run[w] \in Nat
      /\ audited \in Branch /\ seen \in [Worker -> Branch] /\ seen[w] \in Branch
  BY DEF TInv, GitTypes, RunTypes, CloneOf
<1>u. runs' = runs
  BY DEF RunPhase, FetchRepository, CheckoutWorkingBranch, Generate, FailGeneration, Edit,
     CommitChanges, NoChanges, PushBranch, PushBranchUnanswered, FailPhase, RecordPhase,
     Verdict, rest
<1>b. Branch' = Branch
  BY <1>t, <1>u, BranchesKept
<1>g. SUFFICES /\ remote' \in [main : Branch, work : Branch]
               /\ clone' \in CloneOf(Branch, 1 .. runs)
               /\ audited' \in Branch /\ seen' \in [Worker -> Branch]
  BY <1>b, <1>u DEF GitTypes
<1>1. CASE FetchRepository(w)
  <2>1. PICK main \in IF clone.there = "none" THEN {{}, remote.main} ELSE {clone.main} :
          clone' = [clone EXCEPT !.there = "ready", !.main = main,
                                 !.oMain = remote.main, !.oWork = remote.work]
    BY <1>1 DEF FetchRepository
  <2>2. main \in Branch
    BY <1>t, BranchesGrow
  <2>3. clone' \in CloneOf(Branch, 1 .. runs)
    BY <2>1, <2>2, <1>t, CloneUpdates
  <2> QED BY <2>3, <1>t, <1>1 DEF FetchRepository, db, rest
<1>2. CASE CheckoutWorkingBranch(w)
  <2>1. PICK main \in Branch, base \in Branch, x \in Branch :
          clone' = [clone EXCEPT !.head = "work", !.work = base, !.main = x]
    BY <1>2, <1>t DEF CheckoutWorkingBranch
  <2>3. clone' \in CloneOf(Branch, 1 .. runs)
    BY <2>1, <1>t, CloneUpdates
  <2> QED BY <2>3, <1>t, <1>2 DEF CheckoutWorkingBranch, db, rest
<1>3. ASSUME NEW edits \in BOOLEAN, Edit(w, edits), pc[w] # "idle"
      PROVE  /\ clone' \in CloneOf(Branch, 1 .. runs) /\ UNCHANGED <<audited, remote>>
             /\ seen' \in [Worker -> Branch]
  <2> DEFINE d == clone.dirty \cup {run[w]}
  <2>1. d \in SUBSET (1 .. runs)
    BY <1>t, <1>3 DEF TInv, RunTypes
  <2>2. clone' = clone \/ clone' = [clone EXCEPT !.dirty = d]
    BY <1>3 DEF Edit
  <2> HIDE DEF d
  <2>3. [clone EXCEPT !.dirty = d] \in CloneOf(Branch, 1 .. runs)
    BY <2>1, <1>t, CloneUpdates
  <2>4. clone' \in CloneOf(Branch, 1 .. runs)
    BY <2>2, <2>3, <1>t
  <2> QED BY <2>4, <1>t, <1>3 DEF Edit
<1>4. CASE CommitChanges(w)
  <2> DEFINE x == clone[clone.head] \cup {Work(run[w], clone.dirty)}
  <2>1. x \in Branch
    BY <1>t, CommitsMade, BranchesGrow
  <2>2. clone' = [clone EXCEPT ![clone.head] = x, !.dirty = {}]
    BY <1>4 DEF CommitChanges
  <2> HIDE DEF x
  <2>3. clone' \in CloneOf(Branch, 1 .. runs)
    <3> DEFINE none == {}
    <3>1. none \in SUBSET (1 .. runs)
      OBVIOUS
    <3>2. clone' = [clone EXCEPT ![clone.head] = x, !.dirty = none]
      BY <2>2
    <3> HIDE DEF none
    <3> QED BY <2>1, <3>1, <3>2, <1>t, CloneUpdates
  <2> QED BY <2>3, <1>t, <1>4 DEF CommitChanges, db, rest
<1>5. CASE NoChanges(w) \/ RecordPhase(w) \/ Verdict(w)
  BY <1>5, <1>t DEF NoChanges, RecordPhase, Verdict, db, git, rest
<1>6. CASE PushBranch(w)
  <2>1. clone' \in CloneOf(Branch, 1 .. runs)
    <3>1. clone' = [clone EXCEPT !.oWork = clone.work]
      BY <1>6 DEF PushBranch
    <3> QED BY <3>1, <1>t, CloneUpdates
  <2> QED BY <2>1, <1>t, <1>6 DEF PushBranch, db, rest
<1>7. CASE PushBranchUnanswered(w)
  BY <1>7, <1>t DEF PushBranchUnanswered, rest
<1>8. CASE FailPhase(w)
  <2>1. clone' \in CloneOf(Branch, 1 .. runs)
    <3>1. clone' = clone \/ clone' = [clone EXCEPT !.there = "partial"]
      BY <1>8 DEF FailPhase
    <3>2. [clone EXCEPT !.there = "partial"] \in CloneOf(Branch, 1 .. runs)
      BY <1>t, CloneUpdates
    <3> QED BY <3>1, <3>2, <1>t
  <2> QED BY <2>1, <1>t, <1>8 DEF FailPhase, rest
<1>9. CASE Generate(w) \/ FailGeneration(w)
  BY <1>9, <1>3, <1>t DEF Generate, FailGeneration
<1> QED BY <1>1, <1>2, <1>4, <1>5, <1>6, <1>7, <1>8, <1>9 DEF RunPhase

\* The branches of a step of an approving request are branches.
LEMMA ApproverGit ==
  ASSUME TInv, NEW a \in Approver, MergeAndCleanup(a)
  PROVE  GitTypes'
<1> DEFINE C == CloneOf(Branch, 1 .. runs)
<1>t. /\ remote.main \in Branch /\ remote.work \in Branch
      /\ remote \in [main : Branch, work : Branch]
      /\ clone \in C
      /\ clone.main \in Branch /\ clone.work \in Branch /\ clone.oMain \in Branch
      /\ clone.oWork \in Branch /\ clone[clone.head] \in Branch
      /\ runs \in Nat /\ audited \in Branch /\ seen \in [Worker -> Branch]
  BY DEF TInv, GitTypes, RunTypes, CloneOf
<1>u. runs' = runs /\ UNCHANGED <<audited, seen>>
  BY DEF MergeAndCleanup, FindTarget, AbandonApproval, EnsureWorkingBranch, SyncTarget,
     MergeBranch, MergeConflict, PushTarget, PushUnanswered, DeleteLocalBranch,
     DeleteRemoteBranch, FailApproval, ApproveTask, rest, db
<1>b. Branch' = Branch
  BY <1>t, <1>u, BranchesKept
<1>g. SUFFICES remote' \in [main : Branch, work : Branch] /\ clone' \in C
  BY <1>b, <1>u, <1>t DEF GitTypes
<1>e. {} \in Branch
  BY BranchesGrow
<1>1. CASE FindTarget(a)
  <2>1. [clone EXCEPT !.oMain = remote.main] \in C
    BY <1>t, CloneUpdates
  <2> QED BY <2>1, <1>t, <1>1 DEF FindTarget
<1>2. CASE EnsureWorkingBranch(a)
  <2>1. [clone EXCEPT !.head = "work", !.work = remote.work, !.oWork = remote.work] \in C
    BY <1>t, CloneUpdates
  <2> QED BY <2>1, <1>t, <1>2 DEF EnsureWorkingBranch
<1>3. CASE SyncTarget(a)
  <2> DEFINE x == clone.main \cup remote.main
  <2>1. x \in Branch
    BY <1>t, BranchesGrow
  <2>2. clone' = [clone EXCEPT !.head = "main", !.oMain = remote.main, !.main = x]
    BY <1>3 DEF SyncTarget
  <2> HIDE DEF x
  <2>3. [clone EXCEPT !.head = "main", !.oMain = remote.main, !.main = x] \in C
    BY <2>1, <1>t, CloneUpdates
  <2> QED BY <2>2, <2>3, <1>t, <1>3 DEF SyncTarget
<1>4. CASE MergeBranch(a)
  <2> DEFINE target == clone[clone.head]
             k == Cardinality(Merges(target)) + 1
             x == IF clone.work \subseteq target THEN target
                  ELSE target \cup clone.work \cup {Merge(k)}
  <2>1. x \in Branch
    <3>1. Merge(k) \in Made
      <4>1. k \in Nat
        BY <1>t, BranchesGrow
      <4> QED BY <4>1, <1>t, CommitsMade
    <3>2. target \cup clone.work \in Branch
      BY <1>t, BranchesGrow
    <3>3. (target \cup clone.work) \cup {Merge(k)} \in Branch
      BY <3>1, <3>2, BranchesGrow
    <3> QED BY <3>3, <1>t
  <2>2. clone' = [clone EXCEPT ![clone.head] = x]
    BY <1>4 DEF MergeBranch
  <2> HIDE DEF x
  <2>3. [clone EXCEPT ![clone.head] = x] \in C
    BY <2>1, <1>t, CloneUpdates
  <2> QED BY <2>2, <2>3, <1>t, <1>4 DEF MergeBranch
<1>5. CASE MergeConflict(a)
  <2>1. [clone EXCEPT !.unmerged = TRUE] \in C
    BY <1>t, CloneUpdates
  <2> QED BY <2>1, <1>t, <1>5 DEF MergeConflict
<1>6. CASE PushTarget(a)
  <2>1. [clone EXCEPT !.oMain = clone.main] \in C
    BY <1>t, CloneUpdates
  <2> QED BY <2>1, <1>t, <1>6 DEF PushTarget
<1>7. CASE DeleteLocalBranch(a)
  <2>1. [clone EXCEPT !.work = {}] \in C
    BY <1>t, <1>e, CloneUpdates
  <2> QED BY <2>1, <1>t, <1>7 DEF DeleteLocalBranch
<1>8. CASE DeleteRemoteBranch(a)
  <2>1. [clone EXCEPT !.oWork = {}] \in C
    BY <1>t, <1>e, CloneUpdates
  <2> QED BY <2>1, <1>t, <1>e, <1>8 DEF DeleteRemoteBranch
<1>9. CASE PushUnanswered(a)
  BY <1>9, <1>t, <1>e DEF PushUnanswered
<1>10. CASE AbandonApproval(a) \/ FailApproval(a) \/ ApproveTask(a)
  BY <1>10, <1>t DEF AbandonApproval, FailApproval, ApproveTask, git
<1> QED BY <1>1, <1>2, <1>3, <1>4, <1>5, <1>6, <1>7, <1>8, <1>9, <1>10 DEF MergeAndCleanup

LEMMA GitStep ==
  ASSUME TInv, [Next]_vars
  PROVE  GitTypes'
<1> DEFINE C == CloneOf(Branch, 1 .. runs)
<1>t. /\ remote.main \in Branch /\ remote.work \in Branch
      /\ remote \in [main : Branch, work : Branch]
      /\ clone \in C /\ clone.oWork \in Branch
      /\ runs \in Nat /\ audited \in Branch /\ seen \in [Worker -> Branch]
  BY DEF TInv, GitTypes, RunTypes, CloneOf
<1>k. ASSUME runs' = runs, audited' = audited, seen' = seen,
             remote' \in [main : Branch, work : Branch], clone' \in C
      PROVE  GitTypes'
  BY <1>k, <1>t, BranchesKept DEF GitTypes
<1>1. ASSUME NEW w \in Worker, LeasePhase(w) PROVE GitTypes'
  <2>1. runs' = runs + 1 /\ UNCHANGED <<remote, clone, audited, seen>>
    BY <1>1 DEF LeasePhase, db, git
  <2>2. Branch \subseteq Branch' /\ C \subseteq CloneOf(Branch', 1 .. runs')
    BY <2>1, <1>t, BranchesKept
  <2> QED BY <2>1, <2>2, <1>t DEF GitTypes
<1>2. ASSUME NEW a \in Approver, BeginApproval(a) PROVE GitTypes'
  BY <1>2, <1>t, <1>k DEF BeginApproval, db, git, rest
<1>3. ASSUME NEW p \in Process, Crash(p) PROVE GitTypes'
  <2>1. [clone EXCEPT !.there = "partial"] \in C
    BY <1>t, CloneUpdates
  <2> QED BY <2>1, <1>3, <1>t, <1>k DEF Crash, db
<1>4. ASSUME NEW p \in Process, LoseConnection(p) PROVE GitTypes'
  BY <1>4, <1>t, <1>k DEF LoseConnection, db, git
<1>5. CASE RejectTask
  BY <1>5, <1>t, <1>k DEF RejectTask, git, rest
<1>6. CASE GetDiff
  <2> DEFINE x == IF clone.work = {} /\ remote.work # {} THEN remote.work ELSE clone.oWork
  <2>1. x \in Branch
    BY <1>t
  <2>2. clone' = [clone EXCEPT !.oMain = remote.main, !.oWork = x]
    BY <1>6 DEF GetDiff
  <2> HIDE DEF x
  <2>3. [clone EXCEPT !.oMain = remote.main, !.oWork = x] \in C
    BY <2>1, <1>t, CloneUpdates
  <2> QED BY <2>2, <2>3, <1>6, <1>t, <1>k DEF GetDiff, db, rest
<1>7. CASE Others
  <2>1. /\ {} \in Branch
        /\ \A what \in Outside \cap {"push_main", "push_work"}, b \in Branch :
             b \cup {Other(what)} \in Branch
        /\ outside \subseteq Outside
    BY <1>t, CommitsMade, BranchesGrow DEF TInv, RunTypes
  <2>2. remote' \in [main : Branch, work : Branch]
    <3>1. PICK what \in outside : Others!(what)!2
      BY <1>7 DEF Others
    <3>2. CASE what = "push_main" /\ remote' = [remote EXCEPT !.main = @ \cup {Other(what)}]
      BY <3>2, <2>1, <1>t
    <3>3. CASE what = "push_work" /\ remote' = [remote EXCEPT !.work = @ \cup {Other(what)}]
      BY <3>3, <2>1, <1>t
    <3>4. CASE remote' = [remote EXCEPT !.main = {}]
      BY <3>4, <2>1, <1>t
    <3> QED BY <3>1, <3>2, <3>3, <3>4
  <2> QED BY <2>2, <1>7, <1>t, <1>k DEF Others, db
<1>8. CASE UNCHANGED vars
  BY <1>8, <1>t, <1>k DEF vars
<1> QED BY <1>1, <1>2, <1>3, <1>4, <1>5, <1>6, <1>7, <1>8, WorkerGit, ApproverGit DEF Next

\* What follows a phase that is not the last.
LEMMA NextPhase ==
  ASSUME NEW phase \in {Flow[i] : i \in 1 .. Len(Flow)}, phase # 5
  PROVE  \E i \in 1 .. Len(Flow) - 1 : Flow[i] = phase /\ NextOf(phase) = Flow[i + 1]
<1> DEFINE i == CHOOSE k \in 1 .. Len(Flow) : Flow[k] = phase
<1>1. i \in 1 .. Len(Flow) /\ Flow[i] = phase
  OBVIOUS
<1>2. Flow \in Seq(0 .. 5) /\ Len(Flow) \in Nat /\ Flow[Len(Flow)] = 5
  BY RepositoryWorkspaceAssumption
<1>3. i # Len(Flow)
  BY <1>1, <1>2
<1>4. NextOf(phase) = Flow[i + 1]
  BY DEF NextOf
<1> HIDE DEF i
<1>5. i \in 1 .. Len(Flow) - 1
  BY <1>1, <1>2, <1>3
<1> QED BY <1>1, <1>4, <1>5

\* A commit changes the clone and nothing else.
LEMMA CommitMoves ==
  ASSUME NEW w \in Worker, CommitChanges(w)
  PROVE  /\ pc[w] = "commit" /\ clone.dirty # {} /\ pc' = [pc EXCEPT ![w] = "push"]
         /\ UNCHANGED <<request, owner, recorded, audited, remote, run, seen, runs, edited,
                        outside, faults>>
<1>1. /\ pc[w] = "commit" /\ clone.dirty # {} /\ Goto(w, "push")
      /\ UNCHANGED <<db, remote, rest>>
  BY Zenon DEF CommitChanges
<1> QED BY <1>1 DEF Goto, db, rest

\* After it the working tree is clean, and the branch that is checked out has it all.
LEMMA CommitTakes ==
  ASSUME TInv, NEW w \in Worker, CommitChanges(w)
  PROVE  /\ clone'.dirty = {} /\ clone'.head = clone.head
         /\ clone'.oMain = clone.oMain /\ clone'.oWork = clone.oWork
         /\ clone.head = "work" =>
              /\ clone'.work = clone.work \cup {Work(run[w], clone.dirty)}
              /\ clone'.main = clone.main
<1> DEFINE x == clone[clone.head] \cup {Work(run[w], clone.dirty)}
<1>1. clone' = [clone EXCEPT ![clone.head] = x, !.dirty = {}]
  BY Zenon DEF CommitChanges
<1>2. clone.head = "work" => x = clone.work \cup {Work(run[w], clone.dirty)}
  OBVIOUS
<1>3. clone \in CloneOf(Branch, 1 .. runs) /\ clone.head \in {"main", "work"}
  BY DEF TInv, GitTypes, CloneOf
<1> DEFINE y == [clone EXCEPT ![clone.head] = x]
<1>y. clone' = [y EXCEPT !.dirty = {}]
  BY <1>1, Zenon
<1> HIDE DEF x
<1>5. /\ y.head = clone.head /\ y.oMain = clone.oMain /\ y.oWork = clone.oWork
      /\ clone.head = "work" => y.work = x /\ y.main = clone.main
      /\ DOMAIN y = DOMAIN clone
  BY <1>3 DEF CloneOf
<1>6. DOMAIN clone = {"there", "head", "main", "work", "oMain", "oWork", "dirty", "unmerged"}
  BY <1>3 DEF CloneOf
<1> HIDE DEF y
<1>4. /\ clone'.dirty = {} /\ clone'.head = clone.head
      /\ clone'.oMain = clone.oMain /\ clone'.oWork = clone.oWork
      /\ clone.head = "work" => clone'.work = x /\ clone'.main = clone.main
  BY <1>y, <1>5, <1>6
<1> QED BY <1>2, <1>4

\* The ways a step of a worker ends: on to its next step, or with its
\* transaction over, rolled back or committed with an outcome.
LEMMA WorkerMoves ==
  ASSUME TInv, NEW w \in Worker, RunPhase(w)
  PROVE  /\ pc[w] # "idle" /\ UNCHANGED <<run, runs, outside, faults>>
         /\ \/ /\ owner' = owner /\ request' = request
               /\ \E s \in WorkerAt :
                    /\ pc' = [pc EXCEPT ![w] = s]
                    /\ owner = w => /\ s \in {"commit", "push", "record"} => request.phase # 5
                                    /\ s = "verdict" => request.phase = 5
            \/ /\ pc' = [pc EXCEPT ![w] = "idle"]
               /\ owner' = IF owner = w THEN Nobody ELSE owner
               /\ \/ request' = request
                  \/ /\ owner = w
                     /\ \/ request' \in {Blocked, Stranded}
                        \/ request.phase # 5
                             /\ request' = [request EXCEPT !.phase = NextOf(request.phase)]
                        \/ request.phase = 5
                             /\ request' = [request EXCEPT !.status = "waiting_approval"]
                        \/ request.phase = 5 /\ request.round < MaxRework
                             /\ request' = [request EXCEPT !.phase = 4, !.round = @ + 1]
<1>t. /\ owner = w => (pc[w] \in {"commit", "push", "record"} => request.phase # 5)
                      /\ (pc[w] = "verdict" => request.phase = 5)
  BY DEF TInv, OwnerTypes
<1>m. \A s \in {"checkout", "generate", "push", "record"} : s \in WorkerAt
  BY DEF WorkerAt
<1>1. CASE FetchRepository(w)
  <2>1. pc' = [pc EXCEPT ![w] = "checkout"] /\ owner' = owner /\ request' = request
    BY <1>1 DEF FetchRepository, Goto, db
  <2> QED BY <2>1, <1>1, <1>m DEF FetchRepository, rest
<1>8. CASE CheckoutWorkingBranch(w)
  <2>1. /\ UNCHANGED <<request, run, runs, outside, faults>> /\ pc[w] # "idle"
        /\ \/ pc' = [pc EXCEPT ![w] = "generate"] /\ owner' = owner
           \/ /\ pc' = [pc EXCEPT ![w] = "idle"]
              /\ owner' = IF owner = w THEN Nobody ELSE owner
    BY <1>8 DEF CheckoutWorkingBranch, Continue, Stop, db, rest
  <2> QED BY <2>1, <1>m
<1>2. CASE Generate(w)
  BY <1>2 DEF Generate, Edit, Continue, Stop, WorkerAt
<1>3. CASE FailGeneration(w)
  BY <1>3 DEF FailGeneration, Edit, Commit, Stop
<1>4. CASE CommitChanges(w) \/ NoChanges(w) \/ PushBranch(w)
  <2>1. /\ UNCHANGED <<request, owner, run, runs, outside, faults>>
        /\ pc[w] \in {"commit", "push"}
        /\ \/ pc' = [pc EXCEPT ![w] = "push"]
           \/ pc' = [pc EXCEPT ![w] = "record"]
    <3>1. CASE CommitChanges(w)
      <4>1. /\ pc[w] = "commit" /\ pc' = [pc EXCEPT ![w] = "push"]
            /\ UNCHANGED <<request, owner, run, runs, outside, faults>>
        BY <3>1, CommitMoves
      <4> QED BY <4>1
    <3>2. CASE NoChanges(w)
      BY <3>2 DEF NoChanges, Goto, db, rest
    <3>3. CASE PushBranch(w)
      BY <3>3 DEF PushBranch, Goto, db, rest
    <3> QED BY <1>4, <3>1, <3>2, <3>3
  <2> QED BY <2>1, <1>t, <1>m
<1>5. CASE PushBranchUnanswered(w) \/ FailPhase(w)
  BY <1>5 DEF PushBranchUnanswered, FailPhase, Commit, Stop, rest
<1>6. CASE RecordPhase(w)
  BY <1>6, <1>t DEF RecordPhase, Commit, Stop, rest
<1>7. CASE Verdict(w)
  BY <1>7, <1>t DEF Verdict, Commit, Stop, rest
<1> QED BY <1>1, <1>2, <1>3, <1>4, <1>5, <1>6, <1>7, <1>8 DEF RunPhase

LEMMA ApproverMoves ==
  ASSUME TInv, NEW a \in Approver, MergeAndCleanup(a)
  PROVE  /\ pc[a] # "idle" /\ UNCHANGED <<run, runs, outside, recorded, audited, edited, seen>>
         /\ faults' = faults \/ Faulty
         /\ \/ /\ owner' = owner /\ request' = request
               /\ \E s \in ApproverAt : pc' = [pc EXCEPT ![a] = s]
            \/ /\ pc' = [pc EXCEPT ![a] = "idle"]
               /\ owner' = IF owner = a THEN Nobody ELSE owner
               /\ \/ request' = request
                  \/ owner = a /\ request' = Blocked
                  \/ owner = a /\ request' = [request EXCEPT !.status = "succeeded"]
<1>1. CASE FindTarget(a) \/ EnsureWorkingBranch(a) \/ SyncTarget(a) \/ MergeBranch(a)
  BY <1>1 DEF FindTarget, EnsureWorkingBranch, SyncTarget, MergeBranch, Goto, db, rest, ApproverAt
<1>2. CASE PushTarget(a) \/ DeleteLocalBranch(a) \/ DeleteRemoteBranch(a)
  BY <1>2 DEF PushTarget, DeleteLocalBranch, DeleteRemoteBranch, Goto, db, rest, ApproverAt
<1>3. CASE AbandonApproval(a)
  BY <1>3 DEF AbandonApproval, Stop, db
<1>4. CASE MergeConflict(a) \/ PushUnanswered(a) \/ FailApproval(a) \/ ApproveTask(a)
  BY <1>4 DEF MergeConflict, PushUnanswered, FailApproval, ApproveTask, Commit, Stop, rest
<1> QED BY <1>1, <1>2, <1>3, <1>4 DEF MergeAndCleanup

LEMMA RunStep ==
  ASSUME TInv, [Next]_vars
  PROVE  RunTypes'
<1>t. /\ runs \in Nat /\ run \in [Worker -> 0 .. runs]
      /\ edited \subseteq 1 .. runs /\ recorded \subseteq edited /\ clone.dirty \subseteq edited
      /\ faults \in 0 .. MaxFaults /\ outside \subseteq Outside /\ MaxFaults \in Nat
      /\ \A w \in Worker : pc[w] # "idle" => run[w] \in 1 .. runs
      /\ pc \in [Process -> {"idle"} \cup WorkerAt \cup ApproverAt]
      /\ Worker \cap Approver = {} /\ Process = Worker \cup Approver
  BY RepositoryWorkspaceAssumption DEF TInv, RunTypes, OwnerTypes, Process
<1>c. clone \in CloneOf(Branch, 1 .. runs)
  BY DEF TInv, GitTypes
\* Most steps leave the runs alone and keep a process that is idle idle.
<1>k. ASSUME runs' = runs, run' = run, edited' = edited, recorded' = recorded,
             clone'.dirty \subseteq edited, outside' \subseteq outside,
             faults' = faults \/ Faulty,
             \A w \in Worker : pc'[w] # "idle" => pc[w] # "idle"
      PROVE  RunTypes'
  BY <1>k, <1>t DEF RunTypes, Faulty
<1>1. ASSUME NEW w \in Worker, LeasePhase(w) PROVE RunTypes'
  <2>1. /\ runs' = runs + 1 /\ run' = [run EXCEPT ![w] = runs + 1]
        /\ UNCHANGED <<edited, recorded, clone, outside, faults>>
        /\ pc' = [pc EXCEPT ![w] = "fetch"]
    BY <1>1 DEF LeasePhase, db, git
  <2>2. run' \in [Worker -> 0 .. runs + 1]
    BY <2>1, <1>t
  <2>3. \A v \in Worker : pc'[v] # "idle" => run'[v] \in 1 .. runs + 1
    BY <2>1, <1>t
  <2> QED BY <2>1, <2>2, <2>3, <1>t DEF RunTypes
<1>2. ASSUME NEW w \in Worker, RunPhase(w) PROVE RunTypes'
  <2>1. /\ pc[w] # "idle" /\ UNCHANGED <<run, runs, outside, faults>>
        /\ \A v \in Worker : pc'[v] # "idle" => pc[v] # "idle"
    BY <1>2, <1>t, WorkerMoves
  <2>2. \/ edited' = edited /\ clone'.dirty \in {clone.dirty, {}}
        \/ edited' = edited \cup {run[w]} /\ clone'.dirty = clone.dirty \cup {run[w]}
    <3>1. CASE CommitChanges(w)
      <4>1. clone'.dirty = {}
        BY <3>1, CommitTakes
      <4> QED BY <4>1, <3>1, CommitMoves
    <3>2. CASE Generate(w) \/ FailGeneration(w)
      BY <3>2, <1>c DEF Generate, FailGeneration, Edit, CloneOf
    <3>3. CASE FetchRepository(w)
      BY <3>3, <1>c DEF FetchRepository, rest, CloneOf
    <3>5. CASE CheckoutWorkingBranch(w)
      BY <3>5, <1>c DEF CheckoutWorkingBranch, rest, CloneOf
    <3>6. CASE NoChanges(w) \/ PushBranch(w)
      BY <3>6, <1>c DEF NoChanges, PushBranch, git, rest, CloneOf
    <3>4. CASE PushBranchUnanswered(w) \/ FailPhase(w) \/ RecordPhase(w) \/ Verdict(w)
      BY <3>4, <1>c DEF PushBranchUnanswered, FailPhase, RecordPhase, Verdict, git, rest,
         CloneOf
    <3> QED BY <1>2, <3>1, <3>2, <3>3, <3>4, <3>5, <3>6 DEF RunPhase
  <2>3. recorded' \subseteq edited \cup recorded
    <3>1. CASE CommitChanges(w)
      BY <3>1, CommitMoves
    <3>2. CASE RecordPhase(w)
      BY <3>2, <1>t DEF RecordPhase
    <3>3. CASE Generate(w) \/ FailGeneration(w)
      BY <3>3 DEF Generate, FailGeneration, Edit
    <3>4. CASE FetchRepository(w)
      BY <3>4 DEF FetchRepository, db
    <3>6. CASE CheckoutWorkingBranch(w)
      BY <3>6 DEF CheckoutWorkingBranch, db
    <3>7. CASE NoChanges(w) \/ PushBranch(w)
      BY <3>7 DEF NoChanges, PushBranch, db
    <3>5. CASE PushBranchUnanswered(w) \/ FailPhase(w) \/ Verdict(w)
      BY <3>5 DEF PushBranchUnanswered, FailPhase, Verdict
    <3> QED BY <1>2, <3>1, <3>2, <3>3, <3>4, <3>5, <3>6, <3>7 DEF RunPhase
  <2> QED BY <2>1, <2>2, <2>3, <1>t DEF RunTypes
<1>3. ASSUME NEW a \in Approver, MergeAndCleanup(a) PROVE RunTypes'
  <2>1. /\ UNCHANGED <<run, runs, outside, recorded, edited>>
        /\ faults' = faults \/ Faulty
        /\ \A v \in Worker : pc'[v] = pc[v]
    BY <1>3, <1>t, ApproverMoves
  <2>2. clone'.dirty = clone.dirty
    BY <1>3, <1>c DEF MergeAndCleanup, FindTarget, AbandonApproval, EnsureWorkingBranch,
       SyncTarget, MergeBranch, MergeConflict, PushTarget, PushUnanswered,
       DeleteLocalBranch, DeleteRemoteBranch, FailApproval, ApproveTask, git, CloneOf
  <2> QED BY <2>1, <2>2, <1>t, <1>k
<1>4. ASSUME NEW a \in Approver, BeginApproval(a) PROVE RunTypes'
  BY <1>4, <1>t, <1>k DEF BeginApproval, db, git, rest
<1>5. ASSUME NEW p \in Process, Crash(p) PROVE RunTypes'
  <2>1. clone'.dirty = clone.dirty
    BY <1>5, <1>c DEF Crash, CloneOf
  <2> QED BY <2>1, <1>5, <1>t, <1>k DEF Crash, Stop, db
<1>6. ASSUME NEW p \in Process, LoseConnection(p) PROVE RunTypes'
  BY <1>6, <1>t, <1>k DEF LoseConnection, db, git
<1>7. CASE RejectTask
  BY <1>7, <1>t, <1>k DEF RejectTask, git, rest
<1>8. CASE GetDiff
  BY <1>8, <1>t, <1>c, <1>k DEF GetDiff, db, rest, CloneOf
<1>9. CASE Others
  BY <1>9, <1>t, <1>k DEF Others, db
<1>10. CASE UNCHANGED vars
  BY <1>10, <1>t, <1>k DEF vars
<1> QED BY <1>1, <1>2, <1>3, <1>4, <1>5, <1>6, <1>7, <1>8, <1>9, <1>10 DEF Next

LEMMA OwnerStep ==
  ASSUME TInv, [Next]_vars
  PROVE  OwnerTypes'
<1>t. /\ request \in Requests
      /\ owner \in Process \cup {Nobody}
      /\ pc \in [Process -> {"idle"} \cup WorkerAt \cup ApproverAt]
      /\ \A w \in Worker : pc[w] \in {"idle"} \cup WorkerAt
      /\ \A a \in Approver : pc[a] \in {"idle"} \cup ApproverAt
      /\ \A w \in Worker : owner = w =>
           /\ request.status = "queued" /\ pc[w] # "idle"
           /\ pc[w] \in {"commit", "push", "record"} => request.phase # 5
           /\ pc[w] = "verdict" => request.phase = 5
      /\ \A a \in Approver : owner = a =>
           request.status = "waiting_approval" /\ pc[a] # "idle"
  BY DEF TInv, OwnerTypes
<1>a. /\ Process = Worker \cup Approver /\ Worker \cap Approver = {} /\ Nobody \notin Process
      /\ 4 \in {Flow[i] : i \in 1 .. Len(Flow)} /\ MaxRework \in Nat
  BY RepositoryWorkspaceAssumption DEF Process
<1>s. /\ "idle" \notin WorkerAt /\ "idle" \notin ApproverAt
      /\ "fetch" \in WorkerAt /\ "target" \in ApproverAt
      /\ "fetch" \notin {"commit", "push", "record", "verdict"}
  BY DEF WorkerAt, ApproverAt
<1>r. /\ \A st \in Statuses : [request EXCEPT !.status = st] \in Requests
      /\ request.phase # 5 => [request EXCEPT !.phase = NextOf(request.phase)] \in Requests
      /\ request.round < MaxRework =>
           [request EXCEPT !.phase = 4, !.round = @ + 1] \in Requests
  <2>1. \A st \in Statuses : [request EXCEPT !.status = st] \in Requests
    BY <1>t DEF Requests
  <2>2. ASSUME request.phase # 5 PROVE [request EXCEPT !.phase = NextOf(request.phase)] \in Requests
    <3>1. request.phase \in {Flow[i] : i \in 1 .. Len(Flow)}
      BY <1>t DEF Requests
    <3>2. PICK i \in 1 .. Len(Flow) - 1 : NextOf(request.phase) = Flow[i + 1]
      BY <3>1, <2>2, NextPhase
    <3>3. Flow[i + 1] \in {Flow[k] : k \in 1 .. Len(Flow)}
      BY RepositoryWorkspaceAssumption
    <3> QED BY <3>2, <3>3, <1>t DEF Requests
  <2>3. ASSUME request.round < MaxRework
        PROVE  [request EXCEPT !.phase = 4, !.round = @ + 1] \in Requests
    <3>1. request.round + 1 \in 0 .. MaxRework
      BY <2>3, <1>t, <1>a DEF Requests
    <3> QED BY <3>1, <1>t, <1>a DEF Requests
  <2> QED BY <2>1, <2>2, <2>3
<1>o. /\ Blocked \in Requests /\ Stranded \in Requests
      /\ [request EXCEPT !.status = "waiting_approval"] \in Requests
      /\ [request EXCEPT !.status = "succeeded"] \in Requests
  BY <1>r DEF Blocked, Stranded, Statuses
\* The transaction of p ends.
<1>e. ASSUME NEW p \in Process, pc' = [pc EXCEPT ![p] = "idle"],
             owner' = IF owner = p THEN Nobody ELSE owner,
             request' = request \/ (owner = p /\ request' \in Requests)
      PROVE  OwnerTypes'
  <2>1. request' \in Requests
    BY <1>e, <1>t
  <2>2. owner' # Nobody => owner # p /\ owner' = owner /\ request' = request
    BY <1>e
  <2>3. \A q \in Process : q # p => pc'[q] = pc[q]
    BY <1>e, <1>t
  <2>4. pc'[p] = "idle" /\ pc' \in [Process -> {"idle"} \cup WorkerAt \cup ApproverAt]
    BY <1>e, <1>t
  <2> QED BY <2>1, <2>2, <2>3, <2>4, <1>e, <1>t, <1>a DEF OwnerTypes
\* Nothing happens to the row and the processes but the loss of a transaction.
<1>k. ASSUME pc' = pc, request' = request, owner' \in {owner, Nobody} PROVE OwnerTypes'
  BY <1>k, <1>t, <1>a DEF OwnerTypes
<1>1. ASSUME NEW w \in Worker, LeasePhase(w) PROVE OwnerTypes'
  <2>1. /\ request' = request /\ request.status = "queued" /\ owner' = w
        /\ pc' = [pc EXCEPT ![w] = "fetch"]
    BY <1>1 DEF LeasePhase, db
  <2>2. /\ pc' \in [Process -> {"idle"} \cup WorkerAt \cup ApproverAt]
        /\ pc'[w] = "fetch" /\ \A q \in Process : q # w => pc'[q] = pc[q]
    BY <2>1, <1>t, <1>a, <1>s
  <2> QED BY <2>1, <2>2, <1>t, <1>a, <1>s DEF OwnerTypes
<1>2. ASSUME NEW w \in Worker, RunPhase(w) PROVE OwnerTypes'
  <2>1. CASE /\ owner' = owner /\ request' = request
             /\ \E s \in WorkerAt :
                  /\ pc' = [pc EXCEPT ![w] = s]
                  /\ owner = w => /\ s \in {"commit", "push", "record"} => request.phase # 5
                                  /\ s = "verdict" => request.phase = 5
    <3>1. PICK s \in WorkerAt :
            /\ pc' = [pc EXCEPT ![w] = s]
            /\ owner = w => /\ s \in {"commit", "push", "record"} => request.phase # 5
                            /\ s = "verdict" => request.phase = 5
      BY <2>1
    <3>2. /\ pc' \in [Process -> {"idle"} \cup WorkerAt \cup ApproverAt]
          /\ pc'[w] = s /\ \A q \in Process : q # w => pc'[q] = pc[q]
      BY <3>1, <1>t, <1>a
    <3>3. \A q \in Worker : pc'[q] \in {"idle"} \cup WorkerAt
      BY <3>2, <1>t, <1>a
    <3>4. \A q \in Approver : pc'[q] = pc[q]
      BY <3>2, <1>a
    <3>5. \A q \in Worker : owner' = q =>
           /\ request'.status = "queued" /\ pc'[q] # "idle"
           /\ pc'[q] \in {"commit", "push", "record"} => request'.phase # 5
           /\ pc'[q] = "verdict" => request'.phase = 5
      <4> SUFFICES ASSUME NEW q \in Worker, owner' = q
                   PROVE  /\ request'.status = "queued" /\ pc'[q] # "idle"
                          /\ pc'[q] \in {"commit", "push", "record"} => request'.phase # 5
                          /\ pc'[q] = "verdict" => request'.phase = 5
        OBVIOUS
      <4>1. CASE q = w
        BY <4>1, <3>1, <3>2, <2>1, <1>t, <1>s
      <4>2. CASE q # w
        BY <4>2, <3>2, <2>1, <1>t, <1>a
      <4> QED BY <4>1, <4>2
    <3> QED BY <3>2, <3>3, <3>4, <3>5, <2>1, <1>t DEF OwnerTypes
  <2>2. CASE /\ pc' = [pc EXCEPT ![w] = "idle"]
             /\ owner' = IF owner = w THEN Nobody ELSE owner
             /\ request' = request \/ (owner = w /\ request' \in Requests)
    BY <2>2, <1>e, <1>a
  <2>3. ASSUME \/ request' \in {Blocked, Stranded}
               \/ request.phase # 5
                    /\ request' = [request EXCEPT !.phase = NextOf(request.phase)]
               \/ request.phase = 5
                    /\ request' = [request EXCEPT !.status = "waiting_approval"]
               \/ request.phase = 5 /\ request.round < MaxRework
                    /\ request' = [request EXCEPT !.phase = 4, !.round = @ + 1]
        PROVE  request' \in Requests
    BY <2>3, <1>r, <1>o
  <2> HIDE DEF Blocked, Stranded
  <2> QED BY <2>1, <2>2, <2>3, <1>2, WorkerMoves
<1>3. ASSUME NEW a \in Approver, MergeAndCleanup(a) PROVE OwnerTypes'
  <2>1. CASE owner' = owner /\ request' = request
             /\ \E s \in ApproverAt : pc' = [pc EXCEPT ![a] = s]
    <3>1. PICK s \in ApproverAt : pc' = [pc EXCEPT ![a] = s]
      BY <2>1
    <3>2. /\ pc' \in [Process -> {"idle"} \cup WorkerAt \cup ApproverAt]
          /\ pc'[a] = s /\ \A q \in Process : q # a => pc'[q] = pc[q]
      BY <3>1, <1>t, <1>a
    <3> QED BY <3>2, <2>1, <1>t, <1>a, <1>s DEF OwnerTypes
  <2>2. CASE /\ pc' = [pc EXCEPT ![a] = "idle"]
             /\ owner' = IF owner = a THEN Nobody ELSE owner
             /\ request' = request \/ (owner = a /\ request' \in Requests)
    BY <2>2, <1>e, <1>a
  <2>3. ASSUME request' = Blocked \/ request' = [request EXCEPT !.status = "succeeded"]
        PROVE  request' \in Requests
    BY <2>3, <1>o
  <2> QED BY <2>1, <2>2, <2>3, <1>3, ApproverMoves
<1>4. ASSUME NEW a \in Approver, BeginApproval(a) PROVE OwnerTypes'
  <2>1. /\ request' = request /\ request.status = "waiting_approval" /\ owner' = a
        /\ pc' = [pc EXCEPT ![a] = "target"]
    BY <1>4 DEF BeginApproval, db
  <2>2. /\ pc' \in [Process -> {"idle"} \cup WorkerAt \cup ApproverAt]
        /\ pc'[a] = "target" /\ \A q \in Process : q # a => pc'[q] = pc[q]
    BY <2>1, <1>t, <1>a, <1>s
  <2> QED BY <2>1, <2>2, <1>t, <1>a, <1>s DEF OwnerTypes
<1>5. ASSUME NEW p \in Process, Crash(p) PROVE OwnerTypes'
  <2>1. /\ pc' = [pc EXCEPT ![p] = "idle"] /\ owner' = IF owner = p THEN Nobody ELSE owner
        /\ request' = request
    BY <1>5 DEF Crash, Stop, db
  <2> QED BY <2>1, <1>e
<1>6. ASSUME NEW p \in Process, LoseConnection(p) PROVE OwnerTypes'
  BY <1>6, <1>k DEF LoseConnection, db
<1>7. CASE RejectTask
  <2>1. request' = Blocked /\ owner = Nobody /\ UNCHANGED <<owner, pc>>
    BY <1>7 DEF RejectTask
  <2> QED BY <2>1, <1>o, <1>t, <1>a DEF OwnerTypes
<1>8. CASE GetDiff
  BY <1>8, <1>k DEF GetDiff, db
<1>9. CASE Others
  BY <1>9, <1>k DEF Others, db
<1>10. CASE UNCHANGED vars
  BY <1>10, <1>k DEF vars
<1> QED BY <1>1, <1>2, <1>3, <1>4, <1>5, <1>6, <1>7, <1>8, <1>9, <1>10 DEF Next

LEMMA TypesAtInit == Init => TInv
<1> SUFFICES ASSUME Init PROVE TInv
  OBVIOUS
<1>1. {} \in Branch /\ {Base} \in Branch
  <2>1. runs \in Nat
    BY DEF Init
  <2>2. {} \in Branch /\ {} \cup {Base} \in Branch
    BY <2>1, CommitsMade, BranchesGrow
  <2>3. {} \cup {Base} = {Base}
    OBVIOUS
  <2> QED BY <2>2, <2>3
<1>2. GitTypes
  BY <1>1 DEF Init, GitTypes, NoClone, CloneOf
<1>3. RunTypes
  BY RepositoryWorkspaceAssumption DEF Init, RunTypes, NoClone, Process
<1>4. OwnerTypes
  <2>1. /\ Process = Worker \cup Approver /\ Nobody \notin Process /\ MaxRework \in Nat
        /\ Flow[1] \in {Flow[i] : i \in 1 .. Len(Flow)}
    BY RepositoryWorkspaceAssumption DEF Process
  <2>2. request \in Requests
    BY <2>1 DEF Init, Requests, Statuses
  <2> QED BY <2>1, <2>2 DEF Init, OwnerTypes
<1> QED BY <1>2, <1>3, <1>4 DEF TInv

LEMMA Types == Spec => []TInv
<1>1. TInv /\ [Next]_vars => TInv'
  BY GitStep, RunStep, OwnerStep DEF TInv
<1> QED BY <1>1, TypesAtInit, PTL DEF Spec

\* The model's TypeOK: a branch only ever has commits with the edits of runs that
\* were started, a process is only where its side of the protocol goes, and a
\* recorded run is one that edited.
THEOREM TypeCorrect == Spec => []TypeOK
<1>1. TInv => TypeOK
  <2> SUFFICES ASSUME TInv PROVE TypeOK
    OBVIOUS
  <2>1. request \in [status : Statuses, phase : 0 .. 5, round : 0 .. MaxRework]
    <3>1. \A i \in 1 .. Len(Flow) : Flow[i] \in 0 .. 5
      BY RepositoryWorkspaceAssumption
    <3> QED BY <3>1 DEF TInv, OwnerTypes, Requests
  <2>2. \A b \in {remote.main, remote.work, clone.main, clone.work,
                  clone.oMain, clone.oWork, audited} : b \in Branch
    BY DEF TInv, GitTypes, CloneOf
  <2>3. \A b \in Branch : \A c \in b : c.id \in Nat /\ c.edits \subseteq 1 .. runs
    BY DEF Branch, Made, Commits
  <2>4. clone.head \in {"main", "work"} /\ clone.there \in {"none", "partial", "ready"}
    BY DEF TInv, GitTypes, CloneOf
  <2>5. \A p \in Process : pc[p] \in {"idle"} \cup
          (IF p \in Worker
           THEN {"fetch", "checkout", "generate", "commit", "push", "record", "verdict"}
           ELSE {"target", "branch", "sync", "merge", "push_main", "delete_local",
                 "delete_remote", "approve"})
    BY DEF TInv, OwnerTypes, WorkerAt, ApproverAt, Process
  <2> QED BY <2>1, <2>2, <2>3, <2>4, <2>5 DEF TInv, OwnerTypes, RunTypes, TypeOK, Statuses
<1> QED BY <1>1, Types, PTL

-----------------------------------------------------------------------------
(* The request of git is the request of the lifecycle.                     *)

\* What RequestLifecycle sees of the row.
LEMMA StageOfStatus ==
  ASSUME request \in Requests
  PROVE  /\ request.status = "queued" => Lifecycle.stage = "working"
         /\ request.status = "waiting_approval" => Lifecycle.stage = "awaiting"
         /\ Lifecycle.phase = request.phase /\ Lifecycle.round = request.round
BY DEF Lifecycle, Requests, Statuses

\* A decision about a request, or an outcome of a phase, is a step of its lifecycle.
LEMMA OutcomeIsStep ==
  ASSUME request \in Requests, request' \in Requests,
         \/ request.status = "queued" /\ request' \in {Blocked, Stranded}
         \/ /\ request.status = "queued" /\ request.phase # 5
            /\ request' = [request EXCEPT !.phase = NextOf(request.phase)]
         \/ /\ request.status = "queued" /\ request.phase = 5
            /\ request' = [request EXCEPT !.status = "waiting_approval"]
         \/ /\ request.status = "queued" /\ request.phase = 5 /\ request.round < MaxRework
            /\ request' = [request EXCEPT !.phase = 4, !.round = @ + 1]
         \/ request.status = "waiting_approval" /\ request' = Blocked
         \/ /\ request.status = "waiting_approval"
            /\ request' = [request EXCEPT !.status = "succeeded"]
  PROVE  RL!Next
<1>e. \A x, y : [<<x>> EXCEPT ![1] = y] = <<y>>
  OBVIOUS
<1> DEFINE st == Lifecycle.stage
           ph == request.phase
           ro == request.round
<1>f. Lifecycle = [stage |-> st, phase |-> ph, round |-> ro]
  BY DEF Lifecycle
<1>m. ASSUME NEW from, NEW to, Lifecycle.stage = from,
             Lifecycle' = [stage |-> to, phase |-> request.phase, round |-> request.round]
      PROVE  RL!Move(1, from, to)
  <2>1. [Lifecycle EXCEPT !.stage = to] = Lifecycle'
    BY <1>f, <1>m
  <2>2. <<Lifecycle>>' = [<<Lifecycle>> EXCEPT ![1] = [<<Lifecycle>>[1] EXCEPT !.stage = to]]
    BY <1>e, <2>1
  <2> QED BY <2>2, <1>m DEF RL!Move
<1>1. CASE /\ request.status \in {"queued", "waiting_approval"} /\ request' = Blocked
  <2>1. Lifecycle' = [stage |-> "stopped", phase |-> request.phase, round |-> request.round]
    BY <1>1 DEF Lifecycle, Blocked, Requests
  <2>2. Lifecycle.stage \in {"working", "awaiting"}
    BY <1>1, StageOfStatus
  <2> QED BY <2>1, <2>2, <1>m DEF RL!Next, RL!Stop
<1>2. CASE request.status = "queued" /\ request' = Stranded
  <2>1. Lifecycle' = [stage |-> "stranded", phase |-> request.phase, round |-> request.round]
    BY <1>2 DEF Lifecycle, Stranded, Requests
  <2>2. Lifecycle.stage = "working"
    BY <1>2, StageOfStatus
  <2> QED BY <2>1, <2>2, <1>m DEF RL!Next, RL!Strand
<1>3. CASE /\ request.status = "queued" /\ request.phase # 5
           /\ request' = [request EXCEPT !.phase = NextOf(request.phase)]
  <2> DEFINE q == NextOf(request.phase)
  <2>1. request.phase \in {Flow[i] : i \in 1 .. Len(Flow)}
    BY DEF Requests
  <2>2. PICK i \in 1 .. Len(Flow) - 1 : Flow[i] = request.phase /\ q = Flow[i + 1]
    BY <2>1, <1>3, NextPhase
  <2>3. q \in 0 .. 5
    BY <2>2, RepositoryWorkspaceAssumption
  <2>4. Lifecycle.stage = "working" /\ Lifecycle.phase = request.phase
    BY <1>3, StageOfStatus
  <2>5. RL!Follows(request.phase, q)
    BY <2>2 DEF RL!Follows
  <2> HIDE DEF q
  <2>6. Lifecycle' = [stage |-> "working", phase |-> q, round |-> request.round]
    BY <1>3 DEF Lifecycle, Requests, q
  <2>7. [Lifecycle EXCEPT !.phase = q] = Lifecycle'
    BY <1>f, <2>4, <2>6
  <2>8. <<Lifecycle>>' = [<<Lifecycle>> EXCEPT ![1] = [<<Lifecycle>>[1] EXCEPT !.phase = q]]
    BY <1>e, <2>7
  <2>9. RL!Advance(1)
    BY <2>3, <2>4, <2>5, <2>8 DEF RL!Advance
  <2> QED BY <2>9 DEF RL!Next
<1>4. CASE /\ request.status = "queued" /\ request.phase = 5
           /\ request' = [request EXCEPT !.status = "waiting_approval"]
  <2>1. Lifecycle' = [stage |-> "awaiting", phase |-> request.phase, round |-> request.round]
    BY <1>4 DEF Lifecycle, Requests
  <2>2. Lifecycle.stage = "working" /\ Lifecycle.phase = 5
    BY <1>4, StageOfStatus
  <2> QED BY <2>1, <2>2, <1>m DEF RL!Next, RL!Pass
<1>5. CASE /\ request.status = "queued" /\ request.phase = 5 /\ request.round < MaxRework
           /\ request' = [request EXCEPT !.phase = 4, !.round = @ + 1]
  <2>1. Lifecycle' = [stage |-> "working", phase |-> 4, round |-> request.round + 1]
    BY <1>5 DEF Lifecycle, Requests
  <2>2. Lifecycle.stage = "working" /\ Lifecycle.phase = 5 /\ Lifecycle.round = request.round
    BY <1>5, StageOfStatus
  <2>3. <<Lifecycle>>' = [<<Lifecycle>> EXCEPT ![1] =
          [stage |-> "working", phase |-> 4, round |-> <<Lifecycle>>[1].round + 1]]
    BY <1>e, <2>1, <2>2
  <2>4. RL!Rework(1)
    BY <2>2, <2>3, <1>5 DEF RL!Rework
  <2> QED BY <2>4 DEF RL!Next
<1>6. CASE /\ request.status = "waiting_approval"
           /\ request' = [request EXCEPT !.status = "succeeded"]
  <2>1. Lifecycle' = [stage |-> "merged", phase |-> request.phase, round |-> request.round]
    BY <1>6 DEF Lifecycle, Requests
  <2>2. Lifecycle.stage = "awaiting"
    BY <1>6, StageOfStatus
  <2> QED BY <2>1, <2>2, <1>m DEF RL!Next, RL!Merge
<1> QED BY <1>1, <1>2, <1>3, <1>4, <1>5, <1>6

\* What git, the workers and the approvals do to a request is what its lifecycle
\* allows, whatever crashes, loses its connection or is pushed by others.
THEOREM GitFollowsLifecycle == Spec => StepsOfLifecycle
<1>1. TInv /\ TInv' /\ [Next]_vars => [RL!Next]_request
  <2> SUFFICES ASSUME TInv, TInv', [Next]_vars, request' # request PROVE RL!Next
    OBVIOUS
  <2>t. /\ request \in Requests /\ request' \in Requests
        /\ \A w \in Worker : owner = w => request.status = "queued"
        /\ \A a \in Approver : owner = a => request.status = "waiting_approval"
    BY DEF TInv, OwnerTypes
  <2>1. ASSUME NEW w \in Worker, RunPhase(w) PROVE RL!Next
    <3> HIDE DEF Blocked, Stranded
    <3>1. /\ owner = w
          /\ \/ request' \in {Blocked, Stranded}
             \/ request.phase # 5
                  /\ request' = [request EXCEPT !.phase = NextOf(request.phase)]
             \/ request.phase = 5
                  /\ request' = [request EXCEPT !.status = "waiting_approval"]
             \/ request.phase = 5 /\ request.round < MaxRework
                  /\ request' = [request EXCEPT !.phase = 4, !.round = @ + 1]
      BY <2>1, WorkerMoves
    <3>2. request.status = "queued"
      BY <3>1, <2>t
    <3> QED BY <3>1, <3>2, <2>t, OutcomeIsStep
  <2>2. ASSUME NEW a \in Approver, MergeAndCleanup(a) PROVE RL!Next
    <3>1. /\ owner = a
          /\ request' = Blocked \/ request' = [request EXCEPT !.status = "succeeded"]
      BY <2>2, ApproverMoves
    <3>2. request.status = "waiting_approval"
      BY <3>1, <2>t
    <3> QED BY <3>1, <3>2, <2>t, OutcomeIsStep
  <2>3. CASE RejectTask
    BY <2>3, <2>t, OutcomeIsStep DEF RejectTask
  <2>4. ASSUME NEW w \in Worker, LeasePhase(w) PROVE FALSE
    BY <2>4 DEF LeasePhase, db
  <2>5. ASSUME NEW a \in Approver, BeginApproval(a) PROVE FALSE
    BY <2>5 DEF BeginApproval, db
  <2>6. ASSUME NEW p \in Process, Crash(p) \/ LoseConnection(p) PROVE FALSE
    BY <2>6 DEF Crash, LoseConnection, db
  <2>7. CASE GetDiff \/ Others \/ UNCHANGED vars
    BY <2>7 DEF GetDiff, Others, db, vars
  <2> QED BY <2>1, <2>2, <2>3, <2>4, <2>5, <2>6, <2>7 DEF Next
<1> QED BY <1>1, Types, PTL DEF Spec, StepsOfLifecycle

-----------------------------------------------------------------------------
(* The work, step by step.                                                 *)

LEMMA WorkAtInit == Init => WorkInv
<1> SUFFICES ASSUME Init PROVE WorkInv
  OBVIOUS
<1>1. Turns
  BY RepositoryWorkspaceAssumption DEF Init, Turns, Process
<1>2. BeforeAudit
  BY DEF Init, BeforeAudit, NoClone, Base, Process
<1> QED BY <1>1, <1>2 DEF WorkInv, Init

\* A worker at work is the only process that is.
LEMMA WorkerAlone ==
  ASSUME TInv, WorkInv, NEW w \in Worker, pc[w] # "idle"
  PROVE  /\ owner = w /\ request.status = "queued" /\ audited = {}
         /\ BeforeAudit /\ AtWork(w)
         /\ \A p \in Process : p # w => pc[p] = "idle"
<1>1. owner = w
  BY DEF WorkInv, Turns
<1>2. request.status = "queued"
  BY <1>1 DEF TInv, OwnerTypes
<1>3. audited = {}
  BY <1>2 DEF WorkInv, Turns
<1>4. BeforeAudit /\ AtWork(w)
  BY <1>3 DEF WorkInv, BeforeAudit
<1>5. ASSUME NEW p \in Process, p # w PROVE pc[p] = "idle"
  BY <1>5, <1>1, <1>3 DEF Process, WorkInv, Turns
<1> QED BY <1>1, <1>2, <1>3, <1>4, <1>5

\* What a step of a worker that does not end in an approval has to keep.
LEMMA StillWorking ==
  ASSUME TInv, WorkInv, NEW w \in Worker, pc[w] # "idle", audited' = audited,
         \A p \in Process : p # w => pc'[p] = pc[p],
         pc'[w] # "idle" => owner' = owner /\ AtWork(w)',
         request'.status \notin {"waiting_approval", "succeeded"},
         \A c \in remote'.main \cup clone'.main \cup clone'.oMain : c.by \notin {"run", "merge"},
         \A c \in remote'.work \cup clone'.work \cup clone'.oWork : c.by # "merge",
         recorded' \subseteq EditsIn(remote'.work)
  PROVE  WorkInv'
<1>1. /\ owner = w /\ audited = {} /\ \A p \in Process : p # w => pc[p] = "idle"
      /\ Worker \subseteq Process /\ Approver \subseteq Process /\ Worker \cap Approver = {}
  BY WorkerAlone, RepositoryWorkspaceAssumption DEF Process
<1>2. Turns'
  BY <1>1 DEF Turns
<1>3. BeforeAudit'
  BY <1>1 DEF BeforeAudit, EditsIn
<1> QED BY <1>1, <1>2, <1>3 DEF WorkInv

\* From the LLM to the working branch of the remote, and to what the audit is given.
LEMMA WorkerWork ==
  ASSUME TInv, WorkInv, NEW w \in Worker, RunPhase(w)
  PROVE  WorkInv'
<1>t. /\ clone \in CloneOf(Branch, 1 .. runs) /\ remote \in [main : Branch, work : Branch]
      /\ request \in Requests /\ seen \in [Worker -> Branch] /\ run[w] \in Nat
      /\ pc \in [Process -> {"idle"} \cup WorkerAt \cup ApproverAt]
      /\ w \in Process /\ pc[w] # "idle"
  BY WorkerMoves DEF TInv, GitTypes, RunTypes, OwnerTypes, Process
<1>a. /\ owner = w /\ request.status = "queued" /\ audited = {}
      /\ BeforeAudit /\ AtWork(w)
      /\ \A p \in Process : p # w => pc[p] = "idle"
  BY <1>t, WorkerAlone
<1>b. /\ \A c \in remote.main \cup clone.main \cup clone.oMain : c.by \notin {"run", "merge"}
      /\ \A c \in remote.work \cup clone.work \cup clone.oWork : c.by # "merge"
      /\ recorded \subseteq EditsIn(remote.work)
  BY <1>a DEF BeforeAudit
<1>p. /\ \A p \in Process : p # w => pc'[p] = pc[p]
      /\ run' = run
      /\ pc'[w] # "idle" => owner' = owner /\ request' = request
  BY <1>t, WorkerMoves
<1>s. \A st \in Statuses : [request EXCEPT !.status = st].status = st
  BY <1>t DEF Requests
<1>1. CASE FetchRepository(w)
  <2>1. /\ clone'.main \in {{}, remote.main, clone.main} /\ clone'.work = clone.work
        /\ clone'.oMain = remote.main /\ clone'.oWork = remote.work
        /\ pc'[w] = "checkout" /\ pc[w] = "fetch"
        /\ UNCHANGED <<request, recorded, audited, remote, edited>>
    BY <1>1, <1>t DEF FetchRepository, Goto, db, rest, CloneOf
  <2>2. AtWork(w)'
    BY <2>1, <1>a, <1>b, <1>p DEF AtWork, Extends, ButForOthers
  <2> QED BY <2>1, <2>2, <1>t, <1>a, <1>b, <1>p, StillWorking
<1>2. CASE CheckoutWorkingBranch(w)
  <2>1. /\ pc[w] = "checkout" /\ pc'[w] = "generate"
        /\ UNCHANGED <<request, recorded, audited, remote, edited>>
    BY <1>2, <1>t, <1>a DEF CheckoutWorkingBranch, Continue, db, rest
  <2>2. /\ Extends(remote.work, clone.oWork) /\ recorded \subseteq EditsIn(clone.oWork)
        /\ remote.work # {} => clone.oWork # {}
    BY <2>1, <1>a DEF AtWork
  <2>3. /\ clone'.head = "work" /\ clone'.work # {}
        /\ \/ clone.oWork # {} /\ clone'.work = clone.oWork
           \/ clone.oWork = {} /\ clone'.work \in {clone.main, clone.oMain}
        /\ clone'.main \in {clone.main, clone.oMain} /\ clone'.oMain = clone.oMain
        /\ clone'.oWork = clone.oWork
    BY <1>2, <1>t DEF CheckoutWorkingBranch, CloneOf
  <2>4. /\ recorded \subseteq EditsIn(clone'.work) /\ ButForOthers(remote.work, clone'.work)
        /\ remote.work = {} \/ clone'.work \subseteq remote.work
    <3>1. CASE clone.oWork # {}
      BY <3>1, <2>2, <2>3 DEF Extends
    <3>2. CASE clone.oWork = {}
      <4>1. remote.work = {} /\ recorded = {}
        BY <3>2, <2>2 DEF EditsIn
      <4> QED BY <4>1 DEF ButForOthers
    <3> QED BY <3>1, <3>2
  <2>5. AtWork(w)'
    BY <2>1, <2>3, <2>4, <1>a, <1>p DEF AtWork
  <2>6. \A c \in clone'.work : c.by # "merge"
    BY <2>3, <1>b
  <2> QED BY <2>1, <2>3, <2>5, <2>6, <1>t, <1>a, <1>b, <1>p, StillWorking
<1>3. CASE Generate(w)
  <2>1. PICK edits \in BOOLEAN : Edit(w, edits)
    BY <1>3 DEF Generate
  <2>2. /\ pc[w] = "generate" /\ pc'[w] \in {"verdict", "commit"}
        /\ UNCHANGED <<request, recorded, audited, remote>>
    BY <1>3, <1>t, <1>a DEF Generate, Continue, Edit
  <2>3. /\ clone'.main = clone.main /\ clone'.work = clone.work /\ clone'.head = clone.head
        /\ clone'.oMain = clone.oMain /\ clone'.oWork = clone.oWork
        /\ seen'[w] = clone.work
        /\ \/ edited' = edited
           \/ run[w] \in clone'.dirty
    BY <2>1, <1>t DEF Edit, CloneOf
  <2>4. AtWork(w)'
    BY <2>2, <2>3, <1>a, <1>p DEF AtWork
  <2> QED BY <2>2, <2>3, <2>4, <1>t, <1>a, <1>b, <1>p, StillWorking
<1>4. CASE FailGeneration(w)
  <2>1. PICK edits \in BOOLEAN : Edit(w, edits)
    BY <1>4 DEF FailGeneration
  <2>2. /\ pc'[w] = "idle" /\ request' = Stranded
        /\ UNCHANGED <<recorded, audited, remote>>
    BY <1>4, <1>t, <1>a DEF FailGeneration, Commit, Stop, Edit
  <2>3. /\ clone'.main = clone.main /\ clone'.work = clone.work
        /\ clone'.oMain = clone.oMain /\ clone'.oWork = clone.oWork
    BY <2>1, <1>t DEF Edit, CloneOf
  <2>4. request'.status = "stranded"
    BY <2>2, <1>s DEF Stranded, Statuses
  <2> QED BY <2>2, <2>3, <2>4, <1>t, <1>a, <1>b, <1>p, StillWorking
<1>5. CASE CommitChanges(w)
  <2>1. /\ pc[w] = "commit" /\ pc'[w] = "push"
        /\ UNCHANGED <<request, recorded, audited, remote, edited, seen>>
    BY <1>5, <1>t, CommitMoves
  <2>2. /\ clone.head = "work" /\ clone.work # {}
        /\ recorded \subseteq EditsIn(clone.work) /\ ButForOthers(remote.work, clone.work)
        /\ run[w] \in edited => run[w] \in clone.dirty
    BY <2>1, <1>a DEF AtWork
  <2>3. /\ clone'.head = "work" /\ clone'.main = clone.main /\ clone'.oMain = clone.oMain
        /\ clone'.oWork = clone.oWork
        /\ clone'.work = clone.work \cup {Work(run[w], clone.dirty)}
    BY <1>5, <2>2, CommitTakes
  <2>4. run[w] \in edited => run[w] \in EditsIn(clone'.work)
    <3> DEFINE c == Work(run[w], clone.dirty)
    <3>1. c \in clone'.work /\ c.edits = clone.dirty
      BY <2>3 DEF Work
    <3> HIDE DEF c
    <3> QED BY <3>1, <2>2 DEF EditsIn
  <2>5. /\ recorded \subseteq EditsIn(clone'.work) /\ ButForOthers(remote.work, clone'.work)
        /\ clone'.work # {}
    BY <2>2, <2>3 DEF EditsIn, ButForOthers
  <2>6. AtWork(w)'
    BY <2>1, <2>2, <2>3, <2>4, <2>5, <1>p DEF AtWork
  <2>7. \A c \in clone'.work : c.by # "merge"
    BY <2>3, <1>b DEF Work
  <2> QED BY <2>1, <2>3, <2>6, <2>7, <1>t, <1>a, <1>b, <1>p, StillWorking
<1>6. CASE NoChanges(w)
  <2>1. /\ pc[w] = "commit" /\ pc'[w] = "record" /\ clone.dirty = {}
        /\ UNCHANGED <<request, recorded, audited, remote, clone, edited, seen>>
    BY <1>6, <1>t DEF NoChanges, Goto, db, git, rest
  <2>2. AtWork(w)'
    BY <2>1, <1>a, <1>p DEF AtWork
  <2> QED BY <2>1, <2>2, <1>t, <1>a, <1>b, <1>p, StillWorking
<1>7. CASE PushBranch(w)
  <2>1. /\ pc[w] = "push" /\ pc'[w] = "record"
        /\ remote.work \subseteq clone.work
        /\ remote'.work = clone.work /\ remote'.main = remote.main
        /\ clone'.main = clone.main /\ clone'.work = clone.work /\ clone'.head = clone.head
        /\ clone'.oMain = clone.oMain /\ clone'.oWork = clone.work
        /\ UNCHANGED <<request, recorded, audited, edited, seen>>
    BY <1>7, <1>t DEF PushBranch, FastForward, Goto, db, rest, CloneOf
  <2>2. AtWork(w)'
    BY <2>1, <1>a, <1>p DEF AtWork, ButForOthers
  <2>3. recorded' \subseteq EditsIn(remote'.work)
    BY <2>1, <1>a DEF AtWork
  <2> QED BY <2>1, <2>2, <2>3, <1>t, <1>a, <1>b, <1>p, StillWorking
<1>8. CASE PushBranchUnanswered(w)
  <2>1. /\ pc[w] = "push" /\ pc'[w] = "idle" /\ request' = Blocked
        /\ remote.work \subseteq clone.work
        /\ remote'.work = clone.work /\ remote'.main = remote.main
        /\ UNCHANGED <<recorded, audited, clone>>
    BY <1>8, <1>t, <1>a DEF PushBranchUnanswered, FastForward, Commit, Stop
  <2>2. request'.status = "blocked"
    BY <2>1, <1>s DEF Blocked, Statuses
  <2>3. recorded' \subseteq EditsIn(remote'.work)
    BY <2>1, <1>a DEF AtWork
  <2> QED BY <2>1, <2>2, <2>3, <1>t, <1>a, <1>b, <1>p, StillWorking
<1>9. CASE FailPhase(w)
  <2>1. /\ pc'[w] = "idle" /\ request' = Blocked
        /\ clone'.main = clone.main /\ clone'.work = clone.work
        /\ clone'.oMain = clone.oMain /\ clone'.oWork = clone.oWork
        /\ UNCHANGED <<recorded, audited, remote>>
    BY <1>9, <1>t, <1>a DEF FailPhase, Commit, Stop, CloneOf
  <2>2. request'.status = "blocked"
    BY <2>1, <1>s DEF Blocked, Statuses
  <2> QED BY <2>1, <2>2, <1>t, <1>a, <1>b, <1>p, StillWorking
<1>10. CASE RecordPhase(w)
  <2>1. /\ pc[w] = "record" /\ pc'[w] = "idle"
        /\ request' = [request EXCEPT !.phase = NextOf(@)]
        /\ recorded' = recorded \cup ({run[w]} \cap edited)
        /\ UNCHANGED <<audited, remote, clone>>
    BY <1>10, <1>t, <1>a DEF RecordPhase, Commit, Stop, git
  <2>2. request'.status = "queued"
    BY <2>1, <1>t, <1>a DEF Requests
  <2>3. recorded' \subseteq EditsIn(remote'.work)
    BY <2>1, <1>a, <1>b DEF AtWork
  <2> QED BY <2>1, <2>2, <2>3, <1>t, <1>a, <1>b, <1>p, StillWorking
<1>11. CASE Verdict(w)
  <2>0. /\ pc[w] = "verdict" /\ pc'[w] = "idle"
        /\ UNCHANGED <<recorded, remote, clone>>
    BY <1>11, <1>t, <1>a DEF Verdict, Commit, Stop, git
  <2>1. CASE /\ request' = [request EXCEPT !.status = "waiting_approval"]
             /\ audited' = seen[w]
    <3>1. /\ seen[w] = clone.work /\ clone.work # {} /\ recorded \subseteq EditsIn(clone.work)
          /\ remote.work = {} \/ Extends(remote.work, clone.work)
      BY <2>0, <1>a DEF AtWork, Extends
    <3>2. request'.status = "waiting_approval"
      BY <2>1, <1>s DEF Statuses
    <3>3. \A p \in Process : pc'[p] = "idle"
      BY <2>0, <1>a, <1>p
    <3>4. Turns'
      BY <2>1, <3>1, <3>2, <3>3 DEF Turns, Process
    <3>5. AfterAudit'
      <4>1. recorded' \subseteq EditsIn(audited') /\ (remote'.work = {} => recorded' = {})
        BY <2>0, <2>1, <3>1, <1>b DEF EditsIn
      <4>2. \A a \in Approver : AtMerge(a)'
        BY <3>3 DEF AtMerge, Process
      <4>3. OnlyAudited(clone.main)' /\ OnlyAudited(remote.main)'
        BY <2>0, <1>b DEF OnlyAudited
      <4>4. Extends(clone'.work, audited') /\ (remote'.work = {} \/ Extends(remote'.work, audited'))
        BY <2>0, <2>1, <3>1 DEF Extends, ButForOthers
      <4>5. \A c \in audited' : c.by # "merge"
        BY <2>1, <3>1, <1>b
      <4>6. clone'.work # {} /\ request'.status # "succeeded"
        BY <2>0, <3>1, <3>2
      <4> QED BY <4>1, <4>2, <4>3, <4>4, <4>5, <4>6 DEF AfterAudit
    <3> QED BY <3>1, <3>4, <3>5, <2>1 DEF WorkInv
  <2>2. CASE /\ audited' = audited
             /\ request' = [request EXCEPT !.phase = 4, !.round = @ + 1] \/ request' = Blocked
    <3>1. request'.status \in {"queued", "blocked"}
      BY <2>2, <1>s, <1>t, <1>a DEF Blocked, Statuses, Requests
    <3> QED BY <2>0, <2>2, <3>1, <1>t, <1>a, <1>b, <1>p, StillWorking
  <2> QED BY <2>1, <2>2, <1>11, <1>a DEF Verdict, Commit
<1> QED BY <1>1, <1>2, <1>3, <1>4, <1>5, <1>6, <1>7, <1>8, <1>9, <1>10, <1>11 DEF RunPhase

\* What a step that is not a worker's has to keep after the audit.
LEMMA StillAudited ==
  ASSUME TInv, WorkInv, audited # {}, audited' = audited, recorded' = recorded,
         \A w \in Worker : pc'[w] = pc[w],
         request'.status \notin {"queued", "stranded"},
         clone'.work = {} \/ Extends(clone'.work, audited),
         remote'.work = {} \/ Extends(remote'.work, audited),
         TargetStays /\ remote'.work = {} => recorded = {} \/ audited \subseteq remote'.main,
         clone'.work = {} => Merged',
         OnlyAudited(clone.main)', OnlyAudited(remote.main)',
         \A a \in Approver : AtMerge(a)',
         request'.status = "succeeded" => Merged' /\ remote'.work = {}
  PROVE  WorkInv'
<1>1. \A w \in Worker : pc[w] = "idle"
  BY WorkerAlone
<1>2. Turns'
  BY <1>1 DEF Turns
<1>3. AfterAudit'
  BY DEF AfterAudit, WorkInv, EditsIn, Extends, ButForOthers
<1> QED BY <1>2, <1>3 DEF WorkInv

\* A target ref and another one that only have what was audited make one that does.
LEMMA OnlyAuditedUnion ==
  ASSUME NEW b, NEW c, OnlyAudited(b), OnlyAudited(c)
  PROVE  OnlyAudited(b \cup c)
BY DEF OnlyAudited

\* Commits of others are in no branch when they do not push to the working branch.
LEMMA NoneByOthers ==
  ASSUME NEW b \in Branch, BranchIsOurs
  PROVE  /\ \A c \in b : c.by # "push_work"
         /\ \A d : ButForOthers(b, d) => b \subseteq d
BY RepositoryWorkspaceAssumption DEF Branch, Made, BranchIsOurs, ButForOthers

\* The merge of a working branch that was audited into a target ref that does not
\* have it brings nothing else, and is the first merge there.
LEMMA FirstMerge ==
  ASSUME NEW b, NEW work \in Branch, OnlyAudited(b), Extends(work, audited),
         ~(work \subseteq b), \A c \in audited : c.by # "merge"
  PROVE  OnlyAudited(b \cup work \cup {Merge(Cardinality(Merges(b)) + 1)})
<1> DEFINE m == Merge(Cardinality(Merges(b)) + 1)
<1>1. m.by = "merge"
  BY DEF Merge
<1>2. BranchIsOurs => m = Merge(1) /\ work = audited
  <2> SUFFICES ASSUME BranchIsOurs PROVE m = Merge(1) /\ work = audited
    OBVIOUS
  <2>1. work = audited
    BY NoneByOthers DEF Extends
  <2>2. Merges(b) = {}
    BY <2>1 DEF OnlyAudited, Merges
  <2>3. Cardinality(Merges(b)) = 0
    BY <2>2, FS_EmptySet
  <2> QED BY <2>1, <2>3
<1>3. \A c \in work : (c.by = "run" => c \in audited) /\ c.by # "merge"
  BY DEF Extends, ButForOthers
<1> HIDE DEF m
<1> QED BY <1>1, <1>2, <1>3 DEF OnlyAudited, m

\* From what was audited to the target ref of the remote, in any number of attempts.
LEMMA ApproverWork ==
  ASSUME TInv, WorkInv, NEW a \in Approver, MergeAndCleanup(a)
  PROVE  WorkInv'
<1>t. /\ clone \in CloneOf(Branch, 1 .. runs) /\ remote \in [main : Branch, work : Branch]
      /\ request \in Requests
      /\ pc \in [Process -> {"idle"} \cup WorkerAt \cup ApproverAt]
      /\ a \in Process /\ pc[a] # "idle"
      /\ Worker \subseteq Process /\ Approver \subseteq Process /\ a \notin Worker
  BY ApproverMoves, RepositoryWorkspaceAssumption DEF TInv, GitTypes, OwnerTypes, Process
<1>a. /\ audited # {} /\ AfterAudit /\ request.status \notin {"queued", "stranded"}
      /\ \A b \in Approver : AtMerge(b)
  BY <1>t DEF WorkInv, Turns, AfterAudit
<1>b. /\ \A c \in audited : c.by # "merge"
      /\ recorded \subseteq EditsIn(audited)
      /\ clone.work = {} \/ Extends(clone.work, audited)
      /\ remote.work = {} \/ Extends(remote.work, audited)
      /\ TargetStays /\ remote.work = {} => recorded = {} \/ audited \subseteq remote.main
      /\ clone.work = {} => Merged
      /\ OnlyAudited(clone.main) /\ OnlyAudited(remote.main)
      /\ request.status = "succeeded" => Merged /\ remote.work = {}
  BY <1>a DEF AfterAudit
<1>p. /\ audited' = audited /\ recorded' = recorded
      /\ \A p \in Process : p # a => pc'[p] = pc[p]
      /\ pc'[a] # "idle" => request' = request
      /\ \/ request' = request
         \/ request' = Blocked
         \/ request' = [request EXCEPT !.status = "succeeded"] /\ owner = a
  BY <1>t, ApproverMoves
<1>s. /\ Blocked.status = "blocked"
      /\ [request EXCEPT !.status = "succeeded"].status = "succeeded"
  BY <1>t DEF Requests, Blocked
<1>o. ASSUME clone'.main = clone.main PROVE OnlyAudited(clone.main)'
  BY <1>o, <1>b, <1>p DEF OnlyAudited
<1>r. ASSUME remote'.main = remote.main PROVE OnlyAudited(remote.main)'
  BY <1>r, <1>b, <1>p DEF OnlyAudited
\* What has reached the target ref stays there.
<1>g. ASSUME Merged, clone.main \subseteq clone'.main, remote.main \subseteq remote'.main
      PROVE  Merged'
  BY <1>g, <1>p DEF Merged
\* The other approving requests keep what they have.
<1>m. ASSUME clone.main \subseteq clone'.main, remote.main \subseteq remote'.main,
             clone'.head \in {clone.head, "main"} \/ audited \subseteq clone'.main,
             remote.work = {} => remote'.work = {}, AtMerge(a)'
      PROVE  \A b \in Approver : AtMerge(b)'
  <2> SUFFICES ASSUME NEW b \in Approver, b # a PROVE AtMerge(b)'
    BY <1>m
  <2>1. AtMerge(b) /\ pc'[b] = pc[b] /\ audited' = audited
    BY <1>a, <1>p, <1>t
  <2> QED BY <2>1, <1>m, <1>g DEF AtMerge
<1>i. ASSUME pc'[a] = "idle" PROVE AtMerge(a)'
  BY <1>i DEF AtMerge
\* Steps that change neither clone nor remote.
<1>k. ASSUME UNCHANGED git, AtMerge(a)', request' = request \/ request' = Blocked
      PROVE  WorkInv'
  <2>1. clone' = clone /\ remote' = remote
    BY <1>k DEF git
  <2>2. \A b \in Approver : AtMerge(b)'
    BY <2>1, <1>k, <1>m
  <2> QED BY <2>1, <2>2, <1>k, <1>a, <1>b, <1>g, <1>p, <1>o, <1>r, <1>s, <1>t, StillAudited
<1>1. CASE FindTarget(a)
  <2>1. /\ pc'[a] = "branch" /\ remote' = remote /\ request' = request
        /\ clone'.main = clone.main /\ clone'.work = clone.work /\ clone'.head = clone.head
    BY <1>1, <1>t DEF FindTarget, Goto, db, CloneOf
  <2>2. AtMerge(a)'
    BY <2>1 DEF AtMerge
  <2>3. \A b \in Approver : AtMerge(b)'
    BY <2>1, <2>2, <1>m
  <2> QED BY <2>1, <2>3, <1>a, <1>b, <1>g, <1>p, <1>o, <1>r, <1>t, StillAudited
<1>2. CASE AbandonApproval(a)
  <2>1. pc'[a] = "idle" /\ request' = request /\ UNCHANGED git
    BY <1>2, <1>t DEF AbandonApproval, Stop, db
  <2> QED BY <2>1, <1>i, <1>k
<1>3. CASE EnsureWorkingBranch(a)
  <2>1. /\ pc'[a] = "sync" /\ remote' = remote /\ request' = request
        /\ clone'.main = clone.main
        /\ \/ clone'.work = clone.work /\ clone'.head = clone.head
           \/ clone.work = {} /\ remote.work # {} /\ clone'.work = remote.work
    BY <1>3, <1>t DEF EnsureWorkingBranch, Goto, db, CloneOf
  <2>2. AtMerge(a)'
    BY <2>1 DEF AtMerge
  <2>3. \A b \in Approver : AtMerge(b)'
    BY <2>1, <2>2, <1>b, <1>m DEF Merged
  <2> QED BY <2>1, <2>3, <1>a, <1>b, <1>g, <1>p, <1>o, <1>r, <1>t, StillAudited
<1>4. CASE SyncTarget(a)
  <2>1. /\ pc'[a] = "merge" /\ remote' = remote /\ request' = request
        /\ clone'.main = clone.main \cup remote.main
        /\ clone'.work = clone.work /\ clone'.head = "main"
    BY <1>4, <1>t DEF SyncTarget, Goto, db, CloneOf
  <2>2. AtMerge(a)'
    BY <2>1 DEF AtMerge
  <2>3. \A b \in Approver : AtMerge(b)'
    BY <2>1, <2>2, <1>m
  <2>4. OnlyAudited(clone.main)'
    <3>1. OnlyAudited(clone.main \cup remote.main)
      BY <1>b, OnlyAuditedUnion
    <3> QED BY <3>1, <2>1, <1>p DEF OnlyAudited
  <2> QED BY <2>1, <2>3, <2>4, <1>a, <1>b, <1>g, <1>p, <1>r, <1>t, StillAudited
<1>5. CASE MergeBranch(a)
  <2> DEFINE target == clone[clone.head]
             x == IF clone.work \subseteq target THEN target
                  ELSE target \cup clone.work \cup {Merge(Cardinality(Merges(target)) + 1)}
  <2>1. /\ pc[a] = "merge" /\ clone.work # {} /\ clone' = [clone EXCEPT ![clone.head] = x]
        /\ pc'[a] = "push_main" /\ remote' = remote /\ request' = request
    BY <1>5, <1>t DEF MergeBranch, Goto, db
  <2>2. /\ Extends(clone.work, audited) /\ audited \subseteq clone.work
        /\ clone.head = "main" \/ audited \subseteq clone.main
    BY <2>1, <1>a, <1>b DEF AtMerge, Extends
  <2>3. /\ clone'.work = clone.work /\ clone'.head = clone.head
        /\ clone.main \subseteq clone'.main /\ audited \subseteq clone'.main
        /\ OnlyAudited(clone'.main)
    <3>1. CASE clone.head = "main"
      <4>1. clone'.work = clone.work /\ clone'.head = clone.head /\ clone'.main = x
        <5> HIDE DEF x
        <5> QED BY <2>1, <3>1, <1>t DEF CloneOf
      <4>2. CASE clone.work \subseteq clone.main
        BY <4>1, <4>2, <3>1, <2>2, <1>b
      <4>3. CASE ~(clone.work \subseteq clone.main)
        <5>1. x = clone.main \cup clone.work \cup {Merge(Cardinality(Merges(clone.main)) + 1)}
          BY <4>3, <3>1
        <5>2. OnlyAudited(x)
          BY <5>1, <4>3, <2>2, <1>b, <1>t, FirstMerge DEF CloneOf
        <5> QED BY <4>1, <5>1, <5>2, <2>2
      <4> QED BY <4>2, <4>3
    <3>2. CASE clone.head = "work"
      <4>1. x = clone.work
        BY <3>2
      <4>2. clone'.work = clone.work /\ clone'.head = clone.head /\ clone'.main = clone.main
        <5> HIDE DEF x
        <5> QED BY <4>1, <2>1, <3>2, <1>t DEF CloneOf
      <4> QED BY <4>2, <3>2, <2>2, <1>b
    <3> QED BY <3>1, <3>2, <1>t DEF CloneOf
  <2>4. OnlyAudited(clone.main)'
    BY <2>3, <1>p DEF OnlyAudited
  <2>5. AtMerge(a)'
    BY <2>1, <2>3, <1>p DEF AtMerge
  <2> HIDE DEF x, target
  <2>6. \A b \in Approver : AtMerge(b)'
    BY <2>1, <2>3, <2>5, <1>m
  <2> QED BY <2>1, <2>3, <2>4, <2>6, <1>a, <1>b, <1>g, <1>p, <1>r, <1>t, StillAudited
<1>6. CASE MergeConflict(a)
  <2>1. /\ pc'[a] = "idle" /\ remote' = remote /\ request' \in {request, Blocked}
        /\ clone'.main = clone.main /\ clone'.work = clone.work /\ clone'.head = clone.head
    BY <1>6, <1>t DEF MergeConflict, Commit, Stop, CloneOf
  <2>3. \A b \in Approver : AtMerge(b)'
    BY <2>1, <1>i, <1>m
  <2> QED BY <2>1, <2>3, <1>a, <1>b, <1>g, <1>p, <1>s, <1>o, <1>r, <1>t, StillAudited
<1>7. CASE PushTarget(a)
  <2>1. /\ pc[a] = "push_main" /\ pc'[a] = "delete_local" /\ request' = request
        /\ remote.main \subseteq clone.main
        /\ remote'.main = clone.main /\ remote'.work = remote.work
        /\ clone'.main = clone.main /\ clone'.work = clone.work /\ clone'.head = clone.head
    BY <1>7, <1>t DEF PushTarget, FastForward, Goto, db, CloneOf
  <2>2. Merged'
    BY <2>1, <1>a, <1>p DEF AtMerge, Merged
  <2>3. AtMerge(a)'
    BY <2>1, <2>2, <1>p DEF AtMerge
  <2>4. \A b \in Approver : AtMerge(b)'
    BY <2>1, <2>3, <1>m
  <2>5. OnlyAudited(remote.main)'
    BY <2>1, <1>b, <1>p DEF OnlyAudited
  <2> QED BY <2>1, <2>2, <2>4, <2>5, <1>a, <1>b, <1>g, <1>p, <1>o, <1>t, StillAudited
<1>8. CASE PushUnanswered(a)
  <2>1. /\ pc'[a] = "idle" /\ clone' = clone /\ request' \in {request, Blocked}
        /\ \/ /\ pc[a] = "push_main" /\ remote.main \subseteq clone.main
              /\ remote'.main = clone.main /\ remote'.work = remote.work
           \/ /\ pc[a] = "delete_remote"
              /\ remote'.main = remote.main /\ remote'.work = {}
    BY <1>8, <1>t DEF PushUnanswered, FastForward, Commit, Stop
  <2>2. pc[a] = "push_main" \/ Merged'
    BY <2>1, <1>a, <1>p DEF AtMerge, Merged
  <2>3. \A b \in Approver : AtMerge(b)'
    BY <2>1, <1>i, <1>m
  <2>4. OnlyAudited(remote.main)'
    BY <2>1, <1>b, <1>p DEF OnlyAudited
  <2>5. remote.main \subseteq remote'.main /\ clone'.main = clone.main /\ clone'.work = clone.work
    BY <2>1
  <2>6. clone'.work = {} => Merged'
    BY <2>5, <1>b, <1>g
  <2>7. remote'.work = {} \/ Extends(remote'.work, audited)
    BY <2>1, <1>b
  <2>8. TargetStays /\ remote'.work = {} => recorded = {} \/ audited \subseteq remote'.main
    BY <2>1, <2>2, <1>b, <1>p DEF Merged
  <2>9. /\ request'.status \notin {"queued", "stranded"}
        /\ request'.status = "succeeded" => Merged' /\ remote'.work = {}
    BY <2>1, <2>5, <1>a, <1>b, <1>g, <1>s
  <2> QED BY <2>3, <2>4, <2>5, <2>6, <2>7, <2>8, <2>9, <1>a, <1>b, <1>p, <1>o, <1>t, StillAudited
<1>9. CASE DeleteLocalBranch(a)
  <2>1. /\ pc[a] = "delete_local" /\ pc'[a] = "delete_remote"
        /\ remote' = remote /\ request' = request
        /\ clone'.main = clone.main /\ clone'.work = {} /\ clone'.head = clone.head
    BY <1>9, <1>t DEF DeleteLocalBranch, Goto, db, CloneOf
  <2>2. Merged'
    BY <2>1, <1>a, <1>p DEF AtMerge, Merged
  <2>3. AtMerge(a)'
    BY <2>1, <2>2, <1>p DEF AtMerge
  <2>4. \A b \in Approver : AtMerge(b)'
    BY <2>1, <2>3, <1>m
  <2> QED BY <2>1, <2>2, <2>4, <1>a, <1>b, <1>g, <1>p, <1>o, <1>r, <1>t, StillAudited
<1>10. CASE DeleteRemoteBranch(a)
  <2>1. /\ pc[a] = "delete_remote" /\ pc'[a] = "approve" /\ request' = request
        /\ remote'.main = remote.main /\ remote'.work = {}
        /\ clone'.main = clone.main /\ clone'.work = clone.work /\ clone'.head = clone.head
    BY <1>10, <1>t DEF DeleteRemoteBranch, Goto, db, CloneOf
  <2>2. Merged'
    BY <2>1, <1>a, <1>p DEF AtMerge, Merged
  <2>3. AtMerge(a)'
    BY <2>1, <2>2, <1>p DEF AtMerge
  <2>4. \A b \in Approver : AtMerge(b)'
    BY <2>1, <2>3, <1>m
  <2>5. TargetStays /\ remote'.work = {} => recorded = {} \/ audited \subseteq remote'.main
    BY <2>2, <1>p DEF Merged
  <2> QED BY <2>1, <2>2, <2>4, <2>5, <1>a, <1>b, <1>p, <1>o, <1>r, <1>t, StillAudited
<1>11. CASE FailApproval(a)
  <2>1. pc'[a] = "idle" /\ request' \in {request, Blocked} /\ UNCHANGED git
    BY <1>11, <1>t DEF FailApproval, Commit, Stop
  <2> QED BY <2>1, <1>i, <1>k
<1>12. CASE ApproveTask(a)
  <2>1. /\ pc[a] = "approve" /\ pc'[a] = "idle" /\ clone' = clone /\ remote' = remote
        /\ request' \in {request, [request EXCEPT !.status = "succeeded"]}
    BY <1>12, <1>t DEF ApproveTask, Commit, Stop, git
  <2>2. Merged' /\ remote'.work = {}
    BY <2>1, <1>a, <1>p DEF AtMerge, Merged
  <2>3. \A b \in Approver : AtMerge(b)'
    BY <2>1, <1>i, <1>m
  <2> QED BY <2>1, <2>2, <2>3, <1>a, <1>b, <1>g, <1>p, <1>s, <1>o, <1>r, <1>t, StillAudited
<1> QED BY <1>1, <1>2, <1>3, <1>4, <1>5, <1>6, <1>7, <1>8, <1>9, <1>10, <1>11, <1>12
   DEF MergeAndCleanup

\* The other steps: leases, approvals that begin, faults, and what others do.
LEMMA WorkStep ==
  ASSUME SteadyWorkers, TInv, WorkInv, [Next]_vars
  PROVE  WorkInv'
<1>t. /\ clone \in CloneOf(Branch, 1 .. runs) /\ remote \in [main : Branch, work : Branch]
      /\ request \in Requests /\ runs \in Nat /\ edited \subseteq 1 .. runs
      /\ run \in [Worker -> 0 .. runs] /\ outside \subseteq Outside
      /\ pc \in [Process -> {"idle"} \cup WorkerAt \cup ApproverAt]
      /\ \A a \in Approver : owner = a => request.status = "waiting_approval"
  BY DEF TInv, GitTypes, RunTypes, OwnerTypes
<1>c. /\ Worker \subseteq Process /\ Approver \subseteq Process /\ Worker \cap Approver = {}
      /\ Process = Worker \cup Approver /\ Nobody \notin Process
  BY RepositoryWorkspaceAssumption DEF Process
<1>w. /\ \A w \in Worker : pc[w] # "idle" => owner = w
      /\ \A a \in Approver : pc[a] # "idle" => audited # {}
      /\ request.status \in {"waiting_approval", "succeeded"} => audited # {}
      /\ audited # {} => request.status \notin {"queued", "stranded"}
      /\ audited = {} => BeforeAudit
      /\ audited # {} => AfterAudit
  BY DEF WorkInv, Turns
<1>b. BeforeAudit =>
        /\ \A c \in remote.main \cup clone.main \cup clone.oMain : c.by \notin {"run", "merge"}
        /\ \A c \in remote.work \cup clone.work \cup clone.oWork : c.by # "merge"
        /\ recorded \subseteq EditsIn(remote.work)
        /\ \A w \in Worker : pc[w] # "idle" => AtWork(w)
  BY DEF BeforeAudit
\* Steps that leave the commits where they are.
<1>k. ASSUME UNCHANGED <<remote, recorded, audited, run, edited, seen>>,
             clone' = clone \/ clone' = [clone EXCEPT !.there = "partial"],
             \A p \in Process : pc'[p] \in {pc[p], "idle", "target"},
             Turns', request'.status \in {request.status, "blocked"}
      PROVE  WorkInv'
  <2>1. /\ clone'.main = clone.main /\ clone'.work = clone.work /\ clone'.head = clone.head
        /\ clone'.oMain = clone.oMain /\ clone'.oWork = clone.oWork
        /\ clone'.dirty = clone.dirty
    BY <1>k, <1>t DEF CloneOf
  <2>2. ASSUME BeforeAudit, audited = {} PROVE BeforeAudit'
    <3>1. ASSUME NEW w \in Worker, pc'[w] # "idle" PROVE AtWork(w)'
      <4>1. pc'[w] = "target" \/ pc'[w] = pc[w]
        BY <3>1, <1>k, <1>c
      <4>2. CASE pc'[w] = pc[w]
        BY <4>2, <3>1, <2>1, <2>2, <1>b, <1>k DEF AtWork
      <4>3. CASE pc'[w] = "target"
        BY <4>3 DEF AtWork
      <4> QED BY <4>1, <4>2, <4>3
    <3> QED BY <3>1, <2>1, <2>2, <1>b, <1>k DEF BeforeAudit
  <2>3. ASSUME AfterAudit PROVE AfterAudit'
    <3>1. ASSUME NEW a \in Approver PROVE AtMerge(a)'
      <4>1. pc'[a] \in {pc[a], "idle", "target"}
        BY <1>k, <1>c
      <4> QED BY <4>1, <2>1, <2>3, <1>k DEF AfterAudit, AtMerge, Merged
    <3> QED BY <3>1, <2>1, <2>3, <1>k DEF AfterAudit, OnlyAudited, EditsIn, Merged, Extends,
               ButForOthers
  <2> QED BY <2>2, <2>3, <1>k, <1>w DEF WorkInv
<1>1. ASSUME NEW w \in Worker, LeasePhase(w) PROVE WorkInv'
  <2>1. /\ pc[w] = "idle" /\ request.status = "queued" /\ owner = Nobody /\ owner' = w
        /\ pc' = [pc EXCEPT ![w] = "fetch"] /\ run' = [run EXCEPT ![w] = runs + 1]
        /\ UNCHANGED <<request, recorded, audited, remote, clone, edited, seen>>
    BY <1>1 DEF LeasePhase, db, git
  <2>2. /\ audited = {} /\ BeforeAudit /\ \A p \in Process : pc[p] = "idle"
    BY <2>1, <1>w, <1>c
  <2>3. /\ pc'[w] = "fetch" /\ \A p \in Process : p # w => pc'[p] = "idle"
        /\ run'[w] \notin edited
    BY <2>1, <2>2, <1>t, <1>c
  <2>4. AtWork(w)'
    BY <2>1, <2>3 DEF AtWork
  <2>5. Turns'
    BY <2>1, <2>2, <2>3, <1>c DEF Turns
  <2>6. BeforeAudit'
    BY <2>1, <2>2, <2>3, <2>4, <1>b, <1>c DEF BeforeAudit, EditsIn
  <2> QED BY <2>1, <2>2, <2>5, <2>6 DEF WorkInv
<1>2. ASSUME NEW a \in Approver, BeginApproval(a) PROVE WorkInv'
  <2>1. /\ request.status = "waiting_approval" /\ owner = Nobody /\ owner' = a
        /\ pc' = [pc EXCEPT ![a] = "target"]
        /\ UNCHANGED <<request, recorded, audited, remote, clone, run, edited, seen>>
    BY <1>2 DEF BeginApproval, db, git, rest
  <2>2. audited # {} /\ \A w \in Worker : pc[w] = "idle"
    BY <2>1, <1>w, <1>c
  <2>3. \A p \in Process : pc'[p] \in {pc[p], "idle", "target"} /\ (p # a => pc'[p] = pc[p])
    BY <2>1, <1>t, <1>c
  <2>4. Turns'
    BY <2>1, <2>2, <2>3, <1>w, <1>c DEF Turns
  <2> QED BY <2>1, <2>3, <2>4, <1>k
<1>3. ASSUME NEW p \in Process, Crash(p) PROVE WorkInv'
  <2>1. /\ owner' = IF owner = p THEN Nobody ELSE owner
        /\ pc' = [pc EXCEPT ![p] = "idle"]
        /\ clone' = clone \/ clone' = [clone EXCEPT !.there = "partial"]
        /\ UNCHANGED <<request, recorded, audited, remote, run, edited, seen>>
    BY <1>3 DEF Crash, Stop, db
  <2>2. /\ \A q \in Process : q # p => pc'[q] = pc[q]
        /\ pc'[p] = "idle"
    BY <2>1, <1>t, <1>c
  <2>3. Turns'
    BY <2>1, <2>2, <1>w, <1>c DEF Turns
  <2> QED BY <2>1, <2>2, <2>3, <1>k
<1>4. ASSUME NEW p \in Process, LoseConnection(p) PROVE WorkInv'
  <2>1. /\ p \in Fragile /\ owner = p /\ owner' = Nobody
        /\ UNCHANGED <<request, recorded, audited, remote, clone, pc, run, edited, seen>>
    BY <1>4 DEF LoseConnection, db, git
  <2>2. p \in Approver
    BY <2>1, <1>c DEF SteadyWorkers
  <2>3. \A w \in Worker : pc[w] = "idle"
    BY <2>1, <2>2, <1>w, <1>c
  <2>4. Turns'
    BY <2>1, <2>3, <1>w, <1>c DEF Turns
  <2> QED BY <2>1, <2>4, <1>k
<1>5. CASE RejectTask
  <2>1. /\ request.status = "waiting_approval" /\ request' = Blocked
        /\ UNCHANGED <<owner, recorded, audited, remote, clone, pc, run, edited, seen>>
    BY <1>5 DEF RejectTask, git, rest
  <2>2. request'.status = "blocked"
    BY <2>1, <1>t DEF Blocked, Requests
  <2>3. Turns'
    BY <2>1, <2>2, <1>w DEF Turns
  <2> QED BY <2>1, <2>2, <2>3, <1>k
<1>6. CASE GetDiff
  <2>1. /\ clone'.oMain = remote.main /\ clone'.oWork \in {remote.work, clone.oWork}
        /\ clone'.main = clone.main /\ clone'.work = clone.work /\ clone'.head = clone.head
        /\ clone'.dirty = clone.dirty
        /\ UNCHANGED <<request, owner, recorded, audited, remote, pc, run, edited, seen>>
    BY <1>6, <1>t DEF GetDiff, db, rest, CloneOf
  <2>2. Turns'
    BY <2>1, <1>w DEF Turns
  <2>3. ASSUME BeforeAudit PROVE BeforeAudit'
    <3>1. ASSUME NEW w \in Worker, pc[w] # "idle" PROVE AtWork(w)'
      BY <3>1, <2>1, <2>3, <1>b DEF AtWork, Extends, ButForOthers
    <3> QED BY <3>1, <2>1, <2>3, <1>b DEF BeforeAudit
  <2>4. ASSUME AfterAudit PROVE AfterAudit'
    BY <2>4, <2>1 DEF AfterAudit, AtMerge, OnlyAudited, Merged, Extends, ButForOthers
  <2> QED BY <2>1, <2>2, <2>3, <2>4, <1>w DEF WorkInv
<1>7. CASE Others
  <2>1. PICK what \in outside :
          /\ \/ /\ what = "push_main"
                /\ remote' = [remote EXCEPT !.main = @ \cup {Other(what)}]
             \/ /\ what = "push_work" /\ remote.work # {}
                /\ remote' = [remote EXCEPT !.work = @ \cup {Other(what)}]
             \/ what = "drop_main" /\ remote' = [remote EXCEPT !.main = {}]
          /\ UNCHANGED <<db, owner, clone, pc, run, seen, edited>>
    BY <1>7 DEF Others
  <2>2. UNCHANGED <<request, owner, recorded, audited, clone, pc, run, edited, seen>>
    BY <2>1 DEF db
  <2> DEFINE c == Other(what)
  <2>3. /\ \/ /\ c.by = "push_main" /\ remote'.main = remote.main \cup {c}
              /\ remote'.work = remote.work
           \/ ~TargetStays /\ remote'.main = {} /\ remote'.work = remote.work
           \/ /\ c.by = "push_work" /\ remote.work # {} /\ remote'.main = remote.main
              /\ remote'.work = remote.work \cup {c}
    BY <2>1, <1>t DEF Other, TargetStays
  <2>4. Turns'
    BY <2>2, <1>w DEF Turns
  <2> HIDE DEF c
  <2>5. ASSUME BeforeAudit PROVE BeforeAudit'
    <3>1. ASSUME NEW w \in Worker, pc[w] # "idle" PROVE AtWork(w)'
      BY <3>1, <2>2, <2>3, <2>5, <1>b DEF AtWork, Extends, ButForOthers, EditsIn
    <3>2. recorded' \subseteq EditsIn(remote'.work)
      BY <2>2, <2>3, <2>5, <1>b DEF EditsIn
    <3> QED BY <3>1, <3>2, <2>2, <2>3, <2>5, <1>b DEF BeforeAudit
  <2>6. ASSUME AfterAudit PROVE AfterAudit'
    <3>1. OnlyAudited(clone.main)' /\ OnlyAudited(remote.main)'
      BY <2>6, <2>2, <2>3 DEF AfterAudit, OnlyAudited
    <3>2. Merged => Merged'
      BY <2>2, <2>3 DEF Merged
    <3>3. \A a \in Approver : AtMerge(a)'
      BY <2>6, <3>2, <2>2, <2>3 DEF AfterAudit, AtMerge
    <3>4. remote'.work = {} \/ Extends(remote'.work, audited')
      BY <2>6, <2>2, <2>3 DEF AfterAudit, Extends, ButForOthers
    <3> QED BY <3>1, <3>2, <3>3, <3>4, <2>6, <2>2, <2>3 DEF AfterAudit
  <2> QED BY <2>2, <2>4, <2>5, <2>6, <1>w DEF WorkInv
<1>8. CASE UNCHANGED vars
  <2>1. UNCHANGED <<request, owner, recorded, audited, remote, clone, pc, run, edited, seen>>
    BY <1>8 DEF vars
  <2>2. Turns'
    BY <2>1, <1>w DEF Turns
  <2> QED BY <2>1, <2>2, <1>k
<1> QED BY <1>1, <1>2, <1>3, <1>4, <1>5, <1>6, <1>7, <1>8, WorkerWork, ApproverWork DEF Next

LEMMA WorkInvariant ==
  ASSUME SteadyWorkers
  PROVE  Spec => [](TInv /\ WorkInv)
<1>1. Init => TInv /\ WorkInv
  BY TypesAtInit, WorkAtInit
<1>2. TInv /\ WorkInv /\ [Next]_vars => TInv' /\ WorkInv'
  BY GitStep, RunStep, OwnerStep, WorkStep DEF TInv
<1> QED BY <1>1, <1>2, PTL DEF Spec

-----------------------------------------------------------------------------
(* What that promises.                                                     *)

\* Whatever is committed as a succeeded phase has its edits on the remote, on the
\* working branch or on the target ref: commit_and_push comes before the
\* transaction's commit, a phase starts from the branch of the remote, and an
\* approval removes that branch only after its merge is on the remote.  Others may
\* push to either branch.
THEOREM RecordedWorkIsOnRemote ==
  ASSUME SteadyWorkers, TargetStays
  PROVE  Spec => []RecordedWorkOnRemote
<1>1. WorkInv => RecordedWorkOnRemote
  <2> SUFFICES ASSUME WorkInv PROVE RecordedWorkOnRemote
    OBVIOUS
  <2>1. EditsIn(remote.main) \cup EditsIn(remote.work) \subseteq EditsIn(remote.main \cup remote.work)
    BY DEF EditsIn
  <2>2. CASE audited = {}
    BY <2>1, <2>2 DEF WorkInv, BeforeAudit, RecordedWorkOnRemote
  <2>3. CASE audited # {}
    <3>1. /\ recorded \subseteq EditsIn(audited)
          /\ recorded = {} \/ audited \subseteq remote.work \/ audited \subseteq remote.main
      BY <2>3 DEF WorkInv, AfterAudit, Extends
    <3>2. \A b : audited \subseteq b => EditsIn(audited) \subseteq EditsIn(b)
      BY DEF EditsIn
    <3> QED BY <2>1, <3>1, <3>2 DEF RecordedWorkOnRemote
  <2> QED BY <2>2, <2>3
<1> QED BY <1>1, WorkInvariant, PTL

\* A worker with its row is never rejected by the remote while nobody else pushes to
\* the working branch: what it pushes starts from the branch the remote has,
\* whichever attempts failed before.
THEOREM PushesAreFastForward ==
  ASSUME SteadyWorkers, BranchIsOurs
  PROVE  Spec => []PushIsFastForward
<1>1. TInv /\ WorkInv => PushIsFastForward
  <2> SUFFICES ASSUME TInv, WorkInv, NEW w \in Worker, pc[w] = "push"
               PROVE  FastForward(remote.work, clone.work)
    BY DEF PushIsFastForward
  <2>1. AtWork(w)
    BY WorkerAlone
  <2>2. remote.work \in Branch
    BY DEF TInv, GitTypes
  <2> QED BY <2>1, <2>2, NoneByOthers DEF AtWork, FastForward
<1> QED BY <1>1, WorkInvariant, PTL

\* Of the runs, only what the approving audit was given gets to the target ref,
\* however often an approval is cut off and sent again, and whatever others push
\* or delete.
THEOREM OnlyAuditedIsMerged ==
  ASSUME SteadyWorkers
  PROVE  Spec => []MergedIsAudited
<1>1. WorkInv => MergedIsAudited
  BY DEF WorkInv, BeforeAudit, AfterAudit, OnlyAudited, MergedIsAudited
<1> QED BY <1>1, WorkInvariant, PTL

\* A request the database has succeeded is merged on the remote and its branch gone,
\* also when others pushed to that branch before.
THEOREM SucceededIsMerged ==
  ASSUME SteadyWorkers, TargetStays
  PROVE  Spec => []SucceededMeansMerged
<1>1. WorkInv => SucceededMeansMerged
  BY DEF WorkInv, Turns, AfterAudit, Merged, SucceededMeansMerged
<1> QED BY <1>1, WorkInvariant, PTL

\* Approvals that are repeated, or go on beside one another after a broken
\* connection, make one merge commit at most while nobody else pushes to the
\* working branch: there is nothing to merge the second time.
THEOREM OneMerge ==
  ASSUME SteadyWorkers, BranchIsOurs
  PROVE  Spec => []MergedOnce
<1>1. WorkInv => MergedOnce
  <2> SUFFICES ASSUME WorkInv PROVE MergedOnce
    OBVIOUS
  <2>1. Merges(remote.main) \subseteq {Merge(1)}
    BY DEF WorkInv, BeforeAudit, AfterAudit, OnlyAudited, Merges
  <2>2. IsFiniteSet({Merge(1)}) /\ Cardinality({Merge(1)}) = 1
    BY FS_Singleton
  <2>3. /\ Cardinality(Merges(remote.main)) =< Cardinality({Merge(1)})
        /\ IsFiniteSet(Merges(remote.main))
    BY <2>1, <2>2, FS_Subset
  <2> QED BY <2>2, <2>3 DEF MergedOnce
<1> QED BY <1>1, WorkInvariant, PTL

\* The steps that take the working branch from the remote.
LEMMA BranchRemoved ==
  ASSUME TInv, WorkInv, [Next]_vars, remote.work # {}, remote'.work = {}
  PROVE  \E a \in Approver : pc[a] = "delete_remote" /\ remote'.main = remote.main
<1>t. remote \in [main : Branch, work : Branch]
  BY DEF TInv, GitTypes
<1>1. ASSUME NEW w \in Worker, LeasePhase(w) PROVE FALSE
  BY <1>1 DEF LeasePhase, git
<1>2. ASSUME NEW w \in Worker, RunPhase(w) PROVE FALSE
  <2>1. CASE CommitChanges(w)
    BY <2>1, CommitMoves
  <2>2. CASE PushBranch(w) \/ PushBranchUnanswered(w)
    BY <2>2, <1>t DEF PushBranch, PushBranchUnanswered, FastForward
  <2>3. CASE FetchRepository(w) \/ CheckoutWorkingBranch(w)
    <3>1. remote' = remote
      <4>1. CASE FetchRepository(w)
        BY <4>1 DEF FetchRepository
      <4>2. CASE CheckoutWorkingBranch(w)
        BY <4>2 DEF CheckoutWorkingBranch
      <4> QED BY <2>3, <4>1, <4>2
    <3> QED BY <3>1
  <2>4. CASE Generate(w) \/ FailGeneration(w)
    BY <2>4 DEF Generate, FailGeneration, Edit
  <2>5. CASE NoChanges(w) \/ FailPhase(w) \/ RecordPhase(w) \/ Verdict(w)
    BY <2>5 DEF NoChanges, FailPhase, RecordPhase, Verdict, git
  <2> QED BY <1>2, <2>1, <2>2, <2>3, <2>4, <2>5 DEF RunPhase
<1>3. ASSUME NEW a \in Approver, MergeAndCleanup(a)
      PROVE  pc[a] = "delete_remote" /\ remote'.main = remote.main
  <2>1. CASE DeleteRemoteBranch(a) \/ PushUnanswered(a)
    BY <2>1, <1>t DEF DeleteRemoteBranch, PushUnanswered
  <2>2. CASE PushTarget(a)
    BY <2>2, <1>t DEF PushTarget
  <2>3. CASE FindTarget(a) \/ EnsureWorkingBranch(a) \/ SyncTarget(a)
    <3>1. remote' = remote
      BY <2>3 DEF FindTarget, EnsureWorkingBranch, SyncTarget
    <3> QED BY <3>1
  <2>4. CASE MergeBranch(a)
    BY <2>4 DEF MergeBranch
  <2>5. CASE MergeConflict(a) \/ DeleteLocalBranch(a)
    <3>1. remote' = remote
      BY <2>5 DEF MergeConflict, DeleteLocalBranch
    <3> QED BY <3>1
  <2>6. CASE AbandonApproval(a) \/ FailApproval(a) \/ ApproveTask(a)
    BY <2>6 DEF AbandonApproval, FailApproval, ApproveTask, git
  <2> QED BY <1>3, <2>1, <2>2, <2>3, <2>4, <2>5, <2>6 DEF MergeAndCleanup
<1>4. ASSUME NEW a \in Approver, BeginApproval(a) PROVE FALSE
  BY <1>4 DEF BeginApproval, git
<1>5. ASSUME NEW p \in Process, Crash(p) \/ LoseConnection(p) PROVE FALSE
  BY <1>5 DEF Crash, LoseConnection, git
<1>6. CASE Others
  <2>1. remote'.work = {} => remote.work = {}
    BY <1>6, <1>t DEF Others
  <2> QED BY <2>1
<1>7. CASE RejectTask \/ GetDiff \/ UNCHANGED vars
  BY <1>7 DEF RejectTask, GetDiff, git, vars
<1> QED BY <1>1, <1>2, <1>3, <1>4, <1>5, <1>6, <1>7 DEF Next

\* No step takes the working branch from the remote before the target ref of the
\* remote has all that was on it, provided that others do no more than push to the
\* target ref.
THEOREM BranchesKeptUntilMerged ==
  ASSUME SteadyWorkers, TargetStays, BranchIsOurs
  PROVE  Spec => BranchKeptUntilMerged
<1>1. TInv /\ WorkInv /\ [Next]_vars =>
        [remote.work # {} /\ remote'.work = {} => remote.work \subseteq remote'.main]_vars
  <2> SUFFICES ASSUME TInv, WorkInv, [Next]_vars, remote.work # {}, remote'.work = {}
               PROVE  remote.work \subseteq remote'.main
    OBVIOUS
  <2>1. PICK a \in Approver : pc[a] = "delete_remote" /\ remote'.main = remote.main
    BY BranchRemoved
  <2>2. AfterAudit
    BY <2>1 DEF WorkInv, Turns
  <2>3. remote.work \subseteq audited
    <3>1. remote.work \in Branch
      BY DEF TInv, GitTypes
    <3> QED BY <3>1, <2>2, NoneByOthers DEF AfterAudit, Extends
  <2> QED BY <2>1, <2>2, <2>3 DEF AfterAudit, AtMerge, Merged
<1> QED BY <1>1, WorkInvariant, PTL DEF Spec, BranchKeptUntilMerged
=============================================================================
