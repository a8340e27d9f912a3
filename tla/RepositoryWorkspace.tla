------------------------- MODULE RepositoryWorkspace -------------------------
(***************************************************************************)
(* The git side of one GitHub request: the clone the workers and the       *)
(* dashboard share (src/src/backend/repository_workspace.py), the remote   *)
(* they push to, and the database transaction each of them holds meanwhile *)
(* (src/src/backend/task_backend.py, src/src/security/dashboard.py).  The  *)
(* database rolls back; a clone and a remote do not.                       *)
(*                                                                         *)
(* One action is one git command or one group of commands nothing else of  *)
(* the system can get between.  A branch is the set of commits reachable   *)
(* from it, and {} when it does not exist.                                 *)
(***************************************************************************)
EXTENDS Integers, Sequences, FiniteSets

CONSTANTS
  Worker,      \* worker processes
  Approver,    \* dashboard requests that approve
  Nobody,      \* holder of a row lock nobody holds
  Flow,        \* phase_flow; the last phase is the audit, 5
  MaxRework,   \* MAX_PHASE_REWORKS
  Fragile,     \* processes whose database connection may break
  Outside,     \* what others may do to the remote: "push_main", "push_work", "drop_main"
  MaxFaults    \* bound: crashes, broken connections and failed fetches

Process == Worker \cup Approver

ASSUME RepositoryWorkspaceAssumption ==
  /\ Worker \cap Approver = {}
  /\ Nobody \notin Process
  /\ Fragile \subseteq Process
  /\ Outside \subseteq {"push_main", "push_work", "drop_main"}
  /\ {MaxRework, MaxFaults} \subseteq Nat
  /\ Flow \in Seq(0 .. 5) /\ Len(Flow) > 0 /\ Flow[Len(Flow)] = 5
  /\ \E i \in 1 .. Len(Flow) : Flow[i] = 4

VARIABLES
  request,     \* status, phase and round of the request, as committed
  owner,       \* the process whose transaction has the row locked
  recorded,    \* runs that edited and whose phase row was committed succeeded
  audited,     \* the branch the approving audit was given
  remote,      \* the branches of the remote: the target ref and the working branch
  clone,       \* /workspace/{id}/repo
  pc,          \* where each process is
  run,         \* number of the run each worker is in
  seen,        \* the working branch each worker's LLM was given
  runs,        \* runs started
  edited,      \* runs whose LLM changed files
  outside,     \* what others have still to do to the remote
  faults       \* faults so far

db    == <<request, recorded, audited>>
git   == <<remote, clone>>
rest  == <<run, seen, runs, edited, outside, faults>>
vars  == <<request, owner, recorded, audited, remote, clone, pc, run, seen,
           runs, edited, outside, faults>>

-----------------------------------------------------------------------------
(* Commits, branches and the clone.                                        *)

Base         == [by |-> "base", id |-> 0, edits |-> {}]
Work(r, e)   == [by |-> "run", id |-> r, edits |-> e]
Merge(k)     == [by |-> "merge", id |-> k, edits |-> {}]
Other(what)  == [by |-> what, id |-> 0, edits |-> {}]

Merges(branch) == {c \in branch : c.by = "merge"}
EditsIn(branch) == UNION {c.edits : c \in branch}

\* git push: the remote branch must be an ancestor of the local one.
FastForward(old, new) == new # {} /\ old \subseteq new

NoClone ==
  [there |-> "none", head |-> "main", main |-> {}, work |-> {},
   oMain |-> {}, oWork |-> {}, dirty |-> {}, unmerged |-> FALSE]

Init ==
  /\ request = [status |-> "queued", phase |-> Flow[1], round |-> 0]
  /\ owner = Nobody
  /\ recorded = {} /\ audited = {}
  /\ remote = [main |-> {Base}, work |-> {}]
  /\ clone = NoClone
  /\ pc = [p \in Process |-> "idle"]
  /\ run = [w \in Worker |-> 0]
  /\ seen = [w \in Worker |-> {}]
  /\ runs = 0 /\ edited = {}
  /\ outside = Outside
  /\ faults = 0

-----------------------------------------------------------------------------
(* Transactions.  A statement on a broken connection raises: the process   *)
(* gives up at its next statement, and commits nothing.                    *)

\* Slip: the connection is left open, its locks with it.
StopLocked(p) ==
  /\ pc' = [pc EXCEPT ![p] = "idle"]
  /\ UNCHANGED owner

Stop(p) ==
  /\ pc' = [pc EXCEPT ![p] = "idle"]
  /\ owner' = IF owner = p THEN Nobody ELSE owner

\* A statement between two steps: insert_log, update_task_payload_json.
Continue(p, step) ==
  IF owner = p
  THEN pc' = [pc EXCEPT ![p] = step] /\ UNCHANGED owner
  ELSE Stop(p)

\* No statement in between.
Goto(p, step) == pc' = [pc EXCEPT ![p] = step] /\ UNCHANGED owner

\* The last statements and the commit.
Commit(p, outcome) ==
  /\ Stop(p)
  /\ request' = IF owner = p THEN outcome ELSE request

Blocked  == [request EXCEPT !.status = "blocked"]
Stranded == [request EXCEPT !.status = "stranded"]

Faulty == faults < MaxFaults /\ faults' = faults + 1

-----------------------------------------------------------------------------
(* A worker runs a phase.                                                  *)

\* select_next_queued_task and what else comes before prepare_repository.
LeasePhase(w) ==
  /\ pc[w] = "idle"
  /\ request.status = "queued" /\ owner = Nobody
  /\ owner' = w
  /\ pc' = [pc EXCEPT ![w] = "fetch"]
  /\ runs' = runs + 1
  /\ run' = [run EXCEPT ![w] = runs + 1]
  /\ UNCHANGED <<db, git, seen, edited, outside, faults>>

(***************************************************************************)
(* prepare_repository: git clone unless the directory is there, then fetch *)
(* --prune.  The clone has a local target ref when that is the default     *)
(* branch of the repository; a checkout makes it otherwise.                *)
(***************************************************************************)
FetchRepository(w) ==
  /\ pc[w] = "fetch"
  /\ \E main \in IF clone.there = "none" THEN {{}, remote.main} ELSE {clone.main} :
       clone' = [clone EXCEPT !.there = "ready", !.main = main,
                              !.oMain = remote.main, !.oWork = remote.work]
  /\ Goto(w, "checkout")
  /\ UNCHANGED <<db, remote, rest>>

\* Slip: the working branch is made from the target ref in every phase.
CheckoutFromTarget(w) ==
  LET main == IF clone.main = {} THEN clone.oMain ELSE clone.main
  IN  /\ pc[w] = "checkout"
      /\ ~clone.unmerged
      /\ main # {}
      /\ clone' = [clone EXCEPT !.head = "work", !.work = main, !.main = main]
      /\ Continue(w, "generate")
      /\ UNCHANGED <<db, remote, rest>>

\* The working branch as the remote has it; only without one, the target ref.
CheckoutWorkingBranch(w) ==
  LET main == IF clone.main = {} THEN clone.oMain ELSE clone.main
      base == IF clone.oWork # {} THEN clone.oWork ELSE main
  IN  /\ pc[w] = "checkout"
      /\ ~clone.unmerged
      /\ base # {}
      /\ clone' = [clone EXCEPT !.head = "work", !.work = base,
                     !.main = IF clone.oWork # {} THEN clone.main ELSE main]
      /\ Continue(w, "generate")
      /\ UNCHANGED <<db, remote, rest>>

(***************************************************************************)
(* The LLM works in the clone; nothing keeps it from editing in any phase. *)
(* Its edits are files of the working tree until a commit takes them.      *)
(***************************************************************************)
Edit(w, edits) ==
  /\ seen' = [seen EXCEPT ![w] = clone.work]
  /\ clone' = IF edits THEN [clone EXCEPT !.dirty = @ \cup {run[w]}] ELSE clone
  /\ edited' = IF edits THEN edited \cup {run[w]} ELSE edited
  /\ UNCHANGED <<recorded, audited, remote, run, runs, outside, faults>>

Generate(w) ==
  /\ pc[w] = "generate"
  /\ \E edits \in BOOLEAN : Edit(w, edits)
  /\ Continue(w, IF request.phase = 5 THEN "verdict" ELSE "commit")
  /\ UNCHANGED request

\* The row is blocked without the orchestrator: the request is left running.
FailGeneration(w) ==
  /\ pc[w] = "generate"
  /\ \E edits \in BOOLEAN : Edit(w, edits)
  /\ Commit(w, Stranded)

\* Slip: what was committed is not pushed.
CommitChangesUnpushed(w) ==
  /\ pc[w] = "commit"
  /\ clone.dirty # {}
  /\ ~clone.unmerged
  /\ clone' = [clone EXCEPT ![clone.head] = @ \cup {Work(run[w], clone.dirty)},
                            !.dirty = {}]
  /\ Goto(w, "record")
  /\ UNCHANGED <<db, remote, rest>>

(***************************************************************************)
(* commit_and_push up to the commit: all there is in the working tree, on  *)
(* the branch that is checked out.                                         *)
(***************************************************************************)
CommitChanges(w) ==
  /\ pc[w] = "commit"
  /\ clone.dirty # {}
  /\ ~clone.unmerged
  /\ clone' = [clone EXCEPT ![clone.head] = @ \cup {Work(run[w], clone.dirty)},
                            !.dirty = {}]
  /\ Goto(w, "push")
  /\ UNCHANGED <<db, remote, rest>>

\* phase_edit_no_changes: nothing is committed and nothing pushed.
NoChanges(w) ==
  /\ pc[w] = "commit"
  /\ clone.dirty = {}
  /\ Goto(w, "record")
  /\ UNCHANGED <<db, git, rest>>

\* git push origin {working_branch}
PushBranch(w) ==
  /\ pc[w] = "push"
  /\ FastForward(remote.work, clone.work)
  /\ remote' = [remote EXCEPT !.work = clone.work]
  /\ clone' = [clone EXCEPT !.oWork = clone.work]
  /\ Goto(w, "record")
  /\ UNCHANGED <<db, rest>>

\* The push arrived and its answer did not: the row is blocked all the same.
PushBranchUnanswered(w) ==
  /\ pc[w] = "push"
  /\ FastForward(remote.work, clone.work)
  /\ remote' = [remote EXCEPT !.work = clone.work]
  /\ Commit(w, Blocked)
  /\ UNCHANGED <<recorded, audited, clone, rest>>

(***************************************************************************)
(* A git command of the worker failed (a conflict with files in the        *)
(* working tree, a rejected push, a timeout, the network) or a check on    *)
(* the changed files did: the row and the request are blocked.  A clone    *)
(* cut off by its timeout leaves its directory behind.                     *)
(***************************************************************************)
FailPhase(w) ==
  /\ pc[w] \in {"fetch", "checkout", "commit", "push"}
  /\ \/ UNCHANGED clone
     \/ /\ pc[w] = "fetch" /\ clone.there = "none"
        /\ clone' = [clone EXCEPT !.there = "partial"]
  /\ Commit(w, Blocked)
  /\ UNCHANGED <<recorded, audited, remote, rest>>

NextOf(phase) ==
  LET i == CHOOSE i \in 1 .. Len(Flow) : Flow[i] = phase
  IN  Flow[i + 1]

\* The phase row is succeeded, and the next phase is queued.
RecordPhase(w) ==
  /\ pc[w] = "record"
  /\ Commit(w, [request EXCEPT !.phase = NextOf(@)])
  /\ recorded' = IF owner = w THEN recorded \cup ({run[w]} \cap edited) ELSE recorded
  /\ UNCHANGED <<audited, git, rest>>

\* Slip: the edits of the audit are committed, as in the other phases.
VerdictThenCommit(w) ==
  /\ pc[w] = "verdict"
  /\ Commit(w, [request EXCEPT !.status = "waiting_approval"])
  /\ audited' = IF owner = w THEN seen[w] ELSE audited
  /\ clone' = [clone EXCEPT ![clone.head] = @ \cup {Work(run[w], clone.dirty)},
                            !.dirty = {}]
  /\ UNCHANGED <<recorded, remote, rest>>

\* Slip: the limit is not looked at.
VerdictUnlimited(w) ==
  /\ pc[w] = "verdict"
  /\ request.round =< MaxRework
  /\ Commit(w, [request EXCEPT !.phase = 4, !.round = @ + 1])
  /\ UNCHANGED <<recorded, audited, git, rest>>

\* Phase 5 commits and pushes nothing; its verdict decides.
Verdict(w) ==
  /\ pc[w] = "verdict"
  /\ \/ /\ Commit(w, [request EXCEPT !.status = "waiting_approval"])
        /\ audited' = IF owner = w THEN seen[w] ELSE audited
     \/ /\ request.round < MaxRework
        /\ Commit(w, [request EXCEPT !.phase = 4, !.round = @ + 1])
        /\ UNCHANGED audited
     \/ Commit(w, Blocked) /\ UNCHANGED audited
  /\ UNCHANGED <<recorded, git, rest>>

-----------------------------------------------------------------------------
(* POST .../approve: merge_and_cleanup while the row is locked.            *)

BeginApproval(a) ==
  /\ pc[a] = "idle"
  /\ request.status = "waiting_approval" /\ owner = Nobody
  /\ owner' = a
  /\ pc' = [pc EXCEPT ![a] = "target"]
  /\ UNCHANGED <<db, git, rest>>

\* _assert_remote_branch_exists
FindTarget(a) ==
  /\ pc[a] = "target"
  /\ remote.main # {}
  /\ clone' = [clone EXCEPT !.oMain = remote.main]
  /\ Goto(a, "branch")
  /\ UNCHANGED <<db, remote, rest>>

(***************************************************************************)
(* The answers 404 and 400: the request keeps waiting.  The target ref is  *)
(* gone or not allowed, or no fetch brings it; or there is no working      *)
(* branch, neither here nor there, or no fetch brings that.                *)
(***************************************************************************)
AbandonApproval(a) ==
  /\ \/ pc[a] = "target" /\ remote.main = {} /\ UNCHANGED faults
     \/ pc[a] = "branch" /\ clone.work = {} /\ remote.work = {} /\ UNCHANGED faults
     \/ pc[a] = "target" /\ Faulty
     \/ pc[a] = "branch" /\ clone.work = {} /\ Faulty
  /\ Stop(a)
  /\ UNCHANGED <<db, git, run, seen, runs, edited, outside>>

\* _ensure_local_working_branch: the one of the clone, or else the remote's.
EnsureWorkingBranch(a) ==
  /\ pc[a] = "branch"
  /\ \/ clone.work # {} /\ UNCHANGED clone
     \/ /\ clone.work = {}
        /\ remote.work # {}
        /\ ~clone.unmerged
        /\ clone' = [clone EXCEPT !.head = "work", !.work = remote.work,
                                  !.oWork = remote.work]
  /\ Goto(a, "sync")
  /\ UNCHANGED <<db, remote, rest>>

\* git fetch, git checkout of the target ref, git merge --ff-only.
SyncTarget(a) ==
  /\ pc[a] = "sync"
  /\ remote.main # {}
  /\ ~clone.unmerged
  /\ clone.main \subseteq remote.main \/ remote.main \subseteq clone.main
  /\ clone' = [clone EXCEPT !.head = "main", !.oMain = remote.main,
                            !.main = @ \cup remote.main]
  /\ Goto(a, "merge")
  /\ UNCHANGED <<db, remote, rest>>

\* Slip: every approval makes a merge commit.
MergeBranchAlways(a) ==
  LET target == clone[clone.head]
  IN  /\ pc[a] = "merge"
      /\ clone.work # {}
      /\ ~clone.unmerged
      /\ clone' = [clone EXCEPT ![clone.head] = @ \cup clone.work \cup
                     {Merge(Cardinality(Merges(target)) + 1)}]
      /\ Goto(a, "push_main")
      /\ UNCHANGED <<db, remote, rest>>

\* git merge --no-ff: nothing to do when the target has it all already.
MergeBranch(a) ==
  LET target == clone[clone.head]
  IN  /\ pc[a] = "merge"
      /\ clone.work # {}
      /\ ~clone.unmerged
      /\ clone' = [clone EXCEPT ![clone.head] =
           IF clone.work \subseteq target THEN target
           ELSE target \cup clone.work \cup
                {Merge(Cardinality(Merges(target)) + 1)}]
      /\ Goto(a, "push_main")
      /\ UNCHANGED <<db, remote, rest>>

\* A conflict leaves the clone in the middle of the merge.
MergeConflict(a) ==
  /\ pc[a] = "merge"
  /\ ~(clone[clone.head] \subseteq clone.work)
  /\ ~(clone.work \subseteq clone[clone.head])
  /\ clone' = [clone EXCEPT !.unmerged = TRUE]
  /\ Commit(a, Blocked)
  /\ UNCHANGED <<recorded, audited, remote, rest>>

\* Slip: a rejected push does not end the approval.
PushTargetUnchecked(a) ==
  /\ pc[a] = "push_main"
  /\ \/ /\ FastForward(remote.main, clone.main)
        /\ remote' = [remote EXCEPT !.main = clone.main]
        /\ clone' = [clone EXCEPT !.oMain = clone.main]
     \/ ~FastForward(remote.main, clone.main) /\ UNCHANGED git
  /\ Goto(a, "delete_local")
  /\ UNCHANGED <<db, rest>>

\* git push origin {merge_target}
PushTarget(a) ==
  /\ pc[a] = "push_main"
  /\ FastForward(remote.main, clone.main)
  /\ remote' = [remote EXCEPT !.main = clone.main]
  /\ clone' = [clone EXCEPT !.oMain = clone.main]
  /\ Goto(a, "delete_local")
  /\ UNCHANGED <<db, rest>>

\* git branch -d: not the branch that is checked out, nor one not merged.
DeleteLocalBranch(a) ==
  /\ pc[a] = "delete_local"
  /\ \/ clone.work = {}
     \/ /\ clone.head # "work"
        /\ clone.work \subseteq clone.oWork \/ clone.work \subseteq clone.main
  /\ clone' = [clone EXCEPT !.work = {}]
  /\ Goto(a, "delete_remote")
  /\ UNCHANGED <<db, remote, rest>>

\* Slip: the branch of the remote is removed when that works.
DeleteRemoteBranchBestEffort(a) ==
  /\ pc[a] = "delete_remote"
  /\ UNCHANGED git
  /\ Goto(a, "approve")
  /\ UNCHANGED <<db, rest>>

\* git push origin --delete {working_branch}
DeleteRemoteBranch(a) ==
  /\ pc[a] = "delete_remote"
  /\ remote.work # {}
  /\ remote' = [remote EXCEPT !.work = {}]
  /\ clone' = [clone EXCEPT !.oWork = {}]
  /\ Goto(a, "approve")
  /\ UNCHANGED <<db, rest>>

\* A push that arrived without its answer arriving: blocked all the same.
PushUnanswered(a) ==
  /\ \/ /\ pc[a] = "push_main"
        /\ FastForward(remote.main, clone.main)
        /\ remote' = [remote EXCEPT !.main = clone.main]
     \/ /\ pc[a] = "delete_remote"
        /\ remote.work # {}
        /\ remote' = [remote EXCEPT !.work = {}]
  /\ Commit(a, Blocked)
  /\ UNCHANGED <<recorded, audited, clone, rest>>

\* Slip: the failure is answered, and the request left as it is.
FailApprovalSilently(a) ==
  /\ pc[a] \in {"sync", "merge", "push_main", "delete_local", "delete_remote"}
  /\ Stop(a)
  /\ UNCHANGED <<db, git, rest>>

(***************************************************************************)
(* Any other git failure of the approval: the request is blocked, and the  *)
(* commands before it are not undone.                                      *)
(***************************************************************************)
FailApproval(a) ==
  /\ \/ pc[a] \in {"sync", "merge", "push_main", "delete_local", "delete_remote"}
     \/ pc[a] = "branch" /\ clone.work = {} /\ remote.work # {}
  /\ Commit(a, Blocked)
  /\ UNCHANGED <<recorded, audited, git, rest>>

ApproveTask(a) ==
  /\ pc[a] = "approve"
  /\ Commit(a, [request EXCEPT !.status = "succeeded"])
  /\ UNCHANGED <<recorded, audited, git, rest>>

\* POST .../reject: no git command.
RejectTask ==
  /\ request.status = "waiting_approval" /\ owner = Nobody
  /\ request' = Blocked
  /\ UNCHANGED <<owner, recorded, audited, git, pc, rest>>

\* GET .../diff: its read of the row waits for an approval in progress, but
\* the lock is gone when it fetches.
GetDiff ==
  /\ clone.there = "ready" /\ remote.main # {}
  /\ clone' = [clone EXCEPT !.oMain = remote.main,
       !.oWork = IF clone.work = {} /\ remote.work # {} THEN remote.work ELSE @]
  /\ UNCHANGED <<db, owner, remote, pc, rest>>

-----------------------------------------------------------------------------
(* Crashes, broken connections, and others who use the remote.             *)

\* The container stops or the code raises: the clone stays as it is, a `git clone` half done.
Crash(p) ==
  /\ pc[p] # "idle"
  /\ Stop(p)
  /\ Faulty
  /\ \/ UNCHANGED clone
     \/ /\ pc[p] = "fetch" /\ clone.there = "none"
        /\ clone' = [clone EXCEPT !.there = "partial"]
  /\ UNCHANGED <<db, remote, run, seen, runs, edited, outside>>

\* The server rolls the transaction back; the process does not know yet.
LoseConnection(p) ==
  /\ p \in Fragile
  /\ owner = p
  /\ owner' = Nobody
  /\ Faulty
  /\ UNCHANGED <<db, git, pc, run, seen, runs, edited, outside>>

Others ==
  \E what \in outside :
    /\ outside' = outside \ {what}
    /\ \/ /\ what = "push_main" /\ remote.main # {}
          /\ remote' = [remote EXCEPT !.main = @ \cup {Other(what)}]
       \/ /\ what = "push_work" /\ remote.work # {}
          /\ remote' = [remote EXCEPT !.work = @ \cup {Other(what)}]
       \/ /\ what = "drop_main"
          /\ remote' = [remote EXCEPT !.main = {}]
    /\ UNCHANGED <<db, owner, clone, pc, run, seen, runs, edited, faults>>

-----------------------------------------------------------------------------
RunPhase(w) ==
  \/ FetchRepository(w) \/ CheckoutWorkingBranch(w)
  \/ Generate(w) \/ FailGeneration(w)
  \/ CommitChanges(w) \/ NoChanges(w)
  \/ PushBranch(w) \/ PushBranchUnanswered(w)
  \/ FailPhase(w) \/ RecordPhase(w) \/ Verdict(w)

MergeAndCleanup(a) ==
  \/ FindTarget(a) \/ AbandonApproval(a)
  \/ EnsureWorkingBranch(a) \/ SyncTarget(a)
  \/ MergeBranch(a) \/ MergeConflict(a)
  \/ PushTarget(a) \/ PushUnanswered(a)
  \/ DeleteLocalBranch(a) \/ DeleteRemoteBranch(a)
  \/ FailApproval(a) \/ ApproveTask(a)

Next ==
  \/ \E w \in Worker : LeasePhase(w) \/ RunPhase(w)
  \/ \E a \in Approver : BeginApproval(a) \/ MergeAndCleanup(a)
  \/ \E p \in Process : Crash(p) \/ LoseConnection(p)
  \/ RejectTask \/ GetDiff \/ Others

Spec == Init /\ [][Next]_vars

(***************************************************************************)
(* Workers poll and every git command has a timeout, so a step that can be *)
(* taken is taken; a person who approved and got no decision approves      *)
(* again.  Nobody has to reject, to look at the diff or to push.           *)
(***************************************************************************)
Fairness ==
  /\ \A w \in Worker   : WF_vars(LeasePhase(w)) /\ WF_vars(RunPhase(w))
  /\ \A a \in Approver : WF_vars(BeginApproval(a)) /\ WF_vars(MergeAndCleanup(a))

FairSpec == Spec /\ Fairness

-----------------------------------------------------------------------------
(* Properties.                                                             *)

Commits == [by : {"base", "run", "merge", "push_main", "push_work"},
            id : Nat, edits : SUBSET (1 .. runs)]

TypeOK ==
  /\ request \in [status : {"queued", "waiting_approval", "succeeded",
                            "blocked", "stranded"},
                  phase : 0 .. 5, round : 0 .. MaxRework]
  /\ owner \in Process \cup {Nobody}
  /\ \A p \in Process : pc[p] \in {"idle"} \cup
       (IF p \in Worker
        THEN {"fetch", "checkout", "generate", "commit", "push", "record", "verdict"}
        ELSE {"target", "branch", "sync", "merge", "push_main", "delete_local",
              "delete_remote", "approve"})
  /\ \A b \in {remote.main, remote.work, clone.main, clone.work,
               clone.oMain, clone.oWork, audited} :
       \A c \in b : c.id \in Nat /\ c.edits \subseteq 1 .. runs
  /\ clone.head \in {"main", "work"} /\ clone.there \in {"none", "partial", "ready"}
  /\ clone.dirty \subseteq edited /\ recorded \subseteq edited
  /\ faults \in 0 .. MaxFaults

(***************************************************************************)
(* A phase recorded as succeeded is on the remote: what its LLM changed is *)
(* in a commit of the working branch or, after the merge, of the target.   *)
(* Commit, push and the database commit are three steps, the clone is      *)
(* reset to the remote's branch by the next phase, and an approval removes *)
(* the branch: a crash, a broken connection or a wrong order between any   *)
(* two of them could leave a recorded phase without its work.              *)
(***************************************************************************)
RecordedWorkOnRemote ==
  recorded \subseteq EditsIn(remote.main \cup remote.work)

(***************************************************************************)
(* While nobody else pushes to the working branch, a worker that holds its *)
(* row is never rejected (phase6-direct-edit-design.md:245): whatever      *)
(* crashed before, its branch starts from the one on the remote.           *)
(***************************************************************************)
PushIsFastForward ==
  \A w \in Worker :
    pc[w] = "push" /\ owner = w => FastForward(remote.work, clone.work)

(***************************************************************************)
(* The target ref only ever gets what the approving audit was given: the   *)
(* edits of an audit's own LLM, of a failed or repeated run, or of a phase *)
(* after the audit stay out, however the approval is cut off and repeated. *)
(***************************************************************************)
MergedIsAudited ==
  \A c \in remote.main : c.by = "run" => c \in audited

(***************************************************************************)
(* The working branch is removed from the remote only when the target ref  *)
(* of the remote has everything that was on it                             *)
(* (phase6-direct-edit-design.md:140).                                     *)
(***************************************************************************)
BranchKeptUntilMerged ==
  [][remote.work # {} /\ remote'.work = {}
       => remote.work \subseteq remote'.main]_vars

(***************************************************************************)
(* A request that succeeded is merged, and its branch is gone from the     *)
(* remote.  (An approval that has lost its transaction can leave a local   *)
(* working branch behind.)                                                 *)
(***************************************************************************)
SucceededMeansMerged ==
  request.status = "succeeded" =>
    audited \subseteq remote.main /\ remote.work = {}

(***************************************************************************)
(* An approval that is repeated, after a crash between any two of its      *)
(* commands or beside one that has lost its transaction, never makes a     *)
(* second merge commit on the remote.                                      *)
(***************************************************************************)
MergedOnce == Cardinality(Merges(remote.main)) =< 1

(***************************************************************************)
(* An approval that is asked for again and again decides the request.  If  *)
(* it does not, the target ref is gone, or the merge is done and the       *)
(* branch is gone and only the database has not heard of it: the code then *)
(* answers merge_target_not_found or working_branch_not_found for ever.    *)
(***************************************************************************)
MergedUnrecorded ==
  remote.work = {} /\ clone.work = {} /\ audited \subseteq remote.main

ApprovalDecides ==
  request.status = "waiting_approval"
    ~> request.status # "waiting_approval" \/ MergedUnrecorded \/ remote.main = {}

\* A queued request gets to a person, or stops: crashes only repeat a phase.
PhasesEnd == request.status = "queued" ~> request.status # "queued"

(***************************************************************************)
(* Claimed by phase6-direct-edit-destructive-test-design.md:189 and :591:  *)
(* when only the removal of the remote branch failed, approving again      *)
(* removes it.  The code answers 409 to an approval of a blocked task.     *)
(***************************************************************************)
Leftover ==
  request.status = "blocked" /\ remote.work # {} /\ clone.work = {}
    /\ audited # {} /\ audited \subseteq remote.main

LeftoverBranchRemoved == Leftover ~> remote.work = {}

-----------------------------------------------------------------------------
(* The same request as RequestLifecycle sees it.                           *)

Lifecycle ==
  [stage |-> CASE request.status = "queued" -> "working"
               [] request.status = "waiting_approval" -> "awaiting"
               [] request.status = "succeeded" -> "merged"
               [] request.status = "stranded" -> "stranded"
               [] OTHER -> "stopped",
   phase |-> request.phase, round |-> request.round]

RL == INSTANCE RequestLifecycle
        WITH Request <- {1}, Limit <- MaxRework, req <- <<Lifecycle>>

\* What git does to a request is a step its lifecycle allows, or none.
StepsOfLifecycle == [][RL!Next]_request
=============================================================================
