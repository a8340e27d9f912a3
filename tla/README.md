# Verification of the task orchestration of marunage2

marunage2 takes a development request from a dashboard, runs it through a chain of LLM phases on a
git working branch, has the result audited, and merges it once a person approves. This directory
holds TLA+ modules that model that program, TLC runs that check them on small instances, and
theorems about them that TLAPS proves for every value of the constants.

## The system

| Component | Code | State it keeps | Operations | Talks to |
|---|---|---|---|---|
| Task table | `src/backend/database.py`, `init.sql` | MariaDB table `tasks`: status, lease, payload, parent and root ids; row locks of open transactions | queue scan with `FOR UPDATE SKIP LOCKED`, lease, status updates with the expected status in the `WHERE`, insert, requeue | everything below |
| State machine | `src/backend/state_machine.py` | none (a table of transitions) | `can_transition` | backend |
| Phase orchestrator | `src/backend/phase_orchestrator.py` | `payload_json.orchestration` of a request's root and phase rows | `handle_phase_completion`, `handle_phase_blocked` | task table, inside the backend's transaction |
| Task backend and worker loop | `src/backend/task_backend.py`, `src/backend/service_runner.py`, `scripts/service_runner.py` | an open transaction per worker process | lease a task, prepare its clone, ask the LLM, commit and push, settle the row; recover expired leases; queue blocked rows again | table, orchestrator, git workspace, LLM |
| Dashboard | `src/security/dashboard.py` | an open transaction per request (threading server) | submit, approve (merges in git), reject, read | table, git workspace |
| Repository workspace | `src/backend/repository_workspace.py` | one clone per request: checkout, local and remote-tracking branches; the branches of GitHub | prepare, commit and push, diff, merge and clean up | git, GitHub |
| Librarian | `src/librarian/service.py` | a write-ahead log file, a memory buffer, ids already replayed | buffer an event, replay the log | database, file system |
| DinD manager | `src/backend/dind_manager.py` | Docker containers, networks, ports | start, wait for readiness, clean up | Docker |
| Compose validator, secret scanner, sandbox | `src/security/*.py` | none | decide on one input | backend |
| LLM client | `src/backend/llm_client.py` | none | one subprocess call | backend |
| Start-up scripts, UI | `scripts/`, `src/security/static` | none | configure, render | |

### What is hard here, and what has to hold

* *Task table.* Workers of one service, lease recovery and dashboard requests compete for rows. One
  row must be worked on by one transaction, a row must not be handed out while its worker lives, and
  a row whose worker is gone must come back.
* *Orchestrator.* A phase may be run again after a crash or a lost connection and complete twice.
  The chain of phases must stay a chain: in the order of the flow, one phase in progress, one run of
  a phase per audit round, rework bounded. The root's payload is a second copy of the chain's
  position, and must agree with it. A request that was decided must not move again.
* *Backend.* Each of a dozen outcomes must settle the row and tell the orchestrator, all in the one
  commit; otherwise a request is left `running` with nothing to run.
* *Dashboard.* Approving takes many seconds of git between the check of the status and its update.
* *Repository workspace.* git cannot be rolled back with the transaction: what is pushed stays
  pushed when the transaction is lost. Approved work must reach the target branch before the working
  branch goes, and what is merged must be what was audited.
* *Librarian.* A record must not be lost or written twice by an outage, a replay that fails half-way
  or a restart.
* *DinD manager.* Whatever step of the start fails, container, network and ports must be released.
* *Worker loop.* A connection can break between any two statements, and git and the LLM do not
  notice; the process must come back clean, the row must be decided once, with logs that say why.
* *Decisions on one input.* A compose file, an answer of the LLM, a working tree or a request is
  decided on once, by rules that apply in an order; what passes must be what the later steps rely on.

`PROJECT.json` lists these as hazards with their lines, and the properties that cover them.

## Modules

| Module | Models |
|---|---|
| `TaskTable` | the committed table, row locks, the queue and recovery scans |
| `TaskStateMachine` | the transition table, and what one worker transaction makes of it |
| `PhaseOrchestrator` | the orchestrator's part of the transaction that settles a phase row |
| `TaskBackend` | worker transactions, recovery, submission and decisions: every writer of the table; the properties |
| `RepositoryWorkspace` | the git commands of one request in its clone and on GitHub, between the lease and the commit of the transactions that run them |
| `RequestLifecycle` | abstract specification: what a request goes through, without rows, workers or locks |
| `WorkerCycle` | the loop of a worker process and its transaction call by call, on a connection that can break |
| `TaskRun` | abstract specification of `WorkerCycle`: a row is decided once, with the logs that belong to the decision |
| `TaskPage` | the page of a request, read on two connections, beside everything of `TaskBackend` |
| `Locations`, `ComposeValidator` | paths beneath roots; the validation of compose files |
| `SecretScanner` | the recursive decoding of a text |
| `ReviewVerdict` | the two readers of an audit's verdict |
| `ChangedFiles` | the checks of a phase's changed files, and what the commit takes |
| `Submission` | the checks on a submitted request, and the rows it becomes |
| `InputChecks` | calls of the five modules above, with their properties |
| `LibrarianWal` | the librarian's write-ahead log: append, replay, restart, for several services on one file |
| `DindManager` | start and cleanup of a task's Docker-in-Docker container, against Docker and a port allocator |
| `MCTaskBackend`, `MCTaskPage`, `MCRepositoryWorkspace`, `MCWorkerCycle`, `MCInputChecks`, `MCLibrarianWal`, `MCDindManager` | values of the constants for TLC |
| `TaskBackendProofs`, `RepositoryWorkspaceProofs`, `WorkerCycleProofs`, `TaskRunProofs`, `InputChecksProofs`, `LibrarianWalProofs`, `DindManagerProofs` | theorems about the module they are named after (`TaskRunProofs`: that `WorkerCycle` implements `TaskRun`) |
| `RequestProofs` | theorems about `TaskBackend` and `TaskPage` that are about a whole request, on top of `TaskBackendProofs` |

`TaskBackend` takes a worker's transaction as one step; two modules open that step, each for what
the other leaves out: `RepositoryWorkspace` its git commands, for one request, and `WorkerCycle` its
calls, its connection and the loop around it, for a queue.

### State and actions against the code

Variables hold **committed** rows. Nothing else is visible to another transaction: what a
transaction has written stays locked, scans skip locked rows and other locking reads wait. A
transaction of a worker is therefore two steps: `LeaseNext` takes the row lock (`job[w]`), and one
of `FailPhase`, `FailGeneration`, `FailSingle`, `CompletePhase`, `CompleteSingle`, `LeaveRunning`
commits everything the code wrote, in one step; `Rollback` is a crash, an exception or a lost
connection. This is why `queued -> leased -> running -> ...` is seen as a single change
(`CommittedTransition`). An approval is `BeginApproval` (the row is locked while git merges) and
`ApproveMerged`, `ApproveFailed` or `ApproveAbandoned`.

| Model | Code |
|---|---|
| `row[t].kind` root / phase / plain / bare | `task_type` `phase_orchestration_root`; a row with `phase_flow`; a row of a request without GitHub repository; a row whose `payload_json` is NULL |
| `orch[t]` | `payload_json.orchestration`: `current_phase`, `last_completed_phase`, `phase_attempt`, `final_review_state`, `failure_reason` |
| `why[t]` | the event logged when a row was blocked |
| `lease[t]` | `lease_expires_at` as NULL, future or past; recovery only looks at `leased` and `running` rows, and a committed `running` row with a lease is always a bare row |
| `FailureEvent` | every event passed to `handle_phase_blocked` (invalid workspace, prepare, compose, instruction, commit, push): their handling is the same, so the runs use one or two |
| `Verdict` | `_parse_review_state` and `_normalize_review_state`: approved, rejected, neither |
| `blocked # orch[r]`, `progress # orch[...]` | `update_task_payload_json` reports changed rows: an unchanged payload raises `TaskConsistencyError` and the transaction never commits |

`RepositoryWorkspace` opens the step `TaskBackend` takes at once between `LeaseNext` and the commit,
for one request. The rows of the request are reduced to `request` (status, phase, round), and the
row lock to `owner`. `StepsOfLifecycle` checks that both views of a request refine the same
`RequestLifecycle`.

| Model | Code |
|---|---|
| `remote.main`, `remote.work`, `clone.main`, `clone.work` | the target ref and the working branch on GitHub and in `/workspace/{id}/repo`, as the set of commits reachable; `{}` is no branch |
| `clone.oMain`, `clone.oWork` | the remote-tracking branches |
| `clone.dirty`, `clone.unmerged`, `clone.there` | files changed and not committed, by the runs that changed them; a merge stopped by a conflict; the directory, which a `git clone` cut off leaves behind half made |
| `pc[p] = "fetch"`, `"checkout"`, ... | the next git command of `prepare_repository`, `commit_and_push` or `merge_and_cleanup` |
| `owner`, `LoseConnection` | the row lock ends with the connection, and the process only notices at its next SQL statement: `Continue` has one, `Goto` has none |
| `FailPhase`, `FailApproval` | any git command that fails or times out: nothing is undone |
| `PushBranchUnanswered`, `PushUnanswered` | a push that reached GitHub and was reported as failed |
| `Others`, `Outside` | other users pushing to either branch or deleting the target ref |

`run`, `seen`, `edited`, `recorded` and `audited` are history: they say which run of the LLM changed
files, which of these the database calls succeeded, and which branch the approving audit was given.

`LibrarianWal` has one step per entry of a replay, since inserts fail one by one and a service may
stop after any of them; an append is one step, because it holds the lock file. `file` has the entries
of the lines that have their end. A write that stops, on a full disk or in a crash, can leave a part
of a line (`torn`), or a line that only lacks its newline, whose entry (`open`) is read like any other
(`Entries`). The next line is glued to either, and `_load_wal_entries` skips the result, the open
entry included. `saved`, `accepted`, `lost` and `inserts` are history. In `DindManager` a step is one
docker command, `container` and `network` are what Docker has under the names of a task and who made
it, and `call[c]` holds the task and the ports of a call.

`WorkerCycle` has one step per call of the loop and of the transaction.

| Model | Code |
|---|---|
| `conn[w] = "lost"`, `Write` | the next SQL statement raises, and the block of `transaction` is left by the exception (`Abandon`) |
| `owner[t] = Ghost` | MariaDB has not noticed that the client of the session is gone, and keeps its locks |
| `depth[w]` | `MariaDBAccessor._transaction_depth`: only the outermost block begins and commits |
| `draft[w]` | what the transaction has written so far: the status and the events of the logs |
| `row[t]` | the columns that decide what is called: payload, workspace, repository, compose file, role in the chain |
| `told[t]` | the logs of the last transaction committed for the row |
| `Raise` | any exception the code is not prepared for |
| `CommitUnanswered` | the connection breaks during `COMMIT`, which took effect or did not |

`Settle` does not say what the orchestrator then does: that is `TaskBackend`. `recorded` and
`orphaned` are history. In `TaskPage`, `LoadTask` and `LoadSubtasks` are the two connections of
`_get_task_detail`. `ReadInstruction` goes as far as the client of the LLM: without a usable
configuration the row is blocked by an LLM failure that was never logged as started.

In `InputChecks` every behaviour is one call with any of the inputs. A compose file is the set of
settings it makes, a path is how it is written (a `~` or a variable, with or without braces or a
default, a leading slash or dot, names), and `Links` are the symbolic links of the host. A text for the
scanner is a number and the decoders are a function to sets of texts. An answer of the LLM is a
sequence of adjacent pieces: the three words that count, single spaces, other gaps, other letters;
DISAPPROVED is `<<"letters", "APPROVED">>`. A changed file is described by what `git status --short`
makes of it, an untracked directory also by what one of its files holds. A URL or path in a request is
the record of the answers to the code's questions about it.

In `DindManager`, `made[c]` holds the two flags of `start` and `attempt[c]` the probes that failed.

Definitions marked `Slip:` are plausible mistakes in the code; they are used only to show that a
property notices them.

## Runs

| Run | Instance | Shows |
|---|---|---|
| `request` | 1 request, flow 0-5, 3 rounds of rework, 2 brain workers and a guardian | finishing a phase and handing over are one commit; the request leaves `running`; a person's page of it never shows a list behind the task above it |
| `pair` | 2 requests, flow 0-4-5, 1 round, 2 workers | exclusive leases; order of the chain; approval only after an approving audit; allowed transitions; refinement of `RequestLifecycle` |
| `queue` | plain, bare and GitHub requests, 2 services, 2 priorities, a flow without phase 4 | a row left running comes back after its lease; a running root always has a phase to run unless an LLM failure blocked it; a rejected audit that asks for a phase outside the flow stops the request |
| `recovery` | 1 request, blocked rows queued again at any time | one unfinished phase, root payload in step, one run of a phase per round, decided requests stay decided |
| `git_faults` | 1 request, flow 4-5, 1 round, 1 worker, 2 approving requests, 2 faults, a push to the target | recorded work is on the remote; pushes of a lock holder are fast-forward; only audited work is merged, once; the branch goes last; refinement of `RequestLifecycle` |
| `git_liveness` | as above with 1 approving request, 1 fault and every kind of outside change | the phases of a request end, and repeated approval decides it |
| `wal` | 2 services, 2 records, at most 4 entries per replay | a synced record stays until it is in the table; an accepted one is lost only with the one memory that has it or behind a line without an end; a service inserts a record once; a replay without a failure empties file and buffer, so copies do not pile up for ever |
| `dind` | 2 workers, 2 tasks, 3 ports, 1 per call, 2 probes | a call leaves nothing behind, takes down nothing of another call, and its ports stay reserved while bound |
| `worker` | 2 processes, one row of each of 8 kinds before a row that is blocked at once, 1 retry, 1 fault | rows are decided once with logs that say why (refinement of `TaskRun`); a process between cycles has nothing open or locked; artifacts are those of the recorded run; the queue is served |
| `checks` | paths of up to 3 names with 4 links, up to 3 files; 4 texts at depth 3; answers of up to 5 pieces; up to 3 changes; requests with every combination of faulty fields | decisions agree with what they are for, said without rules or their order, but for the inputs listed under *Disagreements* |
| `stranded`, `leftover` | as small as possible | disagreements between a document and the code, below |

Bounds: `MaxRequests` bounds submissions, `MaxTasks` the rows. `MaxTasks` is chosen so that it never
stops a behaviour: a request has at most one row per phase of the flow, one root, and two rows per
round of rework. Rows of different requests only meet in the queue and in the lock tests, so two
requests show the interleavings; the full flow is checked with one request, and the phases between 0
and 4 are all handled by the same code, which the short flow keeps one of. `pair` and `recovery` take
workers, and `git_faults` approvals, as interchangeable (`SYMMETRY`), which no property tells apart.
Different requests have different clones and branches, so `RepositoryWorkspace` has one request. A
phase there differs from phase 4 only in its number, so the flow is 4-5. `MaxFaults` counts crashes,
broken connections and failed fetches, which may come at any step: one to cut a process off and one to
cut off the process that comes after it. A git command that fails ends its request and needs no bound.
Two services and two records are enough for a record to be in the file, in the buffer of one and in
the replay of the other at once; `MaxPending` is needed because a replay that fails doubles the
entries (they go back to the file and to the buffer, and the next replay takes up both), and 4 allows
that once for both records. In `dind` two workers compete for one task's names while a second task is
given ports that a failed removal left bound; three ports keep both workers going after a crash has
leaked one. In `worker` a fault is a broken connection, a crash, an exception, a restart of the server
or a lease that runs out; one is enough to separate a process from its row while the other takes it,
and the row kinds are those the program or its operator can put into the queue. In `checks` a path of
three names can enter the clone, follow a link and leave it again; each sign compose replaces stands
before up to two names; five pieces hold a denied and a plain verdict with a gap between them; three
changes exceed the limit of two, and a directory has one file or more than the limit; depth 3 is the
scanner's default. Deadlock checking is off because a table in which all requests are decided or
stranded has no further step.

Fairness (`Fairness`): every worker process keeps polling (`run_worker` loops for ever and swallows
exceptions), so leasing is weakly fair; finishing a task and recovery are strongly fair, because a
transaction that fails is rolled back and the row is leased again, and the assumption is that it does
not fail for ever; clocks advance. People are not assumed to do anything. In `RepositoryWorkspace`
every git command has a timeout, so a step that can be taken is taken, with success or failure; a
person who approved and got no decision approves again, which is what `ApprovalDecides` is about.
Nobody has to reject, to ask for the diff or to push. In `WorkerCycle` every call returns (git, the
validator and the LLM have time limits), the server is started again and ends the sessions of dead
clients; faults are finite, so no call raises for ever, which a row with a malformed compose file does
(below).

### Disagreements between documents and code

* `stranded`: the orchestration design wants the root blocked when a phase is blocked;
  `_generate_task_result` does not tell the orchestrator of an LLM failure, and the root stays
  `running` for ever.
* `leftover`: when only the deletion of the remote branch failed, approving again shall delete it
  (`phase6-direct-edit-destructive-test-design.md:189`, `:591`); the request is `blocked` by then,
  and an approval of a blocked request is answered 409.

Two more are not runs of their own, and show up when `git_faults` is given other constants:

* With two workers, one approving request, no rework, one worker in `Fragile` and no other faults,
  `RecordedWorkOnRemote` fails. The direct-edit design (`phase6-direct-edit-design.md:132`) goes on
  to the next phase when commit and push succeeded. The row lock is all that keeps two workers out of
  one clone. A worker whose connection broke during `prepare_repository` does not know, and its `git
  checkout -B` can drop the commit of the worker that has the row now; that worker's push then pushes
  nothing, and its phase is recorded. `git_faults` shows that this needs a broken connection.
* With `Outside = {"push_work"}` and no faults, `BranchKeptUntilMerged` fails. A branch must not be
  deleted before it is merged (`:140`). The approval merges the branch of the clone and deletes the
  one on GitHub, commits that somebody else put there included.

The decisions of `checks` differ from their designs on some inputs. The properties say what holds of
these too, and each stronger form fails in TLC with the constants of `checks`:

* Compose paths. Variables other than the two of the runtime directory, and what cannot be resolved,
  are to be refused (`phase7-compose-validation-design.md:19`, `:76`; CVT-22 of its destructive test
  design, `:144`). Only `${...}` with its brace is found: `$HOME/x` and `~/x` are resolved to names
  beneath the clone and pass, and so is the `${HOME` that the split at colons leaves of the volume
  `${HOME:-/x}:/data` (`compose_validator.py:411`, `:473`); compose then binds what the variable holds.
  A lone `$VAR:/data` counts as a named volume and is not looked at (`:479`). `PassedIsHarmless` lets
  such settings be in what passed (`TakenForName`); with `lenient` FALSE it fails. An absolute path
  into the clone passes as well, and the design has an exception for the runtime directory only
  (`:70`); `StaysInside` follows the code there.
* Verdicts. An unclear result must not be taken for an approval (ODT-19,
  `phase6-orchestration-destructive-test-design.md:126`), which `:395` makes a matter of keywords. The
  parsers look for `APPROVED` and for `NOT APPROVED` with one space anywhere in the text
  (`task_backend.py:559`, `phase_orchestrator.py:318`): DISAPPROVED, UNAPPROVED, `NOT **APPROVED**` and
  a NOT at the end of the line before are approvals, CANNOT APPROVED is a rejection. `VerdictHasGround`
  asks for grounds when the words stand alone, one space behind NOT (`PlainlyWritten`); for all
  answers `Grounded` fails.
* Changed files. No commit with a token may be pushed (DT-13,
  `phase6-direct-edit-destructive-test-design.md:89`) and the number of changed files is limited
  (DT-17, `:113`). `git status --short` lists an untracked directory as one entry; the search for
  tokens passes over directories (`repository_workspace.py:499`), the limit counts entries, and a link
  in the directory is not followed either. `CommitTakesEverything` excepts what lies in one
  (`Overlooked`); without that it fails.
* Scanner. SS-01 (`phase2-destructive-test-design.md:109`) wants three stages of decoding, and a
  warning and a person's check beyond. With `max_depth` 3 the text itself is the first level
  (`secret_scanner.py:94`), so two decodings are made; a token encoded three times gets the answer of a
  clean text. `HiddenSecretsFound` says two.
* Librarian. Operations saved during an outage are to be replayed after it (EX-01,
  `phase2-destructive-test-design.md:216`). An append behind a line without an end is answered like
  any other and cannot be read back; it takes a whole entry with it when the line only lacked its
  newline. `KeptUntilLogged` counts the first as lost, and the second where a service has it.

Seen while modelling and not given a run: an approval that finds the target ref gone shall block the
request (direct-edit design `:180`, destructive-test design `:171`) and is answered 404 with the
request still waiting; lease recovery takes a row from `running` to `queued` with its own UPDATE,
which `state_machine.py` has no transition for; `recover_blocked_tasks` also queues blocked roots,
which a worker then runs through an LLM, although the orchestration design keeps roots from the LLM; a
phase row whose flow is empty is committed as succeeded before the flow is looked at, and only its
root is blocked; a request whose approval was cut off after the deletions waits for ever
(`MergedUnrecorded`, which `ApprovalDecides` excepts); a request none of whose phases changed a file
has no remote branch, and the approval that tries to delete it ends `blocked`. With a broken
connection of a worker in place of an approval, `MergedIsAudited` fails too: the worker commits while
an approval has the target ref checked out. In the librarian records in memory are lost when the
remaining entries cannot be written, and the table gets a record twice when an acknowledgement is
lost, a service restarts between insert and the new file, or a second service replays a record the
first still has in its buffer. In the DinD manager a container that `docker run` created and could not
start is never removed, and every later start of its task then fails on its name; the same holds for
what a crashed worker leaves. In the worker loop a row whose transaction always raises (a list where a
compose file has a mapping at top level, `compose_validator.py:238`) is rolled back to the head of its
queue and holds up every younger row; a process that lost its session goes on and may overwrite the
artifact of the run that was recorded (`ArtifactOfRecordedRun` excepts its row); a row without an
instruction column is left `running` until its lease runs out, over and over. At submission a local
path has to lie beneath the dashboard's directory and later beneath `/workspace`, so that every such
request is blocked with `invalid_workspace_path` unless the one contains the other; a service no
worker serves is accepted and stays queued; branch names may have letters of any script when they are
submitted and only ASCII ones when they are merged, which matters as soon as the allow list has such a
name (`SubmissionAssumption`). The dashboard passes requests without the secret scanner, which nothing
but its tests calls.

Seen while proving, and confirmed by TLC with the flow 4-0-5: the root of a request is itself a row of
phase 0 that is `running`, and `select_active_phase_task` does not tell it from a phase row. When a
phase 4 that a rejected audit asked for completes and the flow has phase 0 after it, the orchestrator
finds the root in place of a row of phase 0, adds none, and the request stays `running` with nothing to
run (`HandOver` and `RunningRootExplained` fail). The dashboard only writes the flow 0-5, in which no
phase is followed by phase 0.

## Theorems

`TaskBackendProofs` proves, for every flow, rework limit, set of workers and services and all
bounds, from the named assumptions in `TaskTable`, `PhaseOrchestrator` and `TaskBackend` alone:

* `TypeCorrect`: `Spec => []TypeOK`;
* `LeasesAreExclusive`: `Spec => []LeaseExclusive`;
* `OnePhaseAtATime`: `Spec => []OnlyNewestUnfinished`;
* `RootAgreesWithChain`: `Spec => []RootMirrorsChain`;
* `PhasesInOrder`: `Spec => []ChainOrder`.

The inductive invariant is `IInv == TypeInv /\ LockInv /\ ChainInv`. None of the five is inductive
alone. `TypeInv` adds to the types that phase rows are linked to a root of their own kind below them
(`Linked`), without which a completion could write to a row that does not exist. `LockInv` adds
that a request being approved waits for approval. `ChainInv` says of every phase row that it
continues a finished row (`Continues`), that it has succeeded unless it is the newest row of its
request, and that the root mirrors it if it is: the step that appends a row needs all three, since
the new row is put after the worker's own row, which is the newest because it is unfinished
(`UnfinishedIsNewest`), and takes its round from the root, which mirrors it. Each action has an
effect lemma (`AppendEffect`, `BlockRootEffect`, ...) that says which columns it writes, and the
step lemmas use only those.

`RequestProofs` goes on from there to what `TaskBackend` promises of a request from its submission to
its end:

| Theorem | States | Hypotheses |
|---|---|---|
| `TransitionsAllowed` | `OnlyAllowedTransitions` | no bare rows |
| `DecisionsLast` | `DecidedStaysDecided` | |
| `OneRunPerRound` | `PhaseRunOnce` | |
| `NothingBetweenPhases` | `HandOver` | `ZeroOnlyFirst` |
| `AuditBeforeApproval` | `ApprovalGate` | no recovery of blocked rows |
| `RunningExplained` | `RunningRootExplained` | no recovery of blocked rows, `ZeroOnlyFirst` |
| `RequestsFollowLifecycle` | `ImplementsLifecycle` | no recovery of blocked rows |
| `PageIsConsistent` | `PageSpec => []PageAgrees` | no recovery of blocked rows |

The hypotheses are on constants, and each is where the property stops holding. Bare rows, which a
script may insert, are queued again from `running` by lease recovery with an UPDATE of its own.
`recover_blocked_tasks`, which an operator may call, queues blocked rows of decided requests.
`ZeroOnlyFirst` says that phase 0 is at the head of the flow or nowhere, as in the flow that the
dashboard writes (`dashboard.py:185`); why it is needed is under *Disagreements*.

Each property needed its own strengthening of `IInv`. `CInv` adds which status and lease a committed
row of each kind can have (`ColumnsOf`); the transition and hand-over theorems read off it what a
completion or a recovery finds. `RoundInv` orders a chain: of two rows of a request the newer
one is of a later round, or of a later phase in the same (`Later`), which is stronger than
`PhaseRunOnce` and unlike it inductive, because the orchestrator appends after the newest row. `GateInv`
says what the newest phase row tells of its root: a root that waits for approval or was merged has a
succeeded phase 5 as its newest row and the verdict approved, and a root that does not run has no
phase in the queue. `RunningInv` says of a root that runs that its newest row is queued or lost to the
LLM. The step simulation maps a request to its lifecycle through the newest row (`StageInv`), with a
lemma per way a request moves (`StepEffect`, `StatusChange`, `ChainEvent`): a commit of a worker, an
approval or a recovery is one step of `RequestLifecycle` for its own request and a stutter for the
others. `PageInv` says what stays true of the table after a page has loaded its task: the row of the
phase it shows is there, a request that has stopped running does not run again, and one that waits for
approval keeps its succeeded phases.

`RepositoryWorkspaceProofs` proves, for any flow, rework limit, workers, approving requests and number
of faults, from `RepositoryWorkspaceAssumption`:

* without hypotheses: `TypeCorrect` (`TypeOK`) and `GitFollowsLifecycle` (`StepsOfLifecycle`, by step
  simulation: whatever git, outside pushes and broken connections do, the request moves as its
  lifecycle allows, because a status is only written by a process that owns the row);
* while no worker loses its connection (`SteadyWorkers`), each under what else it needs of the
  others who use the repository on GitHub, `TargetStays` (nobody deletes the target ref) or
  `BranchIsOurs` (nobody else pushes to the working branch):

| theorem | property | needs besides `SteadyWorkers` |
|---|---|---|
| `OnlyAuditedIsMerged` | `MergedIsAudited` | nothing |
| `RecordedWorkIsOnRemote` | `RecordedWorkOnRemote` | `TargetStays` |
| `SucceededIsMerged` | `SucceededMeansMerged` | `TargetStays` |
| `PushesAreFastForward` | `PushIsFastForward` | `BranchIsOurs` |
| `OneMerge` | `MergedOnce` | `BranchIsOurs` |
| `BranchesKeptUntilMerged` | `BranchKeptUntilMerged` | `TargetStays`, `BranchIsOurs` |

Crashes of any process at any step, git commands that fail or time out, lost answers, pushes by others
to the target ref and approvals that go on with their git commands after losing their connection are
allowed in all of them; `git_faults` checks that much. None of the hypotheses can be left out: TLC has
a counterexample for each of them in each row of the table. Without `BranchIsOurs` or `TargetStays` it
takes the constants of `git_faults` with `Outside = {"push_main", "push_work"}` or `{"push_main",
"drop_main"}`. Without `SteadyWorkers` it takes two workers, one of them in `Fragile`, for four of the
rows; for `MergedOnce` and `SucceededMeansMerged` TLC finds none there, and one with three workers, two
of them in `Fragile`, and three faults (see *Disagreements*).

The invariant `WorkInv` has two halves, split at the approving audit. Before it (`BeforeAudit`) the
target ref has nothing of the request, what was recorded is on the remote working branch, and the
worker that has the row knows where that branch is (`AtWork`): its clone is based on the remote's, and
an edit of its run is in the working tree, then in the local branch, then on the remote, as it goes
from command to command. After it (`AfterAudit`) both working branches are what was audited, with what
others pushed (`Extends`), or gone, in an order: the branch on GitHub goes after the target ref has it,
and any approving request, cut off or not, is as far as its program counter says (`AtMerge`). That
nobody pushed to a branch when nobody may is in its type (`Branch`, `NoneByOthers`). Two approving
requests in one clone do not disturb each other because a merge of a branch that is merged already
makes no commit, which is `OnlyAudited`: a target ref has all that was audited
as soon as it has a merge commit. `WorkerMoves` and `ApproverMoves` say once which steps a process has,
and each property follows from `WorkInv` in a few lines.

`WorkerCycleProofs` proves, for any processes, rows, columns, retries and faults, from
`WorkerCycleAssumption`: `WorkerTypeCorrect` (`TypeOK`), `ProcessesAreCleanBetweenCycles`
(`CleanBetweenCycles`) and `ArtifactsMatchTheRecord` (`ArtifactOfRecordedRun`). The invariant says
that a process has a row in hand exactly between lease and commit, with depth 1 (`Opened`); that it
holds the lock of that row, and of no other, unless its session ended (`Locked`), which is what makes
rows in the hands of two processes impossible but for orphaned ones; and that a draft which will
succeed was preceded by the artifact of its own process (`Kept`).

`TaskRunProofs` proves `WorkersImplementTaskRun` (`Spec => ImplementsTaskRun`) by step simulation: a
commit maps to `Decide` or `LeaveRunning`, the recovery of expired leases to `Requeue`, every other
step to a stutter. It needs an invariant on drafts (`Drafted`): what a transaction has logged so far
fits the call it is at, for instance that nothing but the last event blocks. Five lemmas on the
concatenation of logs carry it.

`InputChecksProofs` proves what `checks` enumerates for every input:

* `OnlyHarmlessProjectsPass` (`PassedIsHarmless`), for any roots, links and sets of files, in two
  directions from one path (`PathLetThrough`) to all files: what is harmless passes, and what passes
  is harmless but for paths taken for names (`SourceKnown` says which those are);
* `VerdictsHaveGround` (`VerdictHasGround`), for answers of any length: on plain writing finding the
  text of a denial is finding the denial (`DenialsFound`);
* `AcceptedRequestsCanFinish` (`AcceptedCanFinish`), for any allow list of ASCII names;
* `CommitsTakeEverything` (`CommitTakesEverything`), for working trees of any size and any limit;
* `HiddenSecretsAreFound` (`HiddenSecretsFound`), for any depth, any set of secrets and whatever the
  decoders make of a text.

They need no invariant: every behaviour is one call.

The last one is an induction over the depth. The provers cannot use an induction theorem that takes a
predicate, so the two lemmas `Downwards` and `Upwards` take the set of numbers for which a claim
holds, and rest on `SmallestOf`: a set of numbers has a smallest, by the library's theorems about
well-founded relations, so there is no smallest number the claim fails for. They show first that the
recursive functions `ScanRecursive` and `Decoded` exist and obey their equations (`ScanObeys`,
`DecodedObeys`), then that a blocked text has a secret at the reported depth (`BlockedHasSecret`), and
that a passed one has none (`PassedHasNone`). The code passes over a decoder that gives a text back;
that this loses nothing is `BlockedSooner`: what is blocked at a depth is blocked when it is met at a
smaller one.

`DindManagerProofs` proves, for any callers, tasks, ports and bounds, from `DindManagerAssumption`:
`DindTypeCorrect` (`TypeOK`), `CallsLeaveNothing` (`NothingLeftBehind`), `PortsOutliveContainers`
(`BoundPortsReserved`) and the action property `CallsRemoveTheirOwn` (`OnlyOwnRemoved`). The invariant
says that a set flag stands for something the caller made and nobody else removed (`Flags`), that a
caller that nothing went wrong for knows of all it made (`Known`), and that ports in a call are
reserved for it and no others are (`Held`).

`LibrarianWalProofs` proves, for any services, records and `MaxPending`, from `LibrarianWalAssumption`:

* `WalTypeCorrect`: `Spec => []TypeOK`;
* `ReplayEmptiesBoth`: `Spec => ReplayDrains`;
* `SavedRecordsSurvive`: `Spec => []SavedUntilLogged`;
* `AcceptedRecordsKept`: `Spec => []KeptUntilLogged`;
* `RecordsInsertedOnce`: `Spec => []InsertedOnce`.

`AcceptedRecordsKept` is about lines that no later append can spoil: an entry whose line lacks only
its newline is counted where a service has it, since the next append takes it out of the file. Two
losses are left in it, and are what `lost` stands for: the record of an append behind a line without
an end, and what only one service had, in its buffer or in a replay, when that service stopped or its
replay raised.

Its invariant adds to these that only the holder of the lock has entries in hand and that whatever
the file has is among them or was inserted (`OneReplay`), which is why replacing the file drops
nothing, and that replayed ids are in the table and were inserted once (`ReplayedIsLogged`). There is
one lemma per action; what it does to the entries follows from three lemmas on `Range`.

Every safety property and every refinement that a passing run checks is a theorem; the type
invariants are theorems only and not repeated in the runs.

Model-checked only: the liveness properties (`RequestSettles`, `ZombiesRequeued`, `ApprovalDecides`,
`PhasesEnd`, `QueuedRowsRun`), since the prover has neither `ENABLED` nor a rule for fairness; and the
two disagreements of `stranded` and `leftover`, which are counterexamples.

## Not modelled, and the plan

What could be done next, in this order:

1. Requests whose worker lost its connection: what still holds of them, in the way
   `ArtifactOfRecordedRun` excepts the rows recovery handed on, and with it the git theorems without
   `SteadyWorkers`.
2. The invariants that the liveness properties rest on, as theorems: that a row left `running` is one
   recovery will find, and that what is not decided has a step enabled in terms of the table.
3. The port allocator table of `database.py`, which no module has yet.

`list_repository_branches`, `list_merge_targets` and the lists of the dashboard only read. The
secret scanner's decoders, patterns and entropy measure are text processing, and inputs of the model.
Of the sandbox and the file operations only the path test is modelled: the rest has no caller in the
services. `contracts.py` is constant tables and a digest for tests. Start-up scripts, apart from
`run_worker`, and the user interface keep no state. The LLM client's command line and its reading of
error texts are left out; its retries and outcomes are in `WorkerCycle`.
