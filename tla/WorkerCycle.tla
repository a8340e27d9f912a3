---------------------------- MODULE WorkerCycle ----------------------------
(***************************************************************************)
(* The loop of a worker process (run_worker, WorkerEngine) and, call by    *)
(* call, the one transaction of MariaDBTaskBackend.process_next_queued_task*)
(* on a connection that can break at any time.  A process learns of that   *)
(* at its next SQL statement, or in ensure_connection; git, the compose    *)
(* validator and the LLM do not tell it.  TaskBackend takes this whole     *)
(* transaction as one step, RepositoryWorkspace opens its git commands.    *)
(***************************************************************************)
EXTENDS Integers, Sequences

CONSTANTS
  Worker,      \* worker processes of one service
  Task,        \* row ids, in the order of created_at
  Tables,      \* contents the queue may start with: what the columns of each
               \* row make the code do (see RowType)
  MaxRetries,  \* LLM_MAX_RETRIES
  PushFailure, \* the events a failed commit_and_push is mapped to
  Nobody,      \* holder of a row nobody has locked
  Ghost,       \* a session whose process is gone and the server has not noticed
  MaxFaults    \* bound: broken connections, crashes, unexpected exceptions,
               \* server restarts and leases that run out

\* payload_json: NULL, without an instruction, with one.  workspace_path: NULL,
\* outside /workspace, inside.  target_repo and working_branch: neither, only
\* the repository, both.  "phase" and "audit" are rows of a chain.
RowType ==
  [payload : {"null", "incomplete", "instruction"},
   workspace : {"null", "outside", "inside"},
   repository : {"none", "branchless", "full"},
   compose : BOOLEAN,
   role : {"single", "root", "phase", "audit"}]

ASSUME WorkerCycleAssumption ==
  /\ Task \subseteq Int \ {0}
  /\ Tables \subseteq [Task -> RowType]
  /\ PushFailure \subseteq
       {"git_commit_failed", "git_push_failed", "too_many_changed_files",
        "secret_in_changed_files", "git_metadata_write_forbidden", "path_traversal",
        "symlink_escape", "phase_edit_failed"}
  /\ MaxRetries \in Nat /\ MaxFaults \in Nat
  /\ Nobody \notin Worker /\ Ghost \notin Worker /\ Nobody # Ghost

VARIABLES
  row,         \* the columns of each row that do not change
  status,      \* the status column, committed
  told,        \* events of the last transaction committed for a row
  expired,     \* rows whose lease has run out
  owner,       \* the session that holds the row lock
  server,      \* MariaDB is up
  conn,        \* whether the process's connection still works
  depth,       \* MariaDBAccessor._transaction_depth
  pc,          \* the next call of the process
  job,         \* the row it has leased, or 0
  draft,       \* what its transaction has written: status and events
  attempt,     \* LLMClient.generate: retries so far
  stop,        \* stop_event
  faults,      \* faults so far
  artifact,    \* the process whose artifacts/llm_response.md is on disk
  recorded,    \* history: the process whose result was committed
  orphaned     \* history: rows whose session ended under a process working on them

table == <<status, told, expired, recorded>>
local == <<conn, depth, pc, job, draft, attempt, stop>>
past  == <<faults, artifact, orphaned>>
vars  == <<row, server, owner, table, local, past>>

NoDraft == [status |-> "queued", events |-> <<>>]

Init ==
  /\ row \in Tables
  /\ status = [t \in Task |-> "queued"]
  /\ told = [t \in Task |-> <<>>]
  /\ expired = {}
  /\ owner = [t \in Task |-> Nobody]
  /\ server = TRUE
  /\ conn = [w \in Worker |-> "up"]
  /\ depth = [w \in Worker |-> 0]
  /\ pc = [w \in Worker |-> "ensure"]
  /\ job = [w \in Worker |-> 0]
  /\ draft = [w \in Worker |-> NoDraft]
  /\ attempt = [w \in Worker |-> 0]
  /\ stop = [w \in Worker |-> FALSE]
  /\ faults = 0
  /\ artifact = [t \in Task |-> Nobody]
  /\ recorded = [t \in Task |-> Nobody]
  /\ orphaned = {}

InTransaction(w) == job[w] # 0

\* The row locks of a session that ends go to h: Nobody, or Ghost for now.
Released(w, h) == [t \in Task |-> IF owner[t] = w THEN h ELSE owner[t]]

-----------------------------------------------------------------------------
(* MariaDBAccessor.transaction.                                            *)

\* Slip: only the normal end counts the transaction down.
AbandonKeepsDepth(w) ==
  /\ owner' = IF depth[w] = 1 THEN Released(w, Nobody) ELSE owner
  /\ pc' = [pc EXCEPT ![w] = "wait"]
  /\ job' = [job EXCEPT ![w] = 0]
  /\ draft' = [draft EXCEPT ![w] = NoDraft]
  /\ attempt' = [attempt EXCEPT ![w] = 0]
  /\ UNCHANGED depth

\* An exception leaves the block: rollback, and run_worker logs it.
Abandon(w) ==
  /\ depth' = [depth EXCEPT ![w] = @ - 1]
  /\ owner' = IF depth'[w] = 0 THEN Released(w, Nobody) ELSE owner
  /\ pc' = [pc EXCEPT ![w] = "wait"]
  /\ job' = [job EXCEPT ![w] = 0]
  /\ draft' = [draft EXCEPT ![w] = NoDraft]
  /\ attempt' = [attempt EXCEPT ![w] = 0]

\* SQL statements: they raise if the connection is broken.
Write(w, s, events, next) ==
  \/ /\ conn[w] = "up"
     /\ draft' = [draft EXCEPT ![w] = [status |-> s, events |-> @.events \o events]]
     /\ pc' = [pc EXCEPT ![w] = next]
     /\ UNCHANGED <<owner, depth, job, attempt>>
  \/ /\ conn[w] = "lost"
     /\ Abandon(w)

\* update_task_status, insert_log, and the block is left with `return True`.
Block(w, events) == Write(w, "blocked", events, "commit")

Say(w, events, next) == Write(w, "running", events, next)

-----------------------------------------------------------------------------
(* Between two transactions.                                               *)

\* Slip: only a connection that works is kept, a broken one is not replaced.
EnsureConnectionOnce(w) ==
  /\ pc[w] = "ensure"
  /\ pc' = [pc EXCEPT ![w] = IF conn[w] = "up" THEN "recover" ELSE "wait"]
  /\ UNCHANGED <<row, server, owner, table, conn, depth, job, draft, attempt, stop, past>>

\* ping(reconnect=True), else a new connection and a new backend on it.
EnsureConnection(w) ==
  /\ pc[w] = "ensure"
  /\ IF server
     THEN /\ pc' = [pc EXCEPT ![w] = "recover"]
          /\ conn' = [conn EXCEPT ![w] = "up"]
          /\ \/ UNCHANGED depth
             \/ conn[w] = "lost" /\ depth' = [depth EXCEPT ![w] = 0]
     ELSE /\ pc' = [pc EXCEPT ![w] = "wait"]
          /\ UNCHANGED <<conn, depth>>
  /\ UNCHANGED <<row, server, owner, table, job, draft, attempt, stop, past>>

\* recover_expired_tasks: a transaction of its own.
RecoverExpired(w) ==
  LET found == {t \in expired : owner[t] = Nobody}
  IN  /\ pc[w] = "recover"
      /\ IF conn[w] = "up"
         THEN /\ pc' = [pc EXCEPT ![w] = "lease"]
              /\ status' = [t \in Task |-> IF t \in found THEN "queued" ELSE status[t]]
              /\ told' = [t \in Task |->
                   IF t \in found THEN <<"task_recovered">> ELSE told[t]]
              /\ expired' = expired \ found
         ELSE /\ pc' = [pc EXCEPT ![w] = "wait"]
              /\ UNCHANGED <<status, told, expired>>
      /\ UNCHANGED <<row, server, owner, conn, depth, job, draft, attempt, stop,
                     recorded, past>>

\* Sleep for SERVICE_LOOP_INTERVAL_SEC, or the signal.
Wait(w) ==
  /\ pc[w] = "wait"
  /\ IF stop[w]
     THEN /\ pc' = [pc EXCEPT ![w] = "stopped"]
          /\ conn' = [conn EXCEPT ![w] = "lost"]
          /\ owner' = Released(w, Nobody)
     ELSE /\ pc' = [pc EXCEPT ![w] = "ensure"]
          /\ UNCHANGED <<conn, owner>>
  /\ UNCHANGED <<row, server, table, depth, job, draft, attempt, stop, past>>

-----------------------------------------------------------------------------
(* process_next_queued_task.                                               *)

Oldest(S) == {t \in S : \A u \in S : t =< u}

\* Slip: the scan takes no lock.
NextQueuedUnlocked(w) == Oldest({t \in Task : status[t] = "queued"})

\* FOR UPDATE SKIP LOCKED.
NextQueued(w) ==
  Oldest({t \in Task : status[t] = "queued" /\ owner[t] = Nobody})

\* The first call after the lease, by what the columns of the row hold.
FirstCall(t) ==
  IF row[t].repository = "full" /\ row[t].workspace = "inside"
  THEN "prepare" ELSE "instruct"

\* select_next_queued_task, atomic_lease, mark_task_running, task_started.
LeaseNext(w) ==
  /\ pc[w] = "lease"
  /\ IF conn[w] = "lost" \/ NextQueued(w) = {}
     THEN /\ pc' = [pc EXCEPT ![w] = "wait"]
          /\ UNCHANGED <<owner, depth, job, draft>>
     ELSE \E t \in NextQueued(w) :
          /\ owner' = [owner EXCEPT ![t] = w]
          /\ depth' = [depth EXCEPT ![w] = @ + 1]
          /\ job' = [job EXCEPT ![w] = t]
          /\ IF row[t].workspace = "outside"
             THEN /\ draft' = [draft EXCEPT ![w] =
                       [status |-> "blocked",
                        events |-> <<"task_started", "invalid_workspace_path">>]]
                  /\ pc' = [pc EXCEPT ![w] = "commit"]
             ELSE /\ draft' = [draft EXCEPT ![w] =
                       [status |-> "running", events |-> <<"task_started">>]]
                  /\ pc' = [pc EXCEPT ![w] = FirstCall(t)]
  /\ UNCHANGED <<row, server, table, conn, attempt, stop, faults, artifact, orphaned>>

\* What no step of the transaction but its end touches.
Inside(w) == UNCHANGED <<row, server, table, conn, stop, faults, orphaned>>

\* prepare_repository: seconds to minutes of git.
PrepareRepository(w) ==
  /\ pc[w] = "prepare"
  /\ \/ row[job[w]].compose /\ Say(w, <<"repository_prepared">>, "validate")
     \/ /\ ~row[job[w]].compose
        /\ Say(w, <<"repository_prepared", "phase_flow_initialized">>, "instruct")
     \/ Block(w, <<"repository_prepare_failed">>)
  /\ Inside(w) /\ UNCHANGED artifact

\* Slip: a blocked compose file is reported and the task goes on.
ValidateComposeOnly(w) ==
  /\ pc[w] = "validate"
  /\ \E e \in {"compose_validation_passed", "compose_validation_blocked"} :
       Say(w, <<"compose_validation_started", e, "phase_flow_initialized">>, "instruct")
  /\ Inside(w) /\ UNCHANGED artifact

\* _validate_repository_compose; what it decides is in ComposeValidator.
ValidateCompose(w) ==
  /\ pc[w] = "validate"
  /\ \/ Say(w, <<"compose_validation_started", "compose_validation_passed",
                 "phase_flow_initialized">>, "instruct")
     \/ Block(w, <<"compose_validation_started", "compose_validation_blocked">>)
  /\ Inside(w) /\ UNCHANGED artifact

\* _extract_instruction, _build_prompt and _get_llm_client, up to the call of the
\* LLM.  Without a usable configuration there is no client: the row is blocked
\* by an LLM failure that was never logged as started.
ReadInstruction(w) ==
  LET payload == row[job[w]].payload
  IN  /\ pc[w] = "instruct"
      /\ \/ /\ payload = "null"
            /\ pc' = [pc EXCEPT ![w] = "commit"]
            /\ UNCHANGED <<owner, depth, job, draft, attempt>>
         \/ payload = "incomplete" /\ Block(w, <<"invalid_instruction">>)
         \/ /\ payload = "instruction"
            /\ \/ Say(w, <<"llm_generation_started">>, "generate")
               \/ Block(w, <<"llm_generation_failed">>)
      /\ Inside(w) /\ UNCHANGED artifact

\* LLMClient.generate: an answer, another attempt, or an LLM error.
Generate(w) ==
  /\ pc[w] = "generate"
  /\ \/ /\ pc' = [pc EXCEPT ![w] = "keep"]
        /\ UNCHANGED <<owner, depth, job, draft, attempt>>
     \/ /\ attempt[w] < MaxRetries
        /\ attempt' = [attempt EXCEPT ![w] = @ + 1]
        /\ UNCHANGED <<owner, depth, job, draft, pc>>
     \/ Block(w, <<"llm_generation_failed">>)
  /\ Inside(w) /\ UNCHANGED artifact

(***************************************************************************)
(* The response is sanitized, measured, written to the artifact, and kept  *)
(* in the payload of a phase row.  Too large, or no place for it: an LLM   *)
(* failure.                                                                *)
(***************************************************************************)
KeepResponse(w) ==
  LET t == job[w]
  IN  /\ pc[w] = "keep"
      /\ \/ /\ row[t].workspace = "inside"
            /\ artifact' = [artifact EXCEPT ![t] = w]
            /\ IF row[t].role \in {"phase", "audit"}
               THEN Say(w, <<>>, "settle")
               ELSE /\ pc' = [pc EXCEPT ![w] = "settle"]
                    /\ UNCHANGED <<owner, depth, job, draft, attempt>>
         \/ Block(w, <<"llm_generation_failed">>) /\ UNCHANGED artifact
      /\ Inside(w)

Succeed(w, s, events) ==
  Write(w, s, <<"llm_generation_succeeded">> \o events, "commit")

\* By target_repo, workspace_path, working_branch and phase.
Settle(w) ==
  LET t == job[w]
  IN  /\ pc[w] = "settle"
      /\ \/ /\ row[t].repository = "none" \/
               (row[t].repository = "full" /\ row[t].role = "audit")
            /\ Succeed(w, "succeeded", <<>>)
         \/ /\ row[t].repository = "branchless"
            /\ Block(w, <<"invalid_repository_context">>)
         \/ /\ row[t].repository = "full" /\ row[t].role # "audit"
            /\ pc' = [pc EXCEPT ![w] = "push"]
            /\ UNCHANGED <<owner, depth, job, draft, attempt>>
      /\ Inside(w) /\ UNCHANGED artifact

\* Only a root row carries approval_required.
TargetStatus(t) == IF row[t].role = "root" THEN "waiting_approval" ELSE "succeeded"

\* commit_and_push, with _map_commit_push_error_to_event.
CommitAndPush(w) ==
  /\ pc[w] = "push"
  /\ \/ \E events \in {<<"git_commit_succeeded", "git_push_succeeded">>,
                       <<"phase_edit_no_changes">>} :
          Succeed(w, TargetStatus(job[w]), events)
     \/ \E e \in PushFailure : Block(w, <<e>>)
  /\ Inside(w) /\ UNCHANGED artifact

-----------------------------------------------------------------------------
(* The end of the transaction.                                             *)

\* What a commit makes of the table.
Committed(w) ==
  LET t == job[w]
  IN  /\ status' = [status EXCEPT ![t] = draft[w].status]
      /\ told' = [told EXCEPT ![t] = draft[w].events]
      /\ recorded' = [recorded EXCEPT ![t] =
           IF draft[w].status \in {"succeeded", "waiting_approval"} THEN w ELSE @]
      /\ UNCHANGED expired

\* What the process does, whether the commit took effect or not.
LeftBlock(w) ==
  /\ depth' = [depth EXCEPT ![w] = @ - 1]
  /\ pc' = [pc EXCEPT ![w] = "wait"]
  /\ job' = [job EXCEPT ![w] = 0]
  /\ draft' = [draft EXCEPT ![w] = NoDraft]
  /\ attempt' = [attempt EXCEPT ![w] = 0]
  /\ UNCHANGED <<row, server, stop, artifact, orphaned>>

(***************************************************************************)
(* Only the transaction that began the work commits it.  A commit that     *)
(* raises is not rolled back: the connection is gone.                      *)
(***************************************************************************)
Commit(w) ==
  /\ pc[w] = "commit"
  /\ LeftBlock(w)
  /\ IF conn[w] = "up" /\ depth[w] = 1
     THEN Committed(w) /\ owner' = Released(w, Nobody)
     ELSE UNCHANGED <<table, owner>>
  /\ UNCHANGED <<conn, faults>>

Fault == faults < MaxFaults /\ faults' = faults + 1

\* The connection breaks during the commit, which took effect or did not.
CommitUnanswered(w) ==
  /\ pc[w] = "commit" /\ conn[w] = "up" /\ depth[w] = 1
  /\ Fault
  /\ LeftBlock(w)
  /\ Committed(w) \/ UNCHANGED table
  /\ owner' = Released(w, Nobody)
  /\ conn' = [conn EXCEPT ![w] = "lost"]

-----------------------------------------------------------------------------
(* What goes wrong.                                                        *)

InHand == {job[w] : w \in Worker} \ {0}

\* The server ends the session at once, or finds out later.
LoseConnection(w) ==
  /\ conn[w] = "up" /\ pc[w] # "stopped"
  /\ Fault
  /\ conn' = [conn EXCEPT ![w] = "lost"]
  /\ \E h \in {Nobody, Ghost} : owner' = Released(w, h)
  /\ orphaned' = orphaned \cup ({job[w]} \ {0})
  /\ UNCHANGED <<row, server, table, depth, pc, job, draft, attempt, stop, artifact>>

\* An exception nothing is prepared for, in any call of the transaction.
Raise(w) ==
  /\ InTransaction(w)
  /\ Fault
  /\ Abandon(w)
  /\ UNCHANGED <<row, server, table, conn, stop, artifact, orphaned>>

\* The process is killed; it is started again unless it was told to stop.
Crash(w) ==
  /\ pc[w] # "stopped"
  /\ Fault
  /\ pc' = [pc EXCEPT ![w] = IF stop[w] THEN "stopped" ELSE "ensure"]
  /\ conn' = [conn EXCEPT ![w] = "lost"]
  /\ depth' = [depth EXCEPT ![w] = 0]
  /\ job' = [job EXCEPT ![w] = 0]
  /\ draft' = [draft EXCEPT ![w] = NoDraft]
  /\ attempt' = [attempt EXCEPT ![w] = 0]
  /\ \E h \in {Nobody, Ghost} : owner' = Released(w, h)
  /\ UNCHANGED <<row, server, table, stop, artifact, orphaned>>

ServerStops ==
  /\ server
  /\ Fault
  /\ server' = FALSE
  /\ conn' = [w \in Worker |-> "lost"]
  /\ owner' = [t \in Task |-> Nobody]
  /\ orphaned' = orphaned \cup InHand
  /\ UNCHANGED <<row, table, depth, pc, job, draft, attempt, stop, artifact>>

ServerStarts ==
  /\ ~server
  /\ server' = TRUE
  /\ UNCHANGED <<row, owner, table, local, past>>

\* wait_timeout or the keep-alive of the connection.
DropGhosts ==
  /\ \E t \in Task : owner[t] = Ghost
  /\ owner' = [t \in Task |-> IF owner[t] = Ghost THEN Nobody ELSE owner[t]]
  /\ UNCHANGED <<row, server, table, local, past>>

\* An hour after a row was committed as running.
ExpireLease(t) ==
  /\ status[t] = "running" /\ t \notin expired
  /\ Fault
  /\ expired' = expired \cup {t}
  /\ UNCHANGED <<row, server, owner, status, told, recorded, local, artifact, orphaned>>

\* SIGTERM or SIGINT.
Signal(w) ==
  /\ ~stop[w] /\ pc[w] # "stopped"
  /\ stop' = [stop EXCEPT ![w] = TRUE]
  /\ UNCHANGED <<row, server, owner, table, conn, depth, pc, job, draft, attempt, past>>

Step(w) ==
  \/ EnsureConnection(w) \/ RecoverExpired(w) \/ LeaseNext(w)
  \/ PrepareRepository(w) \/ ValidateCompose(w) \/ ReadInstruction(w)
  \/ Generate(w) \/ KeepResponse(w) \/ Settle(w) \/ CommitAndPush(w)
  \/ Commit(w) \/ Wait(w)

Next ==
  \/ \E w \in Worker :
       \/ Step(w) \/ CommitUnanswered(w) \/ Signal(w)
       \/ LoseConnection(w) \/ Raise(w) \/ Crash(w)
  \/ ServerStops \/ ServerStarts \/ DropGhosts
  \/ \E t \in Task : ExpireLease(t)

Spec == Init /\ [][Next]_vars

\* Every call returns: git, the validator and the LLM have time limits.
Fairness ==
  /\ \A w \in Worker : WF_vars(Step(w))
  /\ WF_vars(ServerStarts) /\ WF_vars(DropGhosts)

FairSpec == Spec /\ Fairness

-----------------------------------------------------------------------------
(* Properties.                                                             *)

Calls == {"prepare", "validate", "instruct", "generate", "keep", "settle", "push"}

TypeOK ==
  /\ row \in [Task -> RowType]
  /\ status \in [Task -> {"queued", "running", "blocked", "succeeded", "waiting_approval"}]
  /\ \A t \in expired : status[t] = "running"
  /\ owner \in [Task -> Worker \cup {Nobody, Ghost}]
  /\ server \in BOOLEAN /\ faults \in 0 .. MaxFaults
  /\ conn \in [Worker -> {"up", "lost"}]
  /\ depth \in [Worker -> 0 .. 1]
  /\ pc \in [Worker -> Calls \cup {"ensure", "recover", "lease", "commit", "wait", "stopped"}]
  /\ job \in [Worker -> Task \cup {0}]
  /\ \A w \in Worker : draft[w].status \in {"queued", "running", "blocked", "succeeded",
                                            "waiting_approval"}
  /\ attempt \in [Worker -> 0 .. MaxRetries]
  /\ stop \in [Worker -> BOOLEAN]
  /\ artifact \in [Task -> Worker \cup {Nobody}]
  /\ recorded \in [Task -> Worker \cup {Nobody}]
  /\ orphaned \subseteq Task

(***************************************************************************)
(* Whatever raised, and wherever: a process that is between two cycles has *)
(* no transaction open and no row locked, so its next cycle begins one of  *)
(* its own, and a process that has stopped leaves nothing behind.          *)
(***************************************************************************)
CleanBetweenCycles ==
  \A w \in Worker : pc[w] \notin Calls \cup {"commit"} =>
    /\ depth[w] = 0 /\ job[w] = 0 /\ draft[w] = NoDraft
    /\ \A t \in Task : owner[t] # w

(***************************************************************************)
(* The artifact on disk is the one of the run whose result was committed,  *)
(* although several processes may run a row.  The exception is a row whose *)
(* session ended under a process: that process does not know, goes on, and *)
(* may write its artifact over that of the run that was recorded.          *)
(***************************************************************************)
ArtifactOfRecordedRun ==
  \A t \in Task \ orphaned :
    status[t] \in {"succeeded", "waiting_approval"} => artifact[t] = recorded[t]

(***************************************************************************)
(* A row is decided once, in one commit with the logs that tell what       *)
(* became of it, through broken connections, crashes, exceptions, restarts *)
(* of the server and commits whose answer is lost.                         *)
(***************************************************************************)
TR == INSTANCE TaskRun
ImplementsTaskRun == TR!Spec

(***************************************************************************)
(* A queued row is taken and its transaction committed, once nothing goes  *)
(* wrong any more, unless every process has been told to stop.             *)
(***************************************************************************)
QueuedRowsRun ==
  \A t \in Task :
    status[t] = "queued" ~> status[t] # "queued" \/ \A w \in Worker : stop[w]

=============================================================================
