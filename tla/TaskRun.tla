------------------------------ MODULE TaskRun ------------------------------
(***************************************************************************)
(* What a worker promises about the rows of the queue, whatever happens to *)
(* its connection, its process and the commands it runs: a row is decided  *)
(* once, and the logs committed with the decision say which one it was.    *)
(***************************************************************************)
EXTENDS Naturals, Sequences

CONSTANT Task    \* rows of the queue

VARIABLES
  status,        \* the status column
  told           \* the events of the last transaction committed for the row

\* The events that tell a reader of the logs why a row is blocked.
BlockingEvent ==
  {"invalid_workspace_path", "repository_prepare_failed",
   "compose_validation_blocked", "invalid_instruction",
   "llm_generation_failed", "invalid_repository_context",
   "git_commit_failed", "git_push_failed", "too_many_changed_files",
   "secret_in_changed_files", "git_metadata_write_forbidden",
   "path_traversal", "symlink_escape", "phase_edit_failed"}

Said(log, e) == \E i \in DOMAIN log : log[i] = e

Begins(log) == log # <<>> /\ Head(log) = "task_started"

\* Work of the LLM is reported before what became of it.
Worked(log) ==
  \E i, j \in DOMAIN log :
    i < j /\ log[i] = "llm_generation_started" /\ log[j] = "llm_generation_succeeded"

TellsBlocked(log) ==
  /\ Begins(log)
  /\ log[Len(log)] \in BlockingEvent
  /\ \A i \in DOMAIN log : i < Len(log) => log[i] \notin BlockingEvent
  /\ ~Said(log, "llm_generation_succeeded")

TellsDone(log) ==
  /\ Begins(log)
  /\ Worked(log)
  /\ ~\E e \in BlockingEvent : Said(log, e)
  /\ Said(log, "git_push_succeeded") => Said(log, "git_commit_succeeded")

Init ==
  /\ status = [t \in Task |-> "queued"]
  /\ told = [t \in Task |-> <<>>]

Decide(t) ==
  /\ status[t] = "queued"
  /\ \E s \in {"blocked", "succeeded", "waiting_approval"} :
       status' = [status EXCEPT ![t] = s]
  /\ told' = [told EXCEPT ![t] = told'[t]]
  /\ IF status'[t] = "blocked" THEN TellsBlocked(told'[t]) ELSE TellsDone(told'[t])

\* A row without anything to do is left running until its lease has run out.
LeaveRunning(t) ==
  /\ status[t] = "queued"
  /\ status' = [status EXCEPT ![t] = "running"]
  /\ told' = [told EXCEPT ![t] = told'[t]]
  /\ Begins(told'[t]) /\ ~Said(told'[t], "llm_generation_started")

Requeue(T) ==
  /\ \A t \in T : status[t] = "running"
  /\ status' = [t \in Task |-> IF t \in T THEN "queued" ELSE status[t]]
  /\ told' = [t \in Task |-> IF t \in T THEN <<"task_recovered">> ELSE told[t]]

Next ==
  \/ \E t \in Task : Decide(t) \/ LeaveRunning(t)
  \/ \E T \in SUBSET Task : T # {} /\ Requeue(T)

Spec == Init /\ [][Next]_<<status, told>>
=============================================================================
