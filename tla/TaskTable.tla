------------------------------ MODULE TaskTable ------------------------------
(***************************************************************************)
(* The `tasks` table of MariaDB and the row locks transactions hold on it, *)
(* as src/src/backend/database.py and src/init.sql use them.               *)
(*                                                                         *)
(* Every variable but `job` and `approving` is the COMMITTED content of    *)
(* the table.  What a transaction has written and not committed is seen by *)
(* nobody else: the rows it wrote are locked, queue scans skip them        *)
(* (SKIP LOCKED) and other locking reads wait.  So a transaction is the    *)
(* step that takes its lock and the step that commits all its writes; a    *)
(* crash, an exception or a lost connection in between is a rollback.      *)
(***************************************************************************)
EXTENDS Integers

CONSTANTS
  Worker,      \* worker processes (run_worker of scripts/service_runner.py)
  Service,     \* values of assigned_service
  ServiceOf,   \* the service each worker process serves
  Priority,    \* values of the priority column
  MaxTasks     \* bound: rows the table may ever hold

ASSUME TaskTableAssumption ==
  /\ MaxTasks \in Nat
  /\ "brain" \in Service
  /\ ServiceOf \in [Worker -> Service]
  /\ Priority \subseteq Int

VARIABLES
  n,          \* rows inserted so far; their ids are 1..n (AUTO_INCREMENT)
  row,        \* the columns an INSERT fixes, by id
  status,     \* the status column, by id
  lease,      \* lease_expires_at, by id: NULL, in the future, in the past
  orch,       \* payload_json.orchestration, by id
  why,        \* the event logged when the row was last set to blocked, by id
  job,        \* the row each worker's open transaction has leased, or 0
  approving   \* rows locked by dashboard requests that are merging

Rows == 1 .. n

(***************************************************************************)
(* "plain" stands for the single task of a request without a GitHub        *)
(* repository, "bare" for a row whose payload_json is NULL.                *)
(***************************************************************************)
Kind   == {"root", "phase", "plain", "bare"}
Status == {"queued", "leased", "running", "waiting_approval",
           "succeeded", "failed", "blocked", "cancelled"}
Lease  == {"null", "live", "expired"}
Phase  == 0 .. 5
Row    == [kind : Kind, parent : Nat, root : Nat, phase : Phase,
           service : Service, priority : Priority, target : BOOLEAN]

\* A row nobody has a FOR UPDATE lock on.
Unlocked(t) == t \notin approving /\ \A w \in Worker : job[w] # t

\* Slip: the scan takes no lock and so skips none.
ClaimableUnlocked(s) ==
  {t \in Rows : row[t].service = s /\ status[t] = "queued"}

\* Rows the queue scan of a service can return: locked ones are skipped.
Claimable(s) ==
  {t \in Rows : row[t].service = s /\ status[t] = "queued" /\ Unlocked(t)}

(***************************************************************************)
(* ORDER BY priority DESC, created_at ASC LIMIT 1.  created_at has a       *)
(* resolution of one second, so rows of one priority may come in any order.*)
(***************************************************************************)
NextQueued(s) ==
  {t \in Claimable(s) :
     \A u \in Claimable(s) : row[u].priority =< row[t].priority}

\* Slip: only rows that never started are looked for.
ExpiredRowsLeasedOnly(s) ==
  {t \in Rows : /\ row[t].service = s
                /\ status[t] = "leased"
                /\ lease[t] = "expired"
                /\ Unlocked(t)}

\* Rows whose lease has run out; the scan skips locked rows.
ExpiredRows(s) ==
  {t \in Rows : /\ row[t].service = s
                /\ status[t] \in {"leased", "running"}
                /\ lease[t] = "expired"
                /\ Unlocked(t)}

\* A column with the value v added for the next id k.
Put(column, k, v) == [t \in 1 .. k |-> IF t = k THEN v ELSE column[t]]
=============================================================================
