------------------------------ MODULE TaskPage ------------------------------
(***************************************************************************)
(* A person looks at a request while workers and other people go on with   *)
(* it: GET /api/v1/tasks/<id> reads the task on one connection and its     *)
(* subtasks on another, later one.                                         *)
(***************************************************************************)
EXTENDS TaskBackend

VARIABLE page   \* what has been read for the page: the root's row, then the rows

pageVars == <<vars, page>>

Closed == [of |-> 0, status |-> "none", current |-> 0, attempt |-> 0, rows |-> {}]

PageInit == Init /\ page = Closed

\* Slip: the rows whose parent the root is.
SubtasksByParent(r) == {t \in Rows : row[t].parent = r}

\* WHERE root_task_id = r AND id != r.
Subtasks(r) == {t \in Rows \ {r} : row[t].root = r}

\* _load_task, then the first connection is closed.
LoadTask(r) ==
  /\ page = Closed
  /\ row[r].kind = "root"
  /\ page' = [of |-> r, status |-> status[r], current |-> orch[r].current,
              attempt |-> orch[r].attempt, rows |-> {}]
  /\ UNCHANGED vars

\* The logs and the subtasks, on the second connection.
LoadSubtasks ==
  /\ page.of # 0 /\ page.rows = {}
  /\ page' = [page EXCEPT !.rows =
       {[id |-> t, phase |-> row[t].phase, attempt |-> orch[t].attempt,
         status |-> status[t]] : t \in Subtasks(page.of)}]
  /\ UNCHANGED vars

Close == page.rows # {} /\ page' = Closed /\ UNCHANGED vars

PageNext ==
  \/ Next /\ UNCHANGED page
  \/ \E r \in Rows : LoadTask(r)
  \/ LoadSubtasks \/ Close

PageSpec == PageInit /\ [][PageNext]_pageVars /\ Fairness

-----------------------------------------------------------------------------
(* However long it takes between the two connections, the list is never    *)
(* behind the task above it: it has the phase the task says is current, a  *)
(* request shown waiting for approval shows nothing unfinished and an      *)
(* audit last, and one shown stopped shows nothing in the queue.           *)
PageAgrees ==
  page.rows # {} =>
    /\ \E s \in page.rows : s.phase = page.current /\ s.attempt = page.attempt
    /\ page.status = "waiting_approval" =>
         /\ \A s \in page.rows : s.status = "succeeded"
         /\ \E s \in page.rows : s.phase = 5 /\ s.attempt = page.attempt
    /\ page.status # "running" =>
         \A s \in page.rows : s.status \notin {"queued", "running"}
=============================================================================
