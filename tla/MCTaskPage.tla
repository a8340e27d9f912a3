----------------------------- MODULE MCTaskPage -----------------------------
(* TaskPage on the values of MCTaskBackend. *)
EXTENDS TaskPage, MCTaskBackend
=============================================================================
