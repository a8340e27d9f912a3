-------------------------- MODULE TaskStateMachine --------------------------
(***************************************************************************)
(* src/src/backend/state_machine.py: the status changes a task may make,   *)
(* and what one worker transaction makes of them.                          *)
(***************************************************************************)

TERMINAL_STATES == {"succeeded", "failed", "cancelled"}

ALLOWED_TRANSITIONS ==
  [queued           |-> {"leased"},
   leased           |-> {"running", "blocked", "cancelled"},
   running          |-> {"succeeded", "failed", "blocked", "waiting_approval", "cancelled"},
   blocked          |-> {"queued"},
   waiting_approval |-> {"running", "blocked", "succeeded", "cancelled"},
   succeeded        |-> {},
   failed           |-> {},
   cancelled        |-> {}]

CanTransition(current, new) == new \in ALLOWED_TRANSITIONS[current]

(***************************************************************************)
(* A status change others can see: one transition, or the queued -> leased *)
(* -> running -> ... a worker makes in a single transaction.               *)
(***************************************************************************)
CommittedTransition(current, new) ==
  \/ CanTransition(current, new)
  \/ /\ current = "queued"
     /\ CanTransition("queued", "leased") /\ CanTransition("leased", "running")
     /\ new = "running" \/ CanTransition("running", new)
=============================================================================
