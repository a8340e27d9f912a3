---------------------------- MODULE InputChecks ----------------------------
(***************************************************************************)
(* The decisions of the system that are functions of what somebody else    *)
(* wrote: a compose file, an encoded text, the answer of an LLM, the       *)
(* working tree it leaves, a request.  Each behaviour is one call.         *)
(***************************************************************************)
EXTENDS ComposeValidator, SecretScanner, ReviewVerdict, ChangedFiles, Submission

CONSTANTS
  Projects,      \* [profile, files]: what the worker validates
  Payloads,      \* [secrets, decodings, text]: what is scanned
  LlmAnswers,    \* sequences of pieces
  WorkingTrees,  \* sequences of changes
  Requests       \* bodies of POST /api/v1/tasks

ASSUME InputChecksAssumption ==
  /\ \A p \in Projects : \A file \in p.files : file.fault \in Fault
  /\ \A p \in Payloads :
       /\ p.text \in DOMAIN p.decodings /\ DOMAIN p.decodings \subseteq Nat
       /\ p.decodings \in [DOMAIN p.decodings -> SUBSET DOMAIN p.decodings]
  /\ \A a \in LlmAnswers : a \in Seq(Piece)
  /\ \A t \in WorkingTrees : t \in Seq(Change)

VARIABLES
  call,    \* the decision that was asked for
  input,
  answer

vars == <<call, input, answer>>

Init == call = "none" /\ input = <<>> /\ answer = "none"

Ask(decision, i, a) == call' = decision /\ input' = i /\ answer' = a

ValidateProject ==
  /\ call = "none"
  /\ \E p \in Projects : Ask("compose", p, Verdict(p.profile, p.files))

ScanPayload ==
  /\ call = "none"
  /\ \E p \in Payloads :
       Ask("scan", p, ScanMultistage(p.secrets, p.decodings, p.text))

ReadVerdict ==
  /\ call = "none"
  /\ \E a \in LlmAnswers : Ask("review", a, AuditVerdict(a))

CheckChanges ==
  /\ call = "none"
  /\ \E t \in WorkingTrees :
       Ask("changes", t, [event |-> CommitOutcome(t), taken |-> Taken(t)])

SubmitTask ==
  /\ call = "none"
  /\ \E r \in Requests : Ask("create", r, CreateTask(r))

Next == ValidateProject \/ ScanPayload \/ ReadVerdict \/ CheckChanges \/ SubmitTask

Spec == Init /\ [][Next]_vars

-----------------------------------------------------------------------------
(* A project is let through only if none of its settings reaches out of    *)
(* the clone and the runtime directory or takes the host's privileges,     *)
(* whatever its other files and settings are and wherever the links of the *)
(* clone lead - but for paths with `~` or a variable that the validator    *)
(* takes for a name (README) - and every project without such settings is  *)
(* let through.  ComposeValidator.validate.                                *)
PassedIsHarmless ==
  call = "compose" =>
    /\ answer = "passed" => Harmless(input.profile, input.files, TRUE)
    /\ Harmless(input.profile, input.files, FALSE) => answer = "passed"

(* A text is blocked exactly if a secret comes out of it after at most     *)
(* max_depth - 1 decodings in some order - two in the code, not the three  *)
(* of the test design SS-01 (README) - and the depth reported is that of   *)
(* such a chain.  A text with a secret deeper down gets the answer of a    *)
(* clean one.  SecretScanner.scan_multistage.                              *)
HiddenSecretsFound ==
  call = "scan" =>
    /\ answer.blocked <=> Hidden(input.secrets, input.decodings, input.text)
    /\ answer.blocked =>
         Decoded(input.decodings, input.text)[answer.depth - 1]
           \cap input.secrets # {}

(* What the orchestrator goes by is what the backend read - the two        *)
(* parsers, which are separate copies, never disagree, on any text - and   *)
(* if the answer is plainly written, it rests on a word that says so and   *)
(* on no approval that is denied.  In an answer that is not, the parsers   *)
(* take DISAPPROVED for an approval and CANNOT APPROVED for a rejection,   *)
(* and overlook a NOT that is not one space away (README).                 *)
(* _parse_review_state, _normalize_review_state.                           *)
VerdictHasGround ==
  call = "review" =>
    /\ answer = ParseReviewState(input)
    /\ PlainlyWritten(input) => Grounded(input, answer)

(* A phase that reports a commit committed every change of the working     *)
(* tree, so that nothing is left behind for the next phase to find or to   *)
(* lose, and none of the changes brings a token or a link out of the clone *)
(* with it, except in an untracked directory, which nobody looks into      *)
(* (README); and no more entries than the limit.  It reports no changes    *)
(* only if there were none.  commit_and_push up to the push.               *)
CommitTakesEverything ==
  call = "changes" =>
    /\ answer.event = "git_commit_succeeded" =>
         /\ answer.taken = DOMAIN input
         /\ \A i \in answer.taken : Clean(input[i]) \/ Overlooked(input[i])
         /\ Cardinality(answer.taken) =< MaxChangedFiles
    /\ answer.event = "phase_edit_no_changes" <=> input = <<>>

(* An accepted request for a repository has the columns the worker and the *)
(* approval later insist on - there is no second chance to correct them -  *)
(* and a refused one has left nothing.  _create_task against               *)
(* process_next_queued_task and _validate_merge_target.                    *)
AcceptedCanFinish ==
  call = "create" =>
    /\ answer.error # "none" => answer.rows = <<>>
    /\ answer.error = "none" /\ input.repository.is = "url" => Startable(answer.rows)
=============================================================================
