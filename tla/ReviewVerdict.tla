--------------------------- MODULE ReviewVerdict ---------------------------
(***************************************************************************)
(* How the verdict of an audit is read out of the answer of the LLM: once  *)
(* by the backend, and again by the orchestrator it is passed to.  Both    *)
(* look for literal texts anywhere in the answer in capitals, inside other *)
(* words too.  An answer is therefore the sequence of its pieces, with     *)
(* nothing between one and the next: the three words that count, "space"   *)
(* for one space, "gap" for whatever else can stand between words (two     *)
(* spaces, a line break, asterisks), "letters" for any others.             *)
(***************************************************************************)
EXTENDS Naturals, Sequences

Piece == {"NOT", "APPROVED", "REJECTED", "space", "gap", "letters"}

\* The text of a word is in the answer; that of `NOT `, and the word right behind.
Contains(answer, word) == \E i \in DOMAIN answer : answer[i] = word

ContainsNot(answer, word) ==
  \E i \in DOMAIN answer :
    i > 2 /\ answer[i - 2] = "NOT" /\ answer[i - 1] = "space" /\ answer[i] = word

\* Slip: the plain word is looked for first.
ParseReviewStatePlainFirst(answer) ==
  IF Contains(answer, "APPROVED") THEN "approved"
  ELSE IF Contains(answer, "REJECTED") THEN "rejected"
  ELSE "none"

\* MariaDBTaskBackend._parse_review_state.
ParseReviewState(answer) ==
  IF ContainsNot(answer, "APPROVED") THEN "rejected"
  ELSE IF ContainsNot(answer, "REJECTED") /\ Contains(answer, "APPROVED") THEN "approved"
  ELSE IF Contains(answer, "REJECTED") /\ ~ContainsNot(answer, "REJECTED") THEN "rejected"
  ELSE IF Contains(answer, "APPROVED") THEN "approved"
  ELSE "none"

\* PhaseOrchestrator._normalize_review_state.
NormalizeReviewState(state, answer) ==
  IF state \in {"approved", "rejected"} THEN state
  ELSE IF ContainsNot(answer, "APPROVED") THEN "rejected"
  ELSE IF ContainsNot(answer, "REJECTED") /\ Contains(answer, "APPROVED") THEN "approved"
  ELSE IF Contains(answer, "REJECTED") /\ ~ContainsNot(answer, "REJECTED") THEN "rejected"
  ELSE IF Contains(answer, "APPROVED") THEN "approved"
  ELSE "none"

\* What handle_phase_completion goes by.
AuditVerdict(answer) == NormalizeReviewState(ParseReviewState(answer), answer)

-----------------------------------------------------------------------------
(* What a verdict has to rest on, for a reader of words.                   *)

Separators == {"space", "gap"}

\* The piece is a word of its own and no part of one (DISAPPROVED, CANNOT).
Alone(answer, i) ==
  /\ i > 1 => answer[i - 1] \in Separators
  /\ i < Len(answer) => answer[i + 1] \in Separators

\* The word before this one is NOT, however the two are set apart.
Negated(answer, i) ==
  \E j \in DOMAIN answer :
    /\ j < i /\ answer[j] = "NOT" /\ Alone(answer, j)
    /\ \A k \in DOMAIN answer : j < k /\ k < i => answer[k] \in Separators

Said(answer, word) ==
  \E i \in DOMAIN answer : answer[i] = word /\ Alone(answer, i) /\ ~Negated(answer, i)

Denied(answer, word) ==
  \E i \in DOMAIN answer : answer[i] = word /\ Alone(answer, i) /\ Negated(answer, i)

\* The answers that two searches for texts can read: the words that count are
\* words of their own, and one space is all there is between NOT and a verdict.
PlainlyWritten(answer) ==
  \A i \in DOMAIN answer :
    /\ answer[i] \in {"NOT", "APPROVED", "REJECTED"} => Alone(answer, i)
    /\ answer[i] \in {"APPROVED", "REJECTED"} /\ Negated(answer, i) =>
         i > 2 /\ answer[i - 2] = "NOT" /\ answer[i - 1] = "space"

Grounded(answer, verdict) ==
  /\ verdict = "approved" => Said(answer, "APPROVED") /\ ~Denied(answer, "APPROVED")
  /\ verdict = "rejected" => Said(answer, "REJECTED") \/ Denied(answer, "APPROVED")
  /\ verdict = "none" => ~Said(answer, "APPROVED")
=============================================================================
