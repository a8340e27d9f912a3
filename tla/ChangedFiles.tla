---------------------------- MODULE ChangedFiles ----------------------------
(***************************************************************************)
(* What commit_and_push makes of the working tree an LLM leaves behind:    *)
(* the entries `git status --short` lists, the checks on each, and what    *)
(* `git add` and `git commit` then take.  RepositoryWorkspace has the same *)
(* call as one step that commits everything or fails the phase.            *)
(***************************************************************************)
EXTENDS Naturals, Sequences, FiniteSets

CONSTANT MaxChangedFiles   \* MAX_CHANGED_FILES

ASSUME ChangedFilesAssumption == MaxChangedFiles \in Nat

(***************************************************************************)
(* A changed path.  name: plain, or quoted by git (a space, a character    *)
(* outside ASCII).  kind: an untracked directory is one entry however many *)
(* files it has; a rename in the index is one entry for two paths.         *)
(* leads: a link inside or out of the clone, or one to nothing.  token:    *)
(* a GitHub token is in it.  For a directory the last two say what one of  *)
(* its files is or holds, and files is their number.                       *)
(***************************************************************************)
Change ==
  [name : {"plain", "quoted"},
   kind : {"file", "deleted", "directory", "renamed"},
   leads : {"here", "inside", "outside", "nowhere"},
   token : BOOLEAN,
   files : Nat \ {0}]

\* Slip: the listing leaves untracked directories out.
EntriesTracked(changes) ==
  SelectSeq(changes, LAMBDA c : c.kind # "directory")

\* _changed_files: one entry per line, taken from its fourth character on.
Entries(changes) == changes

(***************************************************************************)
(* What the text of an entry names: a path of the tree, or, for a rename   *)
(* (`old -> new`) and a quoted name, nothing that exists.                  *)
(***************************************************************************)
NamesPath(c) == c.name = "plain" /\ c.kind # "renamed"

\* _validate_changed_file_path.  Nobody looks into a directory.
PathFault(c) ==
  IF ~NamesPath(c) \/ c.kind \in {"deleted", "directory"} THEN "none"
  ELSE IF c.leads = "outside" THEN "path_traversal"
  ELSE IF c.leads = "nowhere" THEN "symlink_escape"
  ELSE "none"

\* _scan_changed_files_for_secrets: what is no file, or is not there, is not read.
SecretFault(c) ==
  NamesPath(c) /\ c.kind = "file" /\ c.leads \in {"here", "inside"} /\ c.token

FirstFault(entries) ==
  LET faulty == {i \in DOMAIN entries : PathFault(entries[i]) # "none"}
  IN  IF faulty = {} THEN "none"
      ELSE PathFault(entries[CHOOSE i \in faulty : \A j \in faulty : i =< j])

TooMany(entries) == Len(entries) > MaxChangedFiles

(***************************************************************************)
(* commit_and_push up to the push, and the event it ends in.  `git add` is *)
(* given all entries at once and fails if one of them names nothing.       *)
(***************************************************************************)
CommitOutcome(changes) ==
  LET entries == Entries(changes)
  IN  IF entries = <<>> THEN "phase_edit_no_changes"
      ELSE IF FirstFault(entries) # "none" THEN FirstFault(entries)
      ELSE IF TooMany(entries) THEN "too_many_changed_files"
      ELSE IF \E i \in DOMAIN entries : SecretFault(entries[i]) THEN "secret_in_changed_files"
      ELSE IF \E i \in DOMAIN entries : ~NamesPath(entries[i]) THEN "git_commit_failed"
      ELSE "git_commit_succeeded"

\* The changes the commit holds.
Taken(changes) ==
  IF CommitOutcome(changes) = "git_commit_succeeded"
  THEN {i \in DOMAIN changes : \E j \in DOMAIN Entries(changes) : Entries(changes)[j] = changes[i]}
  ELSE {}

-----------------------------------------------------------------------------
(* What the phase that follows, and the remote, may rely on.               *)

\* A change that puts no token and no way out of the clone into the commit.
Clean(c) == c.kind = "deleted" \/ (~c.token /\ c.leads \in {"here", "inside"})

\* What the checks do not see: the files of an untracked directory.
Overlooked(c) == c.kind = "directory"
=============================================================================
