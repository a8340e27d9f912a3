----------------------------- MODULE Submission -----------------------------
(***************************************************************************)
(* What SecureDashboard._create_task makes of the body of a POST: an error *)
(* or rows of the tasks table, and what the worker and the approval later  *)
(* ask of the columns it fills in.  TaskBackend takes the same call as a   *)
(* step that always succeeds.                                              *)
(***************************************************************************)
EXTENDS Locations

CONSTANTS
  DashboardRoot,   \* location of the dashboard's workspace_root (its directory)
  WorkspaceRoot,   \* location of the worker's workspace_root, /workspace
  BannedRoots,     \* _banned_repository_roots
  TaskId,          \* the id a task is given, which names its directory
  AllowList,       \* MERGE_TARGET_ALLOWLIST
  AsciiNames       \* branch names of ASCII letters, digits and -_./

(***************************************************************************)
(* The dashboard takes letters of any script in a branch name and the git  *)
(* layer only those of ASCII, so the list of both has to stay within ASCII *)
(* (its default is main,develop).                                          *)
(***************************************************************************)
ASSUME SubmissionAssumption ==
  /\ WorkspaceRoot \in Location /\ TaskId \in STRING
  /\ AllowList \subseteq AsciiNames

-----------------------------------------------------------------------------
(* The fields of a request.  A repository is absent, no text, a text with  *)
(* control characters, a URL (its parts), or a path (where it leads).      *)

\* _normalize_github_repository_url.
NormalizeGithubRepositoryUrl(r) ==
  /\ r.is = "url"
  /\ r.scheme \in {"http", "https"} /\ r.host = "github.com"
  /\ ~r.query /\ r.names = 2 /\ r.safe

\* _validate_local_repository_path.  A banned root the dashboard itself is
\* installed under counts for nothing, "/" always counts.
ValidateLocalRepositoryPath(r) ==
  /\ r.is = "path" /\ r.directory
  /\ r.at # <<>>
  /\ Beneath(r.at, DashboardRoot)
  /\ \A b \in BannedRoots : Beneath(r.at, b) => Beneath(DashboardRoot, b)

\* Slip: the list is only asked when the approval comes.
ValidateTargetRefUnlisted(ref) ==
  ref.text /\ ~ref.control /\ ref.name # "" /\ ~ref.dash

\* _validate_target_ref, of the text without the blanks around it.
ValidateTargetRef(ref) ==
  /\ ref.text /\ ~ref.control
  /\ ref.name # "" /\ ~ref.dash
  /\ ref.name \in AllowList

\* _resolve_repository_context: none, clone, or local.
ResolveRepositoryContext(r, ref) ==
  IF r.is \in {"absent", "no_text", "control"} THEN "none"
  ELSE IF NormalizeGithubRepositoryUrl(r) THEN IF ValidateTargetRef(ref) THEN "clone" ELSE "none"
  ELSE IF ValidateLocalRepositoryPath(r) THEN "local"
  ELSE "none"

\* _coerce_int_field: what is not there has its default.
CoerceIntField(v) == v \in {"absent", "integer"}

-----------------------------------------------------------------------------
(* Rows.  repository is full when target_repo and working_branch are both  *)
(* there; flow says whose orchestration the payload holds.                 *)

CloneRow(parent, status, approval, ref) ==
  [parent |-> parent, status |-> status, approval |-> approval,
   workspace |-> Append(WorkspaceRoot, TaskId), repository |-> "full",
   ref |-> ref.name, flow |-> "dashboard"]

PlainRow(workspace, flow) ==
  [parent |-> "none", status |-> "queued", approval |-> FALSE,
   workspace |-> workspace, repository |-> "none",
   ref |-> "", flow |-> flow]

\* The insertions of a request that is accepted.
Rows(request) ==
  CASE ResolveRepositoryContext(request.repository, request.ref) = "clone" ->
         <<CloneRow("none", "running", TRUE, request.ref),
           CloneRow("root", "queued", FALSE, request.ref)>>
    [] ResolveRepositoryContext(request.repository, request.ref) = "local" ->
         <<PlainRow(request.repository.at, request.flow)>>
    [] OTHER -> <<PlainRow(<<>>, request.flow)>>

Refuse(error) == [error |-> error, rows |-> <<>>]

(***************************************************************************)
(* _create_task.  request.broken: a statement or the commit raises; both   *)
(* insertions and their update are one transaction and go together.        *)
(***************************************************************************)
CreateTask(request) ==
  LET r == request.repository
      refused == ResolveRepositoryContext(r, request.ref) = "none"
  IN  IF request.body = "no_json" THEN Refuse("invalid_json")
      ELSE IF request.body = "no_object" THEN Refuse("invalid_payload")
      ELSE IF r.is # "absent" /\ refused
           THEN Refuse(IF NormalizeGithubRepositoryUrl(r) THEN "invalid_target_ref"
                       ELSE "invalid_repository_path")
      ELSE IF ~CoerceIntField(request.phase) \/ ~CoerceIntField(request.priority)
           THEN Refuse("invalid_payload")
      ELSE IF request.broken THEN Refuse("internal_server_error")
      ELSE [error |-> "none", rows |-> Rows(request)]

-----------------------------------------------------------------------------
(* What the rows meet later.                                               *)

\* RepositoryWorkspaceManager._validate_merge_target, when an approval merges.
MergeTargetAllowed(name) == name \in AsciiNames /\ name \in AllowList

\* A request for a repository that was accepted: a root that waits for its
\* chain and one row to start it, which nothing but git can stop afterwards.
Startable(rows) ==
  /\ Len(rows) = 2
  /\ rows[1].status = "running" /\ rows[1].approval /\ rows[1].parent = "none"
  /\ rows[2].status = "queued" /\ ~rows[2].approval /\ rows[2].parent = "root"
  /\ \A i \in DOMAIN rows :
       /\ rows[i].workspace # WorkspaceRoot /\ Beneath(rows[i].workspace, WorkspaceRoot)
       /\ rows[i].repository = "full" /\ rows[i].flow = "dashboard"
       /\ MergeTargetAllowed(rows[i].ref)
=============================================================================
