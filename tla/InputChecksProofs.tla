------------------------- MODULE InputChecksProofs -------------------------
(***************************************************************************)
(* The decisions of InputChecks, for every input and constant: the runs    *)
(* enumerate only a bounded set of documents, answers, trees and requests. *)
(***************************************************************************)
EXTENDS InputChecks, FiniteSetTheorems, SequenceTheorems, WellFoundedInduction, TLAPS

-----------------------------------------------------------------------------
(* Compose files, from one path to all files.                              *)

(* The two functions that look at a path, with the order of their tests,   *)
(* let exactly the paths through that they find a location inside for.     *)
LEMMA PathLetThrough ==
  ASSUME NEW p
  PROVE  PathRule(p) = "none" <=> /\ ~Unresolved(p)
                                  /\ GoesUp(p) => IsAbsolute(p)
                                  /\ IsWithinAllowedRoots(Where(p))
  BY DEF PathRule, ResolvePath, IsAbsolute

\* A path that was taken for what compose reads in it.
LEMMA KnownLetThrough ==
  ASSUME NEW p
  PROVE  /\ StaysInside(p) => PathRule(p) = "none"
         /\ PathRule(p) = "none" => StaysInside(p) \/ p.variable \in Unseen
<1>1. /\ p.variable \in {"none", "runtime"} => ~Unresolved(p)
      /\ ~Unresolved(p) /\ p.variable \notin {"none", "runtime"} => p.variable \in Unseen
  BY DEF Unresolved
<1> QED BY <1>1, PathLetThrough DEF StaysInside

\* What short syntax cuts off, and what it takes for a volume.
LEMMA SourceKnown ==
  ASSUME NEW s
  PROVE  /\ s.path.variable # "default" \/ s.key # "volumes" => Source(s) = s.path
         /\ Source(s) = s.path \/ Source(s).variable \in Unseen
         /\ IsBind(s) => MayBind(s)
         /\ MayBind(s) /\ s.key = "volumes" => IsBind(s) \/ TakenForName(s)
<1>1. /\ s.path.variable # "default" \/ s.key # "volumes" => Source(s) = s.path
      /\ Source(s) = s.path \/ Source(s).variable = "unclosed"
  BY DEF Source
<1>2. CASE s.long
  BY <1>1, <1>2 DEF IsBind, MayBind, Unseen
<1>3. CASE ~s.long /\ s.path.variable = "default"
  <2>1. MayBind(s)
    BY <1>3 DEF MayBind
  <2>2. s.key = "volumes" => Source(s).variable = "unclosed"
    BY <1>3 DEF Source
  <2> QED BY <1>1, <2>1, <2>2 DEF TakenForName, Unseen
<1>4. CASE ~s.long /\ s.path.variable # "default"
  <2>1. Source(s) = s.path
    BY <1>1, <1>4
  <2> QED BY <1>4, <2>1 DEF IsBind, MayBind, TakenForName, Unseen
<1> QED BY <1>2, <1>3, <1>4

LEMMA SettingLetThrough ==
  ASSUME NEW profile, NEW service, NEW s
  PROVE  /\ HarmlessSetting(profile, service, s, FALSE) => Broken(profile, service, s) = {}
         /\ Broken(profile, service, s) = {} => HarmlessSetting(profile, service, s, TRUE)
<1>1. {PathRule(Source(s))} \ {"none"} = {} <=> PathRule(Source(s)) = "none"
  OBVIOUS
<1>2. ASSUME s.key \in PathKeys \cup {"volumes"} PROVE
        /\ StaysInside(s.path) => PathRule(Source(s)) = "none"
        /\ PathRule(Source(s)) = "none" => StaysInside(s.path) \/ TakenForName(s)
  <2>1. StaysInside(s.path) => Source(s) = s.path
    BY SourceKnown DEF StaysInside
  <2> QED BY <2>1, SourceKnown, KnownLetThrough DEF TakenForName
<1>3. CASE s.key \in PathKeys
  <2>1. Broken(profile, service, s) = {PathRule(Source(s))} \ {"none"}
    BY <1>3 DEF Broken, PathKeys
  <2> QED BY <1>1, <1>2, <1>3, <2>1 DEF HarmlessSetting, PathKeys
<1>4. CASE s.key = "volumes"
  <2>1. Broken(profile, service, s) =
          IF IsBind(s) THEN {PathRule(Source(s))} \ {"none"} ELSE {}
    BY <1>4 DEF Broken, PathKeys
  <2>2. (IsBind(s) => MayBind(s)) /\ (MayBind(s) => IsBind(s) \/ TakenForName(s))
    BY <1>4, SourceKnown
  <2>3. \A lenient \in BOOLEAN :
          HarmlessSetting(profile, service, s, lenient) <=>
            (MayBind(s) => StaysInside(s.path) \/ (lenient /\ TakenForName(s)))
    BY <1>4 DEF HarmlessSetting, PathKeys
  <2> QED BY <1>1, <1>2, <1>4, <2>1, <2>2, <2>3
<1>5. CASE s.key \notin PathKeys \cup {"volumes"}
  BY <1>5 DEF Broken, HarmlessSetting, Privileged, HostMode, DangerousCapability,
              PortUsesHostNamespace, IsExternalResource
<1> QED BY <1>3, <1>4, <1>5

\* All of a set of settings.
AllRules(profile, service, settings) ==
  UNION {Broken(profile, service, s) : s \in settings}

LEMMA SettingsLetThrough ==
  ASSUME NEW profile, NEW service, NEW settings
  PROVE  /\ (\A s \in settings : HarmlessSetting(profile, service, s, FALSE)) =>
              AllRules(profile, service, settings) = {}
         /\ AllRules(profile, service, settings) = {} =>
              \A s \in settings : HarmlessSetting(profile, service, s, TRUE)
<1>1. AllRules(profile, service, settings) = {} <=>
        \A s \in settings : Broken(profile, service, s) = {}
  BY DEF AllRules
<1> QED BY <1>1, SettingLetThrough

\* A service, as HarmlessFile has it.
HarmlessService(profile, service, lenient) ==
  service.mapping /\ \A s \in service.settings : HarmlessSetting(profile, service, s, lenient)

LEMMA ServiceLetThrough ==
  ASSUME NEW profile, NEW service
  PROVE  /\ HarmlessService(profile, service, FALSE) => ServiceRules(profile, service) = {}
         /\ ServiceRules(profile, service) = {} => HarmlessService(profile, service, TRUE)
  BY SettingsLetThrough DEF ServiceRules, HarmlessService, AllRules

LEMMA FileLetThrough ==
  ASSUME NEW profile, NEW file, file.fault \in Fault, file.fault # "malformed"
  PROVE  /\ HarmlessFile(profile, file, FALSE) => FileRules(profile, file) = {}
         /\ FileRules(profile, file) = {} => HarmlessFile(profile, file, TRUE)
<1> DEFINE noone == [trusted |-> FALSE]
           top == UNION {Broken(profile, noone, s) : s \in file.top}
           all == UNION {ServiceRules(profile, service) : service \in file.services}
           TopHarmless(lenient) ==
             \A s \in file.top : HarmlessSetting(profile, noone, s, lenient)
           AllHarmless(lenient) ==
             \A service \in file.services : HarmlessService(profile, service, lenient)
<1>1. (TopHarmless(FALSE) => top = {}) /\ (top = {} => TopHarmless(TRUE))
  BY SettingsLetThrough DEF AllRules
<1>2. (AllHarmless(FALSE) => all = {}) /\ (all = {} => AllHarmless(TRUE))
  <2>1. all = {} <=> \A service \in file.services : ServiceRules(profile, service) = {}
    OBVIOUS
  <2> QED BY <2>1, ServiceLetThrough
<1>h. \A lenient \in BOOLEAN :
        HarmlessFile(profile, file, lenient) <=>
          file.fault = "none" /\ file.services # {} /\ TopHarmless(lenient) /\ AllHarmless(lenient)
  BY DEF HarmlessFile, HarmlessService
<1>3. CASE file.fault # "none"
  <2>1. FileRules(profile, file) # {}
    BY <1>3 DEF Fault, FileRules
  <2> QED BY <1>3, <1>h, <2>1
<1>4. CASE file.fault = "none" /\ file.services = {}
  <2>1. FileRules(profile, file) # {}
    BY <1>4 DEF FileRules
  <2> QED BY <1>4, <1>h, <2>1
<1>5. CASE file.fault = "none" /\ file.services # {}
  <2>1. FileRules(profile, file) = top \cup all
    BY <1>5 DEF FileRules, TopLevelRules
  <2>2. top \cup all = {} <=> top = {} /\ all = {}
    OBVIOUS
  <2> HIDE DEF top, all, TopHarmless, AllHarmless
  <2> QED BY <1>1, <1>2, <1>5, <1>h, <2>1, <2>2
<1> QED BY <1>3, <1>4, <1>5

LEMMA ProjectLetThrough ==
  ASSUME NEW profile, NEW files, \A file \in files : file.fault \in Fault
  PROVE  /\ Harmless(profile, files, FALSE) => Verdict(profile, files) = "passed"
         /\ Verdict(profile, files) = "passed" => Harmless(profile, files, TRUE)
<1>1. CASE \E file \in files : file.fault = "malformed"
  BY <1>1 DEF Verdict, Harmless, HarmlessFile
<1>2. CASE ~\E file \in files : file.fault = "malformed"
  <2>1. Violations(profile, files) = {} <=>
          files # {} /\ \A file \in files : FileRules(profile, file) = {}
    BY DEF Violations
  <2>2. \A file \in files :
          /\ HarmlessFile(profile, file, FALSE) => FileRules(profile, file) = {}
          /\ FileRules(profile, file) = {} => HarmlessFile(profile, file, TRUE)
    BY <1>2, FileLetThrough
  <2> QED BY <1>2, <2>1, <2>2 DEF Verdict, Harmless
<1> QED BY <1>1, <1>2

(***************************************************************************)
(* For every clone, links, roots and compose files: no project passes that *)
(* is not harmless but for the paths taken for names, and every harmless   *)
(* project passes.  ComposeValidator.validate.                             *)
(***************************************************************************)
THEOREM OnlyHarmlessProjectsPass == Spec => []PassedIsHarmless
<1>1. Init => PassedIsHarmless
  BY DEF Init, PassedIsHarmless
<1>2. PassedIsHarmless /\ [Next]_vars => PassedIsHarmless'
  <2> SUFFICES ASSUME PassedIsHarmless, [Next]_vars PROVE PassedIsHarmless'
    OBVIOUS
  <2>1. CASE ValidateProject
    BY <2>1, ProjectLetThrough, InputChecksAssumption
       DEF ValidateProject, Ask, PassedIsHarmless
  <2>2. CASE ScanPayload \/ ReadVerdict \/ CheckChanges \/ SubmitTask
    BY <2>2 DEF ScanPayload, ReadVerdict, CheckChanges, SubmitTask, Ask, PassedIsHarmless
  <2>3. CASE UNCHANGED vars
    BY <2>3 DEF vars, PassedIsHarmless
  <2> QED BY <2>1, <2>2, <2>3 DEF Next
<1> QED BY <1>1, <1>2, PTL DEF Spec

-----------------------------------------------------------------------------
(* The verdict of an audit.                                                *)

LEMMA ReadersAgree ==
  ASSUME NEW a PROVE AuditVerdict(a) = ParseReviewState(a)
  BY DEF AuditVerdict, NormalizeReviewState, ParseReviewState

\* On plain writing, finding the text of a denial is finding the denial.
LEMMA DenialsFound ==
  ASSUME NEW a \in Seq(Piece), PlainlyWritten(a), NEW word \in {"APPROVED", "REJECTED"}
  PROVE  /\ ContainsNot(a, word) <=> Denied(a, word)
         /\ Contains(a, word) <=> Said(a, word) \/ Denied(a, word)
<1>1. \A i \in DOMAIN a : a[i] = word => Alone(a, i)
  BY DEF PlainlyWritten
<1>2. ASSUME NEW i \in DOMAIN a, i > 2, a[i - 2] = "NOT", a[i - 1] = "space"
      PROVE  Negated(a, i)
  <2>1. i - 2 \in DOMAIN a /\ i - 2 < i
    BY <1>2
  <2>2. Alone(a, i - 2)
    BY <1>2, <2>1 DEF PlainlyWritten
  <2>3. ASSUME NEW k \in DOMAIN a, i - 2 < k, k < i PROVE a[k] \in Separators
    <3>1. k = i - 1
      BY <2>3
    <3> QED BY <1>2, <3>1 DEF Separators
  <2> QED BY <1>2, <2>1, <2>2, <2>3 DEF Negated
<1>3. ContainsNot(a, word) => Denied(a, word)
  BY <1>1, <1>2 DEF ContainsNot, Denied
<1>4. Denied(a, word) => ContainsNot(a, word)
  BY DEF ContainsNot, Denied, PlainlyWritten
<1>5. Contains(a, word) <=> Said(a, word) \/ Denied(a, word)
  BY <1>1 DEF Contains, Said, Denied
<1> QED BY <1>3, <1>4, <1>5

LEMMA ParsedHasGround ==
  ASSUME NEW a \in Seq(Piece), PlainlyWritten(a) PROVE Grounded(a, ParseReviewState(a))
<1>1. \A word \in {"APPROVED", "REJECTED"} :
        /\ ContainsNot(a, word) <=> Denied(a, word)
        /\ Contains(a, word) <=> Said(a, word) \/ Denied(a, word)
  BY DenialsFound
<1> QED BY <1>1 DEF Grounded, ParseReviewState

(***************************************************************************)
(* For every answer of whatever length: the verdict the orchestrator goes  *)
(* by is the one the backend read, and if the answer is plainly written,   *)
(* it has a word to rest on and no denial against it.                      *)
(* _parse_review_state, _normalize_review_state.                           *)
(***************************************************************************)
THEOREM VerdictsHaveGround == Spec => []VerdictHasGround
<1>1. Init => VerdictHasGround
  BY DEF Init, VerdictHasGround
<1>2. VerdictHasGround /\ [Next]_vars => VerdictHasGround'
  <2> SUFFICES ASSUME VerdictHasGround, [Next]_vars PROVE VerdictHasGround'
    OBVIOUS
  <2>1. CASE ReadVerdict
    <3>1. PICK a \in LlmAnswers : Ask("review", a, AuditVerdict(a))
      BY <2>1 DEF ReadVerdict
    <3>2. a \in Seq(Piece)
      BY InputChecksAssumption
    <3> QED BY <3>1, <3>2, ReadersAgree, ParsedHasGround DEF Ask, VerdictHasGround
  <2>2. CASE ValidateProject \/ ScanPayload \/ CheckChanges \/ SubmitTask
    BY <2>2 DEF ValidateProject, ScanPayload, CheckChanges, SubmitTask, Ask, VerdictHasGround
  <2>3. CASE UNCHANGED vars
    BY <2>3 DEF vars, VerdictHasGround
  <2> QED BY <2>1, <2>2, <2>3 DEF Next
<1> QED BY <1>1, <1>2, PTL DEF Spec

-----------------------------------------------------------------------------
(* Requests.                                                               *)

LEMMA BeneathItsParent ==
  ASSUME NEW S, NEW root \in Seq(S), NEW name \in S
  PROVE  Append(root, name) # root /\ Beneath(Append(root, name), root)
<1> DEFINE child == Append(root, name)
           prefix == SubSeq(child, 1, Len(root))
<1>1. Len(root) \in Nat
  OBVIOUS
<1>2. /\ child \in Seq(S) /\ Len(child) = Len(root) + 1
      /\ \A i \in 1 .. Len(root) : child[i] = root[i]
  BY AppendProperties
<1> HIDE DEF child
<1>3. \A i \in 1 .. Len(root) : child[i] \in S
  BY <1>1, <1>2
<1>4. /\ prefix \in Seq(S) /\ Len(prefix) = Len(root)
      /\ \A i \in 1 .. Len(root) : prefix[i] = root[i]
  BY <1>1, <1>2, <1>3, SubSeqProperties
<1>5. prefix = root
  BY <1>4, SeqEqual
<1>6. child # root
  BY <1>1, <1>2
<1>7. Len(root) =< Len(child)
  BY <1>1, <1>2
<1>8. child # root /\ Beneath(child, root)
  BY <1>5, <1>6, <1>7 DEF Beneath
<1> QED BY <1>8 DEF child

LEMMA CloneRowsStartable ==
  ASSUME NEW request, ResolveRepositoryContext(request.repository, request.ref) = "clone",
         ValidateTargetRef(request.ref), WorkspaceRoot \in Seq(STRING)
  PROVE  Startable(Rows(request))
<1> DEFINE first == CloneRow("none", "running", TRUE, request.ref)
           second == CloneRow("root", "queued", FALSE, request.ref)
<1>1. MergeTargetAllowed(request.ref.name)
  BY SubmissionAssumption DEF ValidateTargetRef, MergeTargetAllowed
<1>2. Rows(request) = <<first, second>>
  BY DEF Rows
<1>3. /\ first.parent = "none" /\ first.status = "running" /\ first.approval = TRUE
      /\ second.parent = "root" /\ second.status = "queued" /\ second.approval = FALSE
  BY DEF CloneRow
<1>4. ASSUME NEW r \in {first, second}
      PROVE  /\ r.workspace # WorkspaceRoot /\ Beneath(r.workspace, WorkspaceRoot)
             /\ r.repository = "full" /\ r.flow = "dashboard" /\ r.ref = request.ref.name
  <2>1. r.workspace = Append(WorkspaceRoot, TaskId)
    BY DEF CloneRow
  <2>2. r.workspace # WorkspaceRoot /\ Beneath(r.workspace, WorkspaceRoot)
    BY <2>1, BeneathItsParent, SubmissionAssumption
  <2> QED BY <2>2 DEF CloneRow
<1> HIDE DEF first, second
<1>5. Len(<<first, second>>) = 2 /\ DOMAIN <<first, second>> = {1, 2}
  OBVIOUS
<1> QED BY <1>1, <1>2, <1>3, <1>4, <1>5 DEF Startable

(***************************************************************************)
(* For every request, allow list and directory: what is accepted for a     *)
(* repository can be started and merged, what is refused leaves nothing.   *)
(* _create_task against the worker and the approval.                       *)
(***************************************************************************)
THEOREM AcceptedRequestsCanFinish == Spec => []AcceptedCanFinish
<1>1. Init => AcceptedCanFinish
  BY DEF Init, AcceptedCanFinish
<1>2. AcceptedCanFinish /\ [Next]_vars => AcceptedCanFinish'
  <2> SUFFICES ASSUME AcceptedCanFinish, [Next]_vars PROVE AcceptedCanFinish'
    OBVIOUS
  <2>1. CASE SubmitTask
    <3>1. PICK r \in Requests : Ask("create", r, CreateTask(r))
      BY <2>1 DEF SubmitTask
    <3>2. CreateTask(r).error # "none" => CreateTask(r).rows = <<>>
      BY DEF CreateTask, Refuse
    <3>3. ASSUME CreateTask(r).error = "none", r.repository.is = "url"
          PROVE  Startable(CreateTask(r).rows)
      <4>1. ResolveRepositoryContext(r.repository, r.ref) # "none"
        BY <3>3 DEF CreateTask, Refuse
      <4>2. ResolveRepositoryContext(r.repository, r.ref) = "clone" /\ ValidateTargetRef(r.ref)
        BY <3>3, <4>1 DEF ResolveRepositoryContext, ValidateLocalRepositoryPath
      <4>3. CreateTask(r).rows = Rows(r)
        BY <3>3 DEF CreateTask, Refuse
      <4> QED BY <4>2, <4>3, CloneRowsStartable, SubmissionAssumption DEF Location
    <3> QED BY <3>1, <3>2, <3>3 DEF Ask, AcceptedCanFinish
  <2>2. CASE ValidateProject \/ ScanPayload \/ CheckChanges \/ ReadVerdict
    BY <2>2 DEF ValidateProject, ScanPayload, CheckChanges, ReadVerdict, Ask, AcceptedCanFinish
  <2>3. CASE UNCHANGED vars
    BY <2>3 DEF vars, AcceptedCanFinish
  <2> QED BY <2>1, <2>2, <2>3 DEF Next
<1> QED BY <1>1, <1>2, PTL DEF Spec

-----------------------------------------------------------------------------
(* The working tree of a phase.                                            *)

\* A set of numbers has a smallest one.
LEMMA SmallestOf ==
  ASSUME NEW S \in SUBSET Nat, S # {}
  PROVE  \E x \in S : \A y \in S : x =< y
<1> DEFINE R == OpToRel(<, Nat)
<1>1. IsWellFoundedOn(R, Nat)
  BY NatLessThanWellFounded, Zenon
<1>2. R = {p \in Nat \X Nat : p[1] < p[2]}
  BY Zenon DEF OpToRel
<1> HIDE DEF R
<1>3. PICK x \in S : \A y \in S : ~(<<y, x>> \in R)
  BY <1>1, WFMin
<1>4. \A y \in S : ~(y < x)
  BY <1>2, <1>3
<1> QED BY <1>4

LEMMA FirstFaultFound ==
  ASSUME NEW entries \in Seq(Change)
  PROVE  /\ FirstFault(entries) = "none" <=> \A i \in DOMAIN entries : PathFault(entries[i]) = "none"
         /\ FirstFault(entries) \in {"none", "path_traversal", "symlink_escape"}
<1> DEFINE faulty == {i \in DOMAIN entries : PathFault(entries[i]) # "none"}
<1>1. CASE faulty = {}
  BY <1>1 DEF FirstFault
<1>2. CASE faulty # {}
  <2>1. faulty \in SUBSET Nat
    OBVIOUS
  <2>2. \E i \in faulty : \A j \in faulty : i =< j
    <3> HIDE DEF faulty
    <3> QED BY <2>1, <1>2, SmallestOf
  <2>3. PICK i \in faulty : FirstFault(entries) = PathFault(entries[i])
    BY <1>2, <2>2 DEF FirstFault
  <2> QED BY <2>3 DEF PathFault
<1> QED BY <1>1, <1>2

\* The tests of commit_and_push, in their order, on what `git add` then takes.
LEMMA CommittedIsClean ==
  ASSUME NEW t \in Seq(Change)
  PROVE  /\ CommitOutcome(t) = "phase_edit_no_changes" <=> t = <<>>
         /\ CommitOutcome(t) = "git_commit_succeeded" =>
              /\ Taken(t) = DOMAIN t
              /\ \A i \in Taken(t) : Clean(t[i]) \/ Overlooked(t[i])
              /\ Cardinality(Taken(t)) =< MaxChangedFiles
<1> DEFINE Passes(c) == PathFault(c) = "none" /\ ~SecretFault(c) /\ NamesPath(c)
<1>1. ASSUME NEW c \in Change, Passes(c) PROVE Clean(c) \/ Overlooked(c)
  BY <1>1 DEF Change, PathFault, SecretFault, NamesPath, Clean, Overlooked
<1>2. \A i \in DOMAIN t : t[i] \in Change
  OBVIOUS
<1>3. CommitOutcome(t) = "phase_edit_no_changes" <=> t = <<>>
  BY FirstFaultFound DEF CommitOutcome, Entries
<1>4. CommitOutcome(t) = "git_commit_succeeded" =>
        ~TooMany(t) /\ \A i \in DOMAIN t : Passes(t[i])
  BY FirstFaultFound DEF CommitOutcome, Entries
<1>5. CommitOutcome(t) = "git_commit_succeeded" => Taken(t) = DOMAIN t
  BY DEF Taken, Entries
<1>6. Cardinality(DOMAIN t) = Len(t)
  <2>1. Len(t) \in Nat /\ DOMAIN t = 1 .. Len(t)
    OBVIOUS
  <2>2. 1 \in Int /\ Len(t) \in Int
    BY <2>1
  <2>3. Cardinality(1 .. Len(t)) = IF 1 > Len(t) THEN 0 ELSE Len(t) - 1 + 1
    BY <2>2, FS_Interval
  <2>4. (IF 1 > Len(t) THEN 0 ELSE Len(t) - 1 + 1) = Len(t)
    BY <2>1
  <2> QED BY <2>1, <2>3, <2>4
<1>7. ~TooMany(t) => Len(t) =< MaxChangedFiles
  BY ChangedFilesAssumption DEF TooMany
<1> HIDE DEF Passes
<1> QED BY <1>1, <1>2, <1>3, <1>4, <1>5, <1>6, <1>7

(***************************************************************************)
(* For every working tree and limit: a phase that reports a commit has     *)
(* committed all of the tree, with no token and no link out of the clone   *)
(* but in untracked directories, and one that reports no changes had none. *)
(* commit_and_push up to the push.                                         *)
(***************************************************************************)
THEOREM CommitsTakeEverything == Spec => []CommitTakesEverything
<1>1. Init => CommitTakesEverything
  BY DEF Init, CommitTakesEverything
<1>2. CommitTakesEverything /\ [Next]_vars => CommitTakesEverything'
  <2> SUFFICES ASSUME CommitTakesEverything, [Next]_vars PROVE CommitTakesEverything'
    OBVIOUS
  <2>1. CASE CheckChanges
    <3>1. PICK t \in WorkingTrees :
            Ask("changes", t, [event |-> CommitOutcome(t), taken |-> Taken(t)])
      BY <2>1 DEF CheckChanges
    <3>2. t \in Seq(Change)
      BY InputChecksAssumption
    <3> QED BY <3>1, <3>2, CommittedIsClean DEF Ask, CommitTakesEverything
  <2>2. CASE ValidateProject \/ ScanPayload \/ ReadVerdict \/ SubmitTask
    BY <2>2 DEF ValidateProject, ScanPayload, ReadVerdict, SubmitTask, Ask, CommitTakesEverything
  <2>3. CASE UNCHANGED vars
    BY <2>3 DEF vars, CommitTakesEverything
  <2> QED BY <2>1, <2>2, <2>3 DEF Next
<1> QED BY <1>1, <1>2, PTL DEF Spec

-----------------------------------------------------------------------------
(* The scanner, by induction over the depth: a set of numbers that has one *)
(* has a smallest, and so there is no smallest depth at which a claim      *)
(* fails.                                                                  *)

\* What holds at the last depth, and at each depth if at the next, holds at all.
LEMMA Downwards ==
  ASSUME NEW m \in Nat \ {0}, NEW S, m \in S, \A d \in 1 .. m - 1 : d + 1 \in S => d \in S
  PROVE  1 .. m \subseteq S
<1> DEFINE F == {k \in 0 .. m - 1 : m - k \notin S}
<1>1. CASE F = {}
  <2> SUFFICES ASSUME NEW d \in 1 .. m PROVE d \in S
    OBVIOUS
  <2>1. m - d \in 0 .. m - 1 /\ m - (m - d) = d
    OBVIOUS
  <2>2. m - (m - d) \in S
    BY <1>1, <2>1
  <2> QED BY <2>1, <2>2
<1>2. CASE F # {}
  <2>1. PICK k \in F : \A j \in F : k =< j
    <3>1. F \in SUBSET Nat
      OBVIOUS
    <3> HIDE DEF F
    <3> QED BY <3>1, <1>2, SmallestOf
  <2>2. k # 0
    BY <2>1
  <2>3. k - 1 \in 0 .. m - 1 /\ k - 1 \notin F
    BY <2>1, <2>2
  <2>4. m - (k - 1) \in S
    BY <2>3
  <2>5. m - k \in 1 .. m - 1 /\ m - (k - 1) = (m - k) + 1
    BY <2>1, <2>2
  <2> QED BY <2>1, <2>4, <2>5
<1> QED BY <1>1, <1>2

\* What holds at first, and after each step if before, holds for ever.
LEMMA Upwards ==
  ASSUME NEW m \in Nat, NEW S, 0 \in S, \A n \in 0 .. m - 1 : n \in S => n + 1 \in S
  PROVE  0 .. m \subseteq S
<1> DEFINE F == {k \in 0 .. m : k \notin S}
<1>1. CASE F = {}
  BY <1>1
<1>2. CASE F # {}
  <2>1. PICK k \in F : \A j \in F : k =< j
    <3>1. F \in SUBSET Nat
      OBVIOUS
    <3> HIDE DEF F
    <3> QED BY <3>1, <1>2, SmallestOf
  <2>2. k # 0
    BY <2>1
  <2>3. k - 1 \in 0 .. m - 1 /\ k - 1 \notin F /\ k = (k - 1) + 1
    BY <2>1, <2>2
  <2> QED BY <2>1, <2>3
<1> QED BY <1>1, <1>2

\* At the last depth nothing depends on calls one level down.
LEMMA LastLevel ==
  ASSUME NEW secrets, NEW decodings, NEW t, NEW f, NEW g
  PROVE  ScanText(secrets, decodings, MaxDepth, f, t) = ScanText(secrets, decodings, MaxDepth, g, t)
BY SecretScannerAssumption DEF ScanText

\* What the defining equation of _scan_recursive makes of a function of the depth.
ScanRows(secrets, decodings, f) ==
  [d \in 1 .. MaxDepth |-> [t \in DOMAIN decodings |->
     ScanText(secrets, decodings, d, f[d + 1], t)]]

\* There is a function of the depth that _scan_recursive computes.
LEMMA ScanExists ==
  ASSUME NEW secrets, NEW decodings
  PROVE  \E f : f = ScanRows(secrets, decodings, f)
<1> DEFINE T == DOMAIN decodings
           Row(d, deeper) == [t \in T |-> ScanText(secrets, decodings, d, deeper, t)]
           Fits(f, d) == /\ DOMAIN f = 1 .. MaxDepth /\ f = [e \in 1 .. MaxDepth |-> f[e]]
                         /\ \A e \in d .. MaxDepth : f[e] = Row(e, f[e + 1])
           S == {d \in 1 .. MaxDepth : \E f : Fits(f, d)}
<1>m. MaxDepth \in Nat \ {0}
  BY SecretScannerAssumption
<1>l. \A f, g : Row(MaxDepth, f) = Row(MaxDepth, g)
  BY LastLevel
<1> HIDE DEF Row, T
<1>1. MaxDepth \in S
  <2> DEFINE f == [e \in 1 .. MaxDepth |-> Row(MaxDepth, {})]
  <2>1. DOMAIN f = 1 .. MaxDepth /\ f = [e \in 1 .. MaxDepth |-> f[e]]
    OBVIOUS
  <2>2. \A e \in MaxDepth .. MaxDepth : e = MaxDepth /\ f[e] = Row(MaxDepth, {})
    BY <1>m
  <2> HIDE DEF f
  <2>3. \A e \in MaxDepth .. MaxDepth : f[e] = Row(e, f[e + 1])
    BY <2>2, <1>l
  <2>4. Fits(f, MaxDepth)
    BY <2>1, <2>3
  <2> QED BY <2>4, <1>m
<1>2. ASSUME NEW d \in 1 .. MaxDepth - 1, d + 1 \in S PROVE d \in S
  <2>1. PICK f : Fits(f, d + 1)
    BY <1>2
  <2> DEFINE x == Row(d, f[d + 1])
             g == [e \in 1 .. MaxDepth |-> IF e = d THEN x ELSE f[e]]
  <2>d. d \in 1 .. MaxDepth /\ d + 1 \in 1 .. MaxDepth /\ d # d + 1
    BY <1>m
  <2>2. DOMAIN g = 1 .. MaxDepth /\ g = [e \in 1 .. MaxDepth |-> g[e]]
    OBVIOUS
  <2>3. /\ g[d] = x /\ g[d + 1] = f[d + 1]
        /\ \A e \in d + 1 .. MaxDepth : g[e] = f[e]
    BY <2>d, <1>m
  <2>4. g[d] = Row(d, g[d + 1])
    BY <2>3
  <2> HIDE DEF g
  <2>5. ASSUME NEW e \in d + 1 .. MaxDepth PROVE g[e] = Row(e, g[e + 1])
    <3>1. f[e] = Row(e, f[e + 1]) /\ g[e] = f[e]
      BY <2>1, <2>3
    <3>2. CASE e = MaxDepth
      BY <3>1, <3>2, <1>l
    <3>3. CASE e # MaxDepth
      <4>1. e + 1 \in d + 1 .. MaxDepth
        BY <3>3, <1>m
      <4>2. g[e + 1] = f[e + 1]
        BY <4>1, <2>3
      <4> QED BY <3>1, <4>2
    <3> QED BY <3>2, <3>3
  <2>6. \A e \in d .. MaxDepth : g[e] = Row(e, g[e + 1])
    <3>1. \A e \in d .. MaxDepth : e = d \/ e \in d + 1 .. MaxDepth
      BY <1>m
    <3> QED BY <3>1, <2>4, <2>5
  <2>7. Fits(g, d)
    BY <2>2, <2>6
  <2> QED BY <2>7, <2>d
<1>3. 1 \in S
  <2>1. 1 .. MaxDepth \subseteq S
    <3> HIDE DEF S
    <3> QED BY <1>1, <1>2, <1>m, Downwards
  <2>2. 1 \in 1 .. MaxDepth
    BY <1>m
  <2> HIDE DEF S
  <2> QED BY <2>1, <2>2
<1>4. PICK f : Fits(f, 1)
  BY <1>3
<1>5. f = [d \in 1 .. MaxDepth |-> Row(d, f[d + 1])]
  BY <1>4
<1> QED BY <1>5 DEF Row, T, ScanRows

\* The function that _scan_recursive computes is the one it is defined by.
LEMMA ScanStep ==
  ASSUME NEW secrets, NEW decodings
  PROVE  ScanRecursive(secrets, decodings) =
           ScanRows(secrets, decodings, ScanRecursive(secrets, decodings))
<1> DEFINE Fits(f) == f = ScanRows(secrets, decodings, f)
<1>1. Fits(CHOOSE f : Fits(f))
  <2>1. \E f : Fits(f)
    BY ScanExists
  <2> HIDE DEF Fits
  <2> QED BY <2>1, Zenon
<1>2. ScanRecursive(secrets, decodings) = CHOOSE f : Fits(f)
  BY Zenon DEF ScanRecursive, ScanRows
<1> QED BY <1>1, <1>2, Zenon

\* So are the texts that decoding makes.
DecodedRows(decodings, text, f) ==
  [n \in 0 .. MaxDepth |-> IF n = 0 THEN {text} ELSE UNION {decodings[t] : t \in f[n - 1]}]

LEMMA DecodedExists ==
  ASSUME NEW decodings, NEW text
  PROVE  \E f : f = DecodedRows(decodings, text, f)
<1> DEFINE Next1(A) == UNION {decodings[t] : t \in A}
           Fits(f, n) == /\ f = [k \in 0 .. MaxDepth |-> f[k]] /\ f[0] = {text}
                         /\ \A k \in 1 .. n : f[k] = Next1(f[k - 1])
           S == {n \in 0 .. MaxDepth : \E f : Fits(f, n)}
<1>m. MaxDepth \in Nat
  BY SecretScannerAssumption
<1> HIDE DEF Next1
<1>1. 0 \in S
  <2> DEFINE f == [k \in 0 .. MaxDepth |-> {text}]
  <2>1. f = [k \in 0 .. MaxDepth |-> f[k]] /\ f[0] = {text}
    BY <1>m
  <2> HIDE DEF f
  <2>2. Fits(f, 0)
    BY <2>1
  <2> QED BY <2>2, <1>m
<1>2. ASSUME NEW n \in 0 .. MaxDepth - 1, n \in S PROVE n + 1 \in S
  <2>1. PICK f : Fits(f, n)
    BY <1>2
  <2> DEFINE x == Next1(f[n])
             g == [k \in 0 .. MaxDepth |-> IF k = n + 1 THEN x ELSE f[k]]
  <2>2. /\ g[n + 1] = x /\ \A k \in 0 .. n : g[k] = f[k]
        /\ g = [k \in 0 .. MaxDepth |-> g[k]]
    BY <1>m
  <2> HIDE DEF g
  <2>3. ASSUME NEW k \in 1 .. n + 1 PROVE g[k] = Next1(g[k - 1])
    <3>1. CASE k = n + 1
      <4>1. k - 1 = n /\ n \in 0 .. n
        BY <3>1
      <4>2. g[n] = f[n] /\ g[k] = Next1(f[n])
        BY <3>1, <4>1, <2>2
      <4> QED BY <4>1, <4>2
    <3>2. CASE k # n + 1
      <4>1. k \in 1 .. n /\ k \in 0 .. n /\ k - 1 \in 0 .. n
        BY <3>2
      <4>2. f[k] = Next1(f[k - 1])
        BY <4>1, <2>1
      <4>3. g[k] = f[k] /\ g[k - 1] = f[k - 1]
        BY <4>1, <2>2
      <4> QED BY <4>2, <4>3
    <3> QED BY <3>1, <3>2
  <2>4. g[0] = {text}
    <3>1. 0 \in 0 .. n
      OBVIOUS
    <3>2. g[0] = f[0]
      BY <3>1, <2>2
    <3> QED BY <3>2, <2>1
  <2>5. Fits(g, n + 1)
    BY <2>2, <2>3, <2>4
  <2>6. n + 1 \in 0 .. MaxDepth
    BY <1>m
  <2> QED BY <2>5, <2>6
<1>3. MaxDepth \in S
  <2>1. 0 .. MaxDepth \subseteq S
    <3> HIDE DEF S
    <3> QED BY <1>1, <1>2, <1>m, Upwards
  <2> HIDE DEF S
  <2> QED BY <2>1, <1>m
<1>4. PICK f : Fits(f, MaxDepth)
  BY <1>3
<1>5. ASSUME NEW n \in 0 .. MaxDepth
      PROVE  f[n] = IF n = 0 THEN {text} ELSE Next1(f[n - 1])
  <2>1. CASE n = 0
    BY <2>1, <1>4
  <2>2. CASE n # 0
    <3>1. n \in 1 .. MaxDepth
      BY <2>2
    <3> QED BY <3>1, <2>2, <1>4
  <2> QED BY <2>1, <2>2
<1>6. f = [n \in 0 .. MaxDepth |-> f[n]]
  BY <1>4
<1>7. f = [n \in 0 .. MaxDepth |-> IF n = 0 THEN {text} ELSE Next1(f[n - 1])]
  BY <1>5, <1>6
<1> QED BY <1>7 DEF Next1, DecodedRows

\* The texts that decoding makes, one depth after the other.
DecodedLaws(decodings, text, after) ==
  /\ after[0] = {text}
  /\ \A n \in 1 .. MaxDepth : after[n] = UNION {decodings[t] : t \in after[n - 1]}

LEMMA DecodedObeys ==
  ASSUME NEW decodings, NEW text
  PROVE  DecodedLaws(decodings, text, Decoded(decodings, text))
<1> DEFINE after == Decoded(decodings, text)
<1>1. after = [n \in 0 .. MaxDepth |->
                 IF n = 0 THEN {text} ELSE UNION {decodings[t] : t \in after[n - 1]}]
  <2> DEFINE Fits(f) == f = DecodedRows(decodings, text, f)
  <2>1. Fits(CHOOSE f : Fits(f))
    <3>1. \E f : Fits(f)
      BY DecodedExists
    <3> HIDE DEF Fits
    <3> QED BY <3>1, Zenon
  <2>2. Decoded(decodings, text) = CHOOSE f : Fits(f)
    BY Zenon DEF Decoded, DecodedRows
  <2>3. Fits(Decoded(decodings, text))
    BY <2>1, <2>2, Zenon
  <2> QED BY <2>3 DEF DecodedRows
<1> HIDE DEF after
<1>m. MaxDepth \in Nat
  BY SecretScannerAssumption
<1>2. after[0] = {text}
  BY <1>1, <1>m
<1>3. ASSUME NEW n \in 1 .. MaxDepth
      PROVE  after[n] = UNION {decodings[t] : t \in after[n - 1]}
  <2>1. n \in 0 .. MaxDepth /\ n # 0
    BY <1>m
  <2> QED BY <1>1, <2>1, Zenon
<1>4. DecodedLaws(decodings, text, after)
  BY <1>2, <1>3 DEF DecodedLaws
<1> QED BY <1>4 DEF after

\* What is scanned: texts are numbers, and decoding leads from text to text.
Scannable(decodings, T) ==
  T = DOMAIN decodings /\ T \subseteq Nat /\ decodings \in [T -> SUBSET T]

\* What a call says, by what its own calls say: a secret is blocked; what else
\* is blocked is what one of its candidates was; and what has a blocked
\* candidate is blocked.
ScanLaws(secrets, decodings, T, scan) ==
  /\ \A d \in 1 .. MaxDepth : \A t \in T \cap secrets :
       scan[d][t].blocked /\ scan[d][t].depth = d
  /\ \A d \in 1 .. MaxDepth : \A t \in T \ secrets :
       scan[d][t].blocked =>
         /\ d # MaxDepth
         /\ \E c \in T : /\ c \in Candidates(decodings, t) /\ scan[d + 1][c].blocked
                         /\ scan[d][t] = scan[d + 1][c]
  /\ \A d \in 1 .. MaxDepth - 1 : \A t \in T : \A c \in Candidates(decodings, t) :
       scan[d + 1][c].blocked => scan[d][t].blocked

LEMMA ScanObeys ==
  ASSUME NEW secrets, NEW decodings, NEW T, Scannable(decodings, T)
  PROVE  ScanLaws(secrets, decodings, T, ScanRecursive(secrets, decodings))
<1> DEFINE scan == ScanRecursive(secrets, decodings)
<1>m. MaxDepth \in Nat \ {0}
  BY SecretScannerAssumption
<1>s. scan = ScanRows(secrets, decodings, scan)
  BY ScanStep
<1> HIDE DEF scan
<1>1. ASSUME NEW d \in 1 .. MaxDepth, NEW t \in T
      PROVE  /\ t \in secrets => scan[d][t].blocked /\ scan[d][t].depth = d
             /\ t \notin secrets /\ scan[d][t].blocked =>
                  /\ d # MaxDepth
                  /\ \E c \in T : /\ c \in Candidates(decodings, t) /\ scan[d + 1][c].blocked
                                  /\ scan[d][t] = scan[d + 1][c]
             /\ \A c \in Candidates(decodings, t) :
                  d # MaxDepth /\ scan[d + 1][c].blocked => scan[d][t].blocked
  <2> DEFINE found == {c \in Candidates(decodings, t) : scan[d + 1][c].blocked}
  <2>1. scan[d] = [u \in T |-> ScanText(secrets, decodings, d, scan[d + 1], u)]
    <3>1. T = DOMAIN decodings
      BY DEF Scannable
    <3> QED BY <1>s, <3>1, Zenon DEF ScanRows
  <2>2. scan[d][t] = ScanText(secrets, decodings, d, scan[d + 1], t)
    BY <2>1, Zenon
  <2>3. scan[d][t] =
          IF t \in secrets THEN [blocked |-> TRUE, depth |-> d]
          ELSE IF d >= MaxDepth \/ found = {} THEN [blocked |-> FALSE, depth |-> d]
          ELSE scan[d + 1][First(found)]
    BY <2>2, Zenon DEF ScanText
  <2>4. d >= MaxDepth <=> d = MaxDepth
    BY <1>m
  <2>5. found \in SUBSET T /\ found \in SUBSET Nat
    BY DEF Scannable, Candidates
  <2>6. found # {} => First(found) \in found
    <3> HIDE DEF found
    <3> QED BY <2>5, SmallestOf DEF First
  <2>7. \A c : c \in found <=> c \in Candidates(decodings, t) /\ scan[d + 1][c].blocked
    OBVIOUS
  <2> HIDE DEF found
  <2>8. CASE t \in secrets
    <3>1. scan[d][t] = [blocked |-> TRUE, depth |-> d]
      BY <2>3, <2>8
    <3> QED BY <2>8, <3>1
  <2>9. CASE t \notin secrets /\ (d = MaxDepth \/ found = {})
    <3>1. scan[d][t] = [blocked |-> FALSE, depth |-> d]
      BY <2>3, <2>4, <2>9
    <3>2. ~scan[d][t].blocked
      BY <3>1
    <3> QED BY <2>7, <2>9, <3>2
  <2>10. CASE t \notin secrets /\ d # MaxDepth /\ found # {}
    <3>1. scan[d][t] = scan[d + 1][First(found)] /\ First(found) \in found
      BY <2>3, <2>4, <2>6, <2>10
    <3>2. PICK c \in T : c \in found /\ scan[d][t] = scan[d + 1][c]
      BY <2>5, <3>1
    <3> QED BY <2>7, <2>10, <3>2
  <2> QED BY <2>8, <2>9, <2>10
<1>2. \A d \in 1 .. MaxDepth - 1 : d \in 1 .. MaxDepth /\ d # MaxDepth
  BY <1>m
<1>3. ScanLaws(secrets, decodings, T, scan)
  BY <1>1, <1>2 DEF ScanLaws
<1> QED BY <1>3 DEF scan

\* A text that is blocked at a depth is blocked if it is met sooner.
LEMMA BlockedSooner ==
  ASSUME NEW secrets, NEW decodings, NEW T, NEW scan, ScanLaws(secrets, decodings, T, scan),
         NEW d \in 1 .. MaxDepth - 1, NEW t \in T, scan[d + 1][t].blocked
  PROVE  scan[d][t].blocked
<1> DEFINE S == {e \in 1 .. MaxDepth :
                   e = MaxDepth \/ \A u \in T : scan[e + 1][u].blocked => scan[e][u].blocked}
<1>m. MaxDepth \in Nat \ {0}
  BY SecretScannerAssumption
<1>1. MaxDepth \in S
  BY <1>m
<1>2. ASSUME NEW e \in 1 .. MaxDepth - 1, e + 1 \in S PROVE e \in S
  <2> SUFFICES ASSUME NEW u \in T, scan[e + 1][u].blocked PROVE scan[e][u].blocked
    BY <1>m
  <2>1. e \in 1 .. MaxDepth /\ e + 1 \in 1 .. MaxDepth
    BY <1>m
  <2>2. CASE u \in secrets
    BY <2>1, <2>2 DEF ScanLaws
  <2>3. CASE u \notin secrets
    <3>1. /\ e + 1 # MaxDepth
          /\ \E c \in T : c \in Candidates(decodings, u) /\ scan[(e + 1) + 1][c].blocked
      BY <2>1, <2>3 DEF ScanLaws
    <3>2. PICK c \in T : c \in Candidates(decodings, u) /\ scan[(e + 1) + 1][c].blocked
      BY <3>1
    <3>3. scan[e + 1][c].blocked
      BY <1>2, <3>1, <3>2
    <3> QED BY <3>2, <3>3 DEF ScanLaws
  <2> QED BY <2>2, <2>3
<1>3. 1 .. MaxDepth \subseteq S
  <2> HIDE DEF S
  <2> QED BY <1>1, <1>2, <1>m, Downwards
<1>4. d \in S /\ d # MaxDepth
  <2>1. d \in 1 .. MaxDepth /\ d # MaxDepth
    BY <1>m
  <2> HIDE DEF S
  <2> QED BY <1>3, <2>1
<1> QED BY <1>4

\* What is blocked has a secret at the depth that is reported.
LEMMA BlockedHasSecret ==
  ASSUME NEW secrets, NEW decodings, NEW T, NEW scan, ScanLaws(secrets, decodings, T, scan),
         NEW text \in T, NEW after, DecodedLaws(decodings, text, after), scan[1][text].blocked
  PROVE  /\ scan[1][text].depth \in 1 .. MaxDepth
         /\ after[scan[1][text].depth - 1] \cap secrets # {}
<1> DEFINE Told(n) == n \in 1 .. MaxDepth /\ after[n - 1] \cap secrets # {}
           S == {d \in 1 .. MaxDepth :
                   \A t \in T : t \in after[d - 1] /\ scan[d][t].blocked => Told(scan[d][t].depth)}
<1>m. MaxDepth \in Nat \ {0}
  BY SecretScannerAssumption
<1>1. ASSUME NEW d \in 1 .. MaxDepth, NEW t \in T, t \in after[d - 1], t \in secrets
      PROVE  Told(scan[d][t].depth)
  <2>1. scan[d][t].depth = d
    BY <1>1 DEF ScanLaws
  <2> QED BY <1>1, <2>1
<1> HIDE DEF Told
<1>2. MaxDepth \in S
  <2>1. MaxDepth \in 1 .. MaxDepth
    BY <1>m
  <2>2. ASSUME NEW t \in T, scan[MaxDepth][t].blocked PROVE t \in secrets
    BY <2>1, <2>2 DEF ScanLaws
  <2> QED BY <1>1, <2>1, <2>2
<1>3. ASSUME NEW d \in 1 .. MaxDepth - 1, d + 1 \in S PROVE d \in S
  <2>1. d \in 1 .. MaxDepth /\ d + 1 \in 1 .. MaxDepth /\ (d + 1) - 1 = d
    BY <1>m
  <2> SUFFICES ASSUME NEW t \in T, t \in after[d - 1], scan[d][t].blocked
               PROVE  Told(scan[d][t].depth)
    BY <2>1
  <2>2. CASE t \in secrets
    BY <1>1, <2>1, <2>2
  <2>3. CASE t \notin secrets
    <3>1. PICK c \in T : /\ c \in Candidates(decodings, t) /\ scan[d + 1][c].blocked
                         /\ scan[d][t] = scan[d + 1][c]
      BY <2>1, <2>3 DEF ScanLaws
    <3>2. c \in after[d]
      BY <2>1, <3>1 DEF Candidates, DecodedLaws
    <3>3. Told(scan[d + 1][c].depth)
      BY <1>3, <2>1, <3>1, <3>2
    <3> QED BY <3>1, <3>3
  <2> QED BY <2>2, <2>3
<1>4. 1 \in S
  <2>1. 1 \in 1 .. MaxDepth
    BY <1>m
  <2> HIDE DEF S
  <2>2. 1 .. MaxDepth \subseteq S
    BY <1>2, <1>3, <1>m, Downwards
  <2> QED BY <2>1, <2>2
<1>5. text \in after[1 - 1]
  BY DEF DecodedLaws
<1>6. Told(scan[1][text].depth)
  BY <1>4, <1>5
<1> QED BY <1>6 DEF Told

\* What is not blocked has no secret within the depth.
LEMMA PassedHasNone ==
  ASSUME NEW secrets, NEW decodings, NEW T, Scannable(decodings, T),
         NEW scan, ScanLaws(secrets, decodings, T, scan),
         NEW text \in T, NEW after, DecodedLaws(decodings, text, after), ~scan[1][text].blocked
  PROVE  \A n \in 0 .. MaxDepth - 1 : after[n] \cap secrets = {}
<1> DEFINE S == {n \in 0 .. MaxDepth - 1 :
                   \A t \in after[n] : t \in T /\ ~scan[n + 1][t].blocked}
<1>m. MaxDepth \in Nat \ {0}
  BY SecretScannerAssumption
<1>1. 0 \in S
  <2>1. 0 \in 0 .. MaxDepth - 1 /\ 0 + 1 = 1
    BY <1>m
  <2> QED BY <2>1 DEF DecodedLaws
<1>2. ASSUME NEW n \in 0 .. (MaxDepth - 1) - 1, n \in S PROVE n + 1 \in S
  <2>1. /\ n + 1 \in 0 .. MaxDepth - 1 /\ n + 1 \in 1 .. MaxDepth /\ (n + 1) - 1 = n
        /\ n + 1 \in 1 .. MaxDepth - 1
    BY <1>m
  <2> SUFFICES ASSUME NEW u \in after[n + 1] PROVE u \in T /\ ~scan[(n + 1) + 1][u].blocked
    BY <2>1
  <2>2. PICK t \in after[n] : u \in decodings[t]
    BY <2>1 DEF DecodedLaws
  <2>3. t \in T /\ ~scan[n + 1][t].blocked
    BY <1>2
  <2>4. u \in T
    BY <2>2, <2>3 DEF Scannable
  <2>5. ASSUME scan[(n + 1) + 1][u].blocked PROVE FALSE
    <3>1. CASE u = t
      BY <2>1, <2>3, <2>5, <3>1, BlockedSooner
    <3>2. CASE u # t
      <4>1. u \in Candidates(decodings, t)
        BY <2>2, <3>2 DEF Candidates
      <4> QED BY <2>1, <2>3, <2>5, <4>1 DEF ScanLaws
    <3> QED BY <3>1, <3>2
  <2> QED BY <2>4, <2>5
<1>3. 0 .. MaxDepth - 1 \subseteq S
  <2>1. MaxDepth - 1 \in Nat
    BY <1>m
  <2> HIDE DEF S
  <2> QED BY <1>1, <1>2, <2>1, Upwards
<1>4. ASSUME NEW n \in 0 .. MaxDepth - 1, NEW t \in after[n], t \in secrets PROVE FALSE
  <2>1. n \in S /\ n + 1 \in 1 .. MaxDepth
    <3> HIDE DEF S
    <3> QED BY <1>3, <1>m
  <2>2. t \in T /\ ~scan[n + 1][t].blocked
    BY <2>1
  <2> QED BY <1>4, <2>1, <2>2 DEF ScanLaws
<1> QED BY <1>4

(***************************************************************************)
(* For every set of secrets, every max_depth and whatever the decoders     *)
(* make of what: a text is blocked exactly if at most max_depth - 1        *)
(* decodings bring a secret out of it, and the depth that is reported is   *)
(* that of such a chain.  SecretScanner.scan_multistage.                   *)
(***************************************************************************)
THEOREM HiddenSecretsAreFound == Spec => []HiddenSecretsFound
<1>1. Init => HiddenSecretsFound
  BY DEF Init, HiddenSecretsFound
<1>2. HiddenSecretsFound /\ [Next]_vars => HiddenSecretsFound'
  <2> SUFFICES ASSUME HiddenSecretsFound, [Next]_vars PROVE HiddenSecretsFound'
    OBVIOUS
  <2>1. CASE ScanPayload
    <3>1. PICK p \in Payloads :
            Ask("scan", p, ScanMultistage(p.secrets, p.decodings, p.text))
      BY <2>1 DEF ScanPayload
    <3> DEFINE told == ScanMultistage(p.secrets, p.decodings, p.text)
    <3>2. Scannable(p.decodings, DOMAIN p.decodings) /\ p.text \in DOMAIN p.decodings
      BY InputChecksAssumption DEF Scannable
    <3> DEFINE scan == ScanRecursive(p.secrets, p.decodings)
               after == Decoded(p.decodings, p.text)
    <3>s. ScanLaws(p.secrets, p.decodings, DOMAIN p.decodings, scan)
      BY <3>2, ScanObeys
    <3>d. DecodedLaws(p.decodings, p.text, after)
      BY DecodedObeys
    <3>3. told = scan[1][p.text]
      BY DEF ScanMultistage
    <3> HIDE DEF scan, after, told
    <3>4. told.blocked => /\ told.depth \in 1 .. MaxDepth
                          /\ after[told.depth - 1] \cap p.secrets # {}
      BY <3>2, <3>3, <3>s, <3>d, BlockedHasSecret
    <3>5. ~told.blocked => \A n \in 0 .. MaxDepth - 1 : after[n] \cap p.secrets = {}
      BY <3>2, <3>3, <3>s, <3>d, PassedHasNone
    <3>6. told.blocked => told.depth - 1 \in 0 .. MaxDepth - 1
      BY <3>4, SecretScannerAssumption
    <3>7. told.blocked <=> Hidden(p.secrets, p.decodings, p.text)
      BY <3>4, <3>5, <3>6 DEF Hidden, after
    <3>8. input' = p /\ answer' = told
      BY <3>1 DEF Ask, told
    <3> QED BY <3>4, <3>7, <3>8 DEF HiddenSecretsFound, after
  <2>2. CASE ValidateProject \/ CheckChanges \/ ReadVerdict \/ SubmitTask
    BY <2>2 DEF ValidateProject, CheckChanges, ReadVerdict, SubmitTask, Ask, HiddenSecretsFound
  <2>3. CASE UNCHANGED vars
    BY <2>3 DEF vars, HiddenSecretsFound
  <2> QED BY <2>1, <2>2, <2>3 DEF Next
<1> QED BY <1>1, <1>2, PTL DEF Spec
=============================================================================
