-------------------------- MODULE ComposeValidator --------------------------
(***************************************************************************)
(* The decision of src/src/security/compose_validator.py on the compose    *)
(* files of a prepared repository.  A file is the settings it makes, a     *)
(* path is how it is written, a location the names from "/" down to where  *)
(* it is.  Rule ids are kept where they decide something: every way for a  *)
(* path to lie outside the roots is "outside".                             *)
(***************************************************************************)
EXTENDS Locations

CONSTANTS
  RepoRoot,        \* location of the clone
  RuntimeRoot,     \* location of the task's runtime directory
  DockerSock,      \* location of the Docker socket
  DangerousRoots,  \* DANGEROUS_HOST_ROOTS
  Links            \* the symbolic links: a function from locations to locations

ASSUME ComposeValidatorAssumption ==
  /\ RepoRoot \in Location /\ RuntimeRoot \in Location /\ DockerSock \in Location
  /\ \A d \in DangerousRoots : d \in Location
  /\ \A l \in DOMAIN Links : Links[l] \in Location

-----------------------------------------------------------------------------
(* Paths.  parts are the names between the slashes; a path may be absolute *)
(* and have a leading dot.  Before them may stand what docker compose puts *)
(* a value in place of: "runtime" is one of the two variables that are     *)
(* allowed, "braced" another (`${VAR}`), "default" one with a default      *)
(* (`${VAR:-x}`), "unbraced" one without braces (`$VAR`), "home" a `~`;    *)
(* "unclosed" is the `${VAR` that remains of a default cut at its colon.   *)

\* What the code looks for no value of: it takes it for a name.
Unseen == {"unbraced", "unclosed", "home"}

IsWithinAllowedRoots(loc) == Beneath(loc, RepoRoot) \/ Beneath(loc, RuntimeRoot)

IsDangerous(loc) ==
  \/ loc = DockerSock
  \/ loc = <<>>
  \/ \E d \in DangerousRoots : Beneath(loc, d)

\* One name further: `..` goes up, a link leads where it points.
Enter(loc, name) ==
  IF name = ".." THEN IF loc = <<>> THEN loc ELSE SubSeq(loc, 1, Len(loc) - 1)
  ELSE IF Append(loc, name) \in DOMAIN Links THEN Links[Append(loc, name)]
  ELSE Append(loc, name)

\* Path.resolve(strict=False).
Resolve(from, parts) ==
  LET at[i \in 0 .. Len(parts)] ==
        IF i = 0 THEN from ELSE Enter(at[i - 1], parts[i])
  IN  at[Len(parts)]

IsAbsolute(p) == p.variable = "runtime" \/ p.absolute

GoesUp(p) == \E i \in DOMAIN p.parts : p.parts[i] = ".."

Where(p) ==
  Resolve(IF p.variable = "runtime" THEN RuntimeRoot
          ELSE IF p.absolute THEN <<>>
          ELSE RepoRoot,
          IF p.variable \in Unseen THEN <<p.variable>> \o p.parts ELSE p.parts)

\* Only a variable in braces, closed ones, is found by the regular expression.
Unresolved(p) == p.variable \notin {"none", "runtime"} \cup Unseen

\* _resolve_path: the rule broken so far.
ResolvePath(p) ==
  IF Unresolved(p) THEN "unresolved_env_var"
  ELSE IF ~IsAbsolute(p) /\ GoesUp(p) THEN "outside"
  ELSE IF IsDangerous(Where(p)) \/ IsWithinAllowedRoots(Where(p)) THEN "none"
  ELSE "outside"

\* Slip: a relative path without `..` is taken to stay in the clone.
PathRuleAsWritten(p) ==
  IF Unresolved(p) THEN "unresolved_env_var"
  ELSE IF ~IsAbsolute(p) THEN IF GoesUp(p) THEN "outside" ELSE "none"
  ELSE IF IsWithinAllowedRoots(Where(p)) THEN "none"
  ELSE "outside"

\* _validate_path_reference.
PathRule(p) ==
  IF ResolvePath(p) # "none" THEN ResolvePath(p)
  ELSE IF IsWithinAllowedRoots(Where(p)) THEN "none"
  ELSE IF Where(p) = DockerSock THEN "docker_sock_mount"
  ELSE IF IsDangerous(Where(p)) THEN "dangerous_host_mount"
  ELSE "outside"

(***************************************************************************)
(* The host path of a setting.  Short syntax is split at its colons, so    *)
(* that of `${VAR:-x}/names:/target` no more than `${VAR` is left.         *)
(***************************************************************************)
Source(s) ==
  IF s.key = "volumes" /\ ~s.long /\ s.path.variable = "default"
  THEN [variable |-> "unclosed", absolute |-> s.path.absolute, dotted |-> s.path.dotted,
        parts |-> <<>>]
  ELSE s.path

\* _extract_bind_source: a single plain name in short syntax is a volume, and
\* `$VAR` is a name.
IsBind(s) ==
  IF s.long THEN s.type = "bind"
  ELSE LET p == Source(s)
       IN  \/ p.absolute \/ p.dotted
           \/ p.variable \notin {"none", "unbraced"}
           \/ Len(p.parts) > IF p.variable = "unbraced" THEN 0 ELSE 1

-----------------------------------------------------------------------------
(* Settings.  Each has the key it stands under and what the rules look at. *)

\* What is wrong with a file as a whole.
Fault == {"none", "unreadable", "large", "no_yaml", "malformed"}

PathKeys == {"build.context", "build.dockerfile", "env_file", "configs.file", "secrets.file"}

\* service.trusted: the name or the image _is_allowed_trusted_dind_service knows.
Privileged(profile, service) == ~(profile = "trusted_dind" /\ service.trusted)

\* network_mode, pid, ipc and userns_mode.
HostMode(s) == s.value = "host"

DangerousCapability(s) == s.value = "dangerous"

PortUsesHostNamespace(s) == s.value = "host_ip"

IsExternalResource(s) == s.value = "yes"

\* The rules a setting breaks, if any.
Broken(profile, service, s) ==
  CASE s.key = "privileged" /\ Privileged(profile, service) -> {"privileged_container"}
    [] s.key = "host_mode" /\ HostMode(s) -> {"host_mode"}
    [] s.key = "devices" -> {"host_device_exposure"}
    [] s.key = "cap_add" /\ DangerousCapability(s) -> {"dangerous_capability"}
    [] s.key = "ports" /\ PortUsesHostNamespace(s) -> {"host_namespace_port"}
    [] s.key = "external" /\ IsExternalResource(s) -> {"external_resource"}
    [] s.key = "volumes" /\ IsBind(s) -> {PathRule(Source(s))} \ {"none"}
    [] s.key \in PathKeys -> {PathRule(Source(s))} \ {"none"}
    [] OTHER -> {}

\* _validate_services: a service that is no mapping has no settings to look at.
ServiceRules(profile, service) ==
  IF ~service.mapping THEN {"invalid_compose_model"}
  ELSE UNION {Broken(profile, service, s) : s \in service.settings}

\* networks, volumes, configs and secrets of the document.
TopLevelRules(profile, file) ==
  UNION {Broken(profile, [trusted |-> FALSE], s) : s \in file.top}

\* _validate_compose_file with its early returns.
FileRules(profile, file) ==
  IF file.fault \in {"unreadable", "no_yaml"} THEN {"yaml_parse_error"}
  ELSE IF file.fault = "large" THEN {"file_too_large"}
  ELSE IF file.services = {} THEN {"invalid_compose_model"}
  ELSE TopLevelRules(profile, file)
         \cup UNION {ServiceRules(profile, service) : service \in file.services}

\* validate.
Violations(profile, files) ==
  IF files = {} THEN {"no_compose_file"}
  ELSE UNION {FileRules(profile, file) : file \in files}

(***************************************************************************)
(* The caller's view.  A list where the code expects a mapping (networks,  *)
(* volumes, configs, secrets of a file) is not looked for: it raises.      *)
(***************************************************************************)
Verdict(profile, files) ==
  IF \E file \in files : file.fault = "malformed" THEN "raised"
  ELSE IF Violations(profile, files) # {} THEN "blocked"
  ELSE "passed"

-----------------------------------------------------------------------------
(* What the decision is for, said without rules or their order, for the    *)
(* paths as docker compose reads them.                                     *)

StaysInside(p) ==
  /\ p.variable \in {"none", "runtime"}
  /\ GoesUp(p) => IsAbsolute(p)
  /\ IsWithinAllowedRoots(Where(p))

\* What compose may mount a directory of the host for.
MayBind(s) ==
  IF s.long THEN s.type = "bind"
  ELSE s.path.absolute \/ s.path.dotted \/ s.path.variable # "none" \/ Len(s.path.parts) > 1

\* Compose puts a value where the validator saw a name of the clone.
TakenForName(s) == Source(s).variable \in Unseen

\* lenient: settings that were taken for a name are let be.
HarmlessSetting(profile, service, s, lenient) ==
  /\ s.key = "privileged" => profile = "trusted_dind" /\ service.trusted
  /\ s.key # "devices"
  /\ s.key = "host_mode" => s.value # "host"
  /\ s.key = "cap_add" => s.value # "dangerous"
  /\ s.key = "ports" => s.value # "host_ip"
  /\ s.key = "external" => s.value # "yes"
  /\ s.key \in PathKeys \/ (s.key = "volumes" /\ MayBind(s)) =>
       StaysInside(s.path) \/ (lenient /\ TakenForName(s))

HarmlessFile(profile, file, lenient) ==
  /\ file.fault = "none"
  /\ file.services # {}
  /\ \A s \in file.top : HarmlessSetting(profile, [trusted |-> FALSE], s, lenient)
  /\ \A service \in file.services :
       /\ service.mapping
       /\ \A s \in service.settings : HarmlessSetting(profile, service, s, lenient)

Harmless(profile, files, lenient) ==
  files # {} /\ \A file \in files : HarmlessFile(profile, file, lenient)
=============================================================================
