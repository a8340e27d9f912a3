--------------------------- MODULE MCInputChecks ---------------------------
(* Inputs for InputChecks. *)
EXTENDS InputChecks

UpTo(S, n) == UNION {[1 .. k -> S] : k \in 0 .. n}

\* The clone, the runtime directory beside it, and four links of the clone:
\* out of it, into the runtime directory, to their common parent, to the socket.
MCRepoRoot    == <<"task", "repo">>
MCRuntimeRoot == <<"task", "runtime">>
MCDockerSock  == <<"run", "docker.sock">>
MCDangerous   == {<<"etc">>, <<"dev">>}
InRepo(names) == MCRepoRoot \o names
MCLinks ==
  [l \in {InRepo(<<"out">>), InRepo(<<"in">>), InRepo(<<"src", "up">>), InRepo(<<"sock">>)} |->
     CASE l = InRepo(<<"out">>) -> <<"etc">>
       [] l = InRepo(<<"in">>) -> MCRuntimeRoot
       [] l = InRepo(<<"src", "up">>) -> <<"task">>
       [] OTHER -> MCDockerSock]

PathOf(variable, absolute, dotted, parts) ==
  [variable |-> variable, absolute |-> absolute, dotted |-> dotted, parts |-> parts]

Names == {"..", "src", "up", "out", "in", "sock", "etc", "task", "repo"}

\* Every path of up to three names, and some that only a longer one reaches.
Paths ==
  {PathOf("none", absolute, dotted, parts) :
     absolute \in BOOLEAN, dotted \in BOOLEAN, parts \in UpTo(Names, 3)}
  \cup {PathOf("runtime", FALSE, FALSE, parts) : parts \in UpTo(Names, 3)}
  \cup {PathOf(variable, FALSE, dotted, parts) :
          variable \in {"braced", "default", "unbraced", "home"}, dotted \in BOOLEAN,
          parts \in UpTo({"..", "src", "out"}, 2)}
  \cup {PathOf("none", TRUE, FALSE, InRepo(parts)) : parts \in UpTo(Names, 3)}

PlainPath == PathOf("none", FALSE, TRUE, <<"src">>)

Setting(key, value, path, long, type) ==
  [key |-> key, value |-> value, path |-> path, long |-> long, type |-> type]

\* Settings with a path in them, and the others.
PathSettings ==
  {Setting("volumes", "", p, FALSE, "") : p \in {q \in Paths : ~(q.absolute /\ q.dotted)}}
  \cup {Setting("volumes", "", p, TRUE, type) :
          p \in {q \in Paths : q.parts # <<>> /\ Len(q.parts) < 3 /\ ~(q.absolute /\ q.dotted)},
          type \in {"bind", "volume"}}
  \cup {Setting(key, "", p, FALSE, "") :
          key \in {"build.context", "env_file"}, p \in {q \in Paths : ~q.dotted}}

OtherSettings ==
  {Setting("privileged", "", PlainPath, FALSE, ""),
   Setting("devices", "", PlainPath, FALSE, "")}
  \cup {Setting("host_mode", value, PlainPath, FALSE, "") : value \in {"host", "bridge"}}
  \cup {Setting("cap_add", value, PlainPath, FALSE, "") : value \in {"dangerous", "plain"}}
  \cup {Setting("ports", value, PlainPath, FALSE, "") : value \in {"host_ip", "plain"}}

TopSettings ==
  {Setting("external", value, PlainPath, FALSE, "") : value \in {"yes", "no"}}
  \cup {Setting(key, "", PathOf("none", FALSE, FALSE, parts), FALSE, "") :
          key \in {"configs.file", "secrets.file"}, parts \in {<<"src">>, <<"out">>}}

Service(settings) == [mapping |-> TRUE, trusted |-> FALSE, settings |-> settings]

File(services, top) == [fault |-> "none", services |-> services, top |-> top]

\* One setting alone; then every service of up to two of the other settings,
\* with and without a trusted image, beside a top level setting or not.
OneSetting == {{File({Service({s})}, {})} : s \in PathSettings}
OneService ==
  {{File({[mapping |-> TRUE, trusted |-> trusted, settings |-> {s, t}]}, top)} :
     trusted \in BOOLEAN, s \in OtherSettings, t \in OtherSettings,
     top \in {{}} \cup {{u} : u \in TopSettings}}

\* Files that are faulty, empty, harmless, or break a rule, one to three of them.
Some(key) == CHOOSE s \in OtherSettings : s.key = key
SomeFiles ==
  {[fault |-> fault, services |-> {Service({})}, top |-> {}] :
     fault \in {"none", "unreadable", "large", "no_yaml", "malformed"}}
  \cup {File({}, {}), File({[mapping |-> FALSE, trusted |-> FALSE, settings |-> {}]}, {}),
        File({Service({}), Service({Some("devices")})}, {}),
        File({Service({})}, {Setting("external", "yes", PlainPath, FALSE, "")})}
SeveralFiles == {{a, b, c} : a \in SomeFiles, b \in SomeFiles, c \in SomeFiles} \cup {{}}

MCProjects ==
  {[profile |-> "strict", files |-> files] : files \in OneSetting}
  \cup {[profile |-> profile, files |-> files] :
          profile \in {"strict", "trusted_dind"}, files \in OneService \cup SeveralFiles}

\* Four texts, each decoded into at most two others; at most one is a secret.
Text == 1 .. 4
MCPayloads ==
  {[secrets |-> secrets, decodings |-> decodings, text |-> 1] :
     secrets \in {{}} \cup {{t} : t \in Text},
     decodings \in [Text -> {D \in SUBSET Text : D \in {{}} \cup {{t, u} : t \in Text, u \in Text}}]}

MCLlmAnswers == UpTo(Piece, 5)

\* Up to three changes of the kinds a working tree can hold: files; directories
\* that are clean, have a token or a link in them, or more files than the limit.
MCChange ==
  {c \in [name : {"plain", "quoted"}, kind : {"file", "deleted", "directory", "renamed"},
          leads : {"here", "inside", "outside", "nowhere"}, token : BOOLEAN,
          files : {1, MaxChangedFiles + 1}] :
     /\ c.kind # "directory" => c.files = 1
     /\ c.kind = "directory" =>
          c.leads \in {"here", "outside"} /\ (c.token => c.leads = "here" /\ c.files = 1)
     /\ c.kind \in {"deleted", "renamed"} => c.leads = "here" /\ ~c.token
     /\ c.leads \in {"outside", "nowhere"} => ~c.token}
MCWorkingTrees == UpTo(MCChange, 3)

\* The dashboard under /app, which none of the banned roots holds.
MCDashboardRoot == <<"app">>
MCWorkspaceRoot == <<"workspace">>
MCBannedRoots   == {<<>>, <<"etc">>, <<"app", "bin">>}

Repositories ==
  {[is |-> "absent"], [is |-> "no_text"], [is |-> "control"]}
  \cup [is : {"url"}, scheme : {"https", "ssh"}, host : {"github.com", "other"},
        query : BOOLEAN, names : {1, 2, 3}, safe : BOOLEAN]
  \cup [is : {"path"}, directory : BOOLEAN,
        at : {<<>>, <<"app">>, <<"app", "repo">>, <<"app", "bin">>, <<"etc">>, <<"home">>}]

Refs ==
  [text : {TRUE}, control : BOOLEAN, dash : BOOLEAN, name : {"", "main", "wip", "kana"}]
  \cup {[text |-> FALSE, control |-> FALSE, dash |-> FALSE, name |-> ""]}

IntFields == {"absent", "integer", "text"}

MCRequests ==
  [body : {"object"}, repository : Repositories, ref : Refs, phase : IntFields,
   priority : IntFields, flow : {"none", "client"}, broken : BOOLEAN]
  \cup [body : {"no_json", "no_object"}, repository : {[is |-> "absent"]},
        ref : {[text |-> FALSE, control |-> FALSE, dash |-> FALSE, name |-> ""]},
        phase : {"absent"}, priority : {"absent"}, flow : {"none"}, broken : {FALSE}]
=============================================================================
