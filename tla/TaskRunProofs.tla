--------------------------- MODULE TaskRunProofs ---------------------------
(***************************************************************************)
(* WorkerCycle implements TaskRun, for every number of processes, rows,    *)
(* retries and faults: what a transaction has drafted when it reaches its  *)
(* commit is a log the abstract specification accepts.                     *)
(***************************************************************************)
EXTENDS WorkerCycleProofs, SequenceTheorems

Event ==
  TR!BlockingEvent \cup
  {"task_started", "repository_prepared", "phase_flow_initialized",
   "compose_validation_started", "compose_validation_passed",
   "llm_generation_started", "llm_generation_succeeded", "git_commit_succeeded",
   "git_push_succeeded", "phase_edit_no_changes"}

Started == "llm_generation_started"
Succeeded == "llm_generation_succeeded"
Pushed == "git_push_succeeded"

\* Nothing in the log says yet how the run ends.
Open(log) ==
  /\ \A e \in TR!BlockingEvent : ~TR!Said(log, e)
  /\ ~TR!Said(log, Succeeded) /\ ~TR!Said(log, Pushed)

-----------------------------------------------------------------------------
(* Logs.                                                                   *)

LEMMA SaidConcat ==
  ASSUME NEW s \in Seq(Event), NEW a \in Seq(Event), NEW e
  PROVE  TR!Said(s \o a, e) <=> TR!Said(s, e) \/ TR!Said(a, e)
<1>1. /\ Len(s) \in Nat /\ Len(a) \in Nat /\ DOMAIN s = 1 .. Len(s) /\ DOMAIN a = 1 .. Len(a)
      /\ DOMAIN (s \o a) = 1 .. Len(s) + Len(a)
      /\ \A i \in 1 .. Len(s) + Len(a) :
           (s \o a)[i] = IF i <= Len(s) THEN s[i] ELSE a[i - Len(s)]
  BY ConcatProperties
<1> DEFINE c == s \o a
<1> HIDE DEF c
<1>2. ASSUME TR!Said(c, e) PROVE TR!Said(s, e) \/ TR!Said(a, e)
  <2>1. PICK i \in 1 .. Len(s) + Len(a) : c[i] = e
    BY <1>1, <1>2 DEF TR!Said, c
  <2>2. CASE i <= Len(s)
    BY <1>1, <2>1, <2>2 DEF TR!Said, c
  <2>3. CASE i > Len(s)
    <3>1. i - Len(s) \in 1 .. Len(a) /\ a[i - Len(s)] = e
      BY <1>1, <2>1, <2>3 DEF c
    <3> QED BY <1>1, <3>1 DEF TR!Said
  <2> QED BY <1>1, <2>1, <2>2, <2>3
<1>3. ASSUME TR!Said(s, e) PROVE TR!Said(c, e)
  <2>1. PICK i \in 1 .. Len(s) : s[i] = e
    BY <1>1, <1>3 DEF TR!Said
  <2>2. i \in 1 .. Len(s) + Len(a) /\ c[i] = e
    BY <1>1, <2>1 DEF c
  <2> QED BY <1>1, <2>2 DEF TR!Said, c
<1>4. ASSUME TR!Said(a, e) PROVE TR!Said(c, e)
  <2>1. PICK j \in 1 .. Len(a) : a[j] = e
    BY <1>1, <1>4 DEF TR!Said
  <2>2. j + Len(s) \in 1 .. Len(s) + Len(a) /\ c[j + Len(s)] = e
    BY <1>1, <2>1 DEF c
  <2> QED BY <1>1, <2>2 DEF TR!Said, c
<1> QED BY <1>2, <1>3, <1>4 DEF c

LEMMA BeginsConcat ==
  ASSUME NEW s \in Seq(Event), NEW a \in Seq(Event), TR!Begins(s)
  PROVE  s \o a \in Seq(Event) /\ TR!Begins(s \o a)
<1>1. Len(s) >= 1 /\ Len(s) \in Nat /\ Len(a) \in Nat /\ s[1] = "task_started"
  BY DEF TR!Begins
<1>2. s \o a \in Seq(Event) /\ Len(s \o a) = Len(s) + Len(a) /\ (s \o a)[1] = s[1]
  BY <1>1, ConcatProperties
<1> QED BY <1>1, <1>2 DEF TR!Begins

LEMMA FirstConcat ==
  ASSUME NEW s \in Seq(Event), NEW a \in Seq(Event), Len(s) = 1
  PROVE  s \o a \in Seq(Event) /\ Len(s \o a) >= 1 /\ (s \o a)[1] = s[1]
<1>1. Len(a) \in Nat
  OBVIOUS
<1>2. /\ s \o a \in Seq(Event) /\ Len(s \o a) = Len(s) + Len(a)
      /\ \A i \in 1 .. Len(s) + Len(a) : (s \o a)[i] = IF i <= Len(s) THEN s[i] ELSE a[i - Len(s)]
  BY ConcatProperties
<1> QED BY <1>1, <1>2

\* A log in which nothing is decided, and a last word that decides against it.
LEMMA BlockedConcat ==
  ASSUME NEW s \in Seq(Event), TR!Begins(s), Open(s),
         NEW a \in Seq(Event), a # <<>>, a[Len(a)] \in TR!BlockingEvent,
         \A i \in 1 .. Len(a) - 1 : a[i] \notin TR!BlockingEvent,
         ~TR!Said(a, Succeeded)
  PROVE  TR!TellsBlocked(s \o a)
<1> DEFINE c == s \o a
<1>1. /\ Len(s) \in Nat /\ Len(a) \in Nat /\ Len(a) >= 1 /\ DOMAIN s = 1 .. Len(s)
      /\ Len(c) = Len(s) + Len(a) /\ DOMAIN c = 1 .. Len(s) + Len(a)
      /\ \A i \in 1 .. Len(s) + Len(a) : c[i] = IF i <= Len(s) THEN s[i] ELSE a[i - Len(s)]
  BY ConcatProperties
<1>2. TR!Begins(c) /\ ~TR!Said(c, Succeeded)
  BY BeginsConcat, SaidConcat DEF Open
<1> HIDE DEF c
<1>3. c[Len(c)] \in TR!BlockingEvent
  BY <1>1
<1>4. \A i \in 1 .. Len(s) : s[i] \notin TR!BlockingEvent
  BY <1>1 DEF Open, TR!Said
<1>5. ASSUME NEW i \in DOMAIN c, i < Len(c) PROVE c[i] \notin TR!BlockingEvent
  <2>1. CASE i <= Len(s)
    BY <1>1, <1>4, <1>5, <2>1
  <2>2. CASE i > Len(s)
    <3>1. i - Len(s) \in 1 .. Len(a) - 1 /\ c[i] = a[i - Len(s)]
      BY <1>1, <1>5, <2>2
    <3> QED BY <3>1
  <2> QED BY <1>1, <2>1, <2>2
<1> QED BY <1>2, <1>3, <1>5 DEF TR!TellsBlocked, Succeeded, c

\* A log of work that has begun, and words that report it done.
LEMMA DoneConcat ==
  ASSUME NEW s \in Seq(Event), TR!Begins(s), Open(s), TR!Said(s, Started),
         NEW a \in Seq(Event), a # <<>>, a[1] = Succeeded,
         \A e \in TR!BlockingEvent : ~TR!Said(a, e),
         TR!Said(a, Pushed) => TR!Said(a, "git_commit_succeeded")
  PROVE  TR!TellsDone(s \o a)
<1> DEFINE c == s \o a
<1>1. /\ Len(s) \in Nat /\ Len(a) \in Nat /\ Len(a) >= 1 /\ DOMAIN s = 1 .. Len(s)
      /\ DOMAIN c = 1 .. Len(s) + Len(a)
      /\ \A i \in 1 .. Len(s) + Len(a) : c[i] = IF i <= Len(s) THEN s[i] ELSE a[i - Len(s)]
  BY ConcatProperties
<1>2. /\ TR!Begins(c) /\ \A e \in TR!BlockingEvent : ~TR!Said(c, e)
      /\ TR!Said(c, Pushed) => TR!Said(c, "git_commit_succeeded")
  BY BeginsConcat, SaidConcat DEF Open
<1> HIDE DEF c
<1>3. PICK i \in 1 .. Len(s) : s[i] = Started
  BY <1>1 DEF TR!Said
<1>4. c[i] = Started /\ c[Len(s) + 1] = Succeeded /\ i < Len(s) + 1
      /\ i \in DOMAIN c /\ Len(s) + 1 \in DOMAIN c
  BY <1>1, <1>3
<1>5. TR!Worked(c)
  BY <1>4 DEF TR!Worked, Started, Succeeded
<1> QED BY <1>2, <1>5 DEF TR!TellsDone, Pushed, c

-----------------------------------------------------------------------------
(* What is drafted.                                                        *)

Early == {"prepare", "validate", "instruct"}

\* What the commit will say, by the status it will set.
Conclusion(d) ==
  /\ d.status \in {"running", "blocked"} \cup Done
  /\ d.status = "running" => ~TR!Said(d.events, Started)
  /\ d.status = "blocked" => TR!TellsBlocked(d.events)
  /\ d.status \in Done => TR!TellsDone(d.events)

DraftFits(q, d) ==
  /\ d.events \in Seq(Event) /\ TR!Begins(d.events)
  /\ q \in Calls => Open(d.events)
  /\ q \in Early => ~TR!Said(d.events, Started)
  /\ q \in Calls \ Early => TR!Said(d.events, Started)
  /\ q = "commit" => Conclusion(d)

Drafted == \A w \in Worker : pc[w] \in Within => DraftFits(pc[w], draft[w])

\* The columns the abstract specification knows, as functions.
Columns ==
  status = [t \in Task |-> status[t]] /\ told = [t \in Task |-> told[t]]

\* What a step does to drafts: that of w, at most, and it fits.
LEMMA DraftedStays ==
  ASSUME Drafted, NEW w \in Worker,
         \A v \in Worker : v # w => pc'[v] = pc[v] /\ draft'[v] = draft[v],
         pc'[w] \in Within => DraftFits(pc'[w], draft'[w])
  PROVE  Drafted'
<1> SUFFICES ASSUME NEW v \in Worker, pc'[v] \in Within PROVE DraftFits(pc'[v], draft'[v])
  BY DEF Drafted, DraftFits, Conclusion, Open, TR!Said, TR!Begins, TR!TellsBlocked,
         TR!TellsDone, TR!Worked
<1>1. CASE v = w
  BY <1>1
<1>2. CASE v # w
  BY <1>2 DEF Drafted
<1> QED BY <1>1, <1>2

LEMMA WriteDrafts ==
  ASSUME IInv, Drafted, NEW w \in Worker, pc[w] \in Calls, NEW s \in Status,
         NEW events \in Seq(Event), NEW next \in Within, Write(w, s, events, next),
         \A e : TR!Said(events, e) => e \notin TR!BlockingEvent \cup {Succeeded, Pushed},
         next \in Calls,
         next \in Early => pc[w] \in Early /\ ~TR!Said(events, Started),
         next \notin Early => pc[w] \notin Early \/ TR!Said(events, Started)
  PROVE  Drafted'
<1> DEFINE log == draft[w].events
           d == [status |-> s, events |-> log \o events]
<1>1. \A v \in Worker : v # w => pc'[v] = pc[v] /\ draft'[v] = draft[v]
  BY DEF Write, Abandon, IInv, TypeOK, Shapes
<1>2. pc'[w] \in Within => pc'[w] = next /\ draft'[w] = d
  BY DEF Write, Abandon, IInv, TypeOK, Shapes, Within, Calls
<1>3. log \in Seq(Event) /\ TR!Begins(log) /\ Open(log)
      /\ (pc[w] \in Early => ~TR!Said(log, Started))
      /\ (pc[w] \notin Early => TR!Said(log, Started))
  BY DEF Drafted, DraftFits, Within
<1> HIDE DEF log
<1>4. d.events = log \o events
  OBVIOUS
<1> HIDE DEF d
<1>5. d.events \in Seq(Event) /\ TR!Begins(d.events)
  BY <1>3, <1>4, BeginsConcat
<1>6. Open(d.events)
  BY <1>3, <1>4, SaidConcat DEF Open
<1>7. next \in Early => ~TR!Said(d.events, Started)
  BY <1>3, <1>4, SaidConcat
<1>8. next \notin Early => TR!Said(d.events, Started)
  BY <1>3, <1>4, SaidConcat
<1>9. next # "commit"
  BY DEF Calls
<1>10. DraftFits(next, d)
  BY <1>5, <1>6, <1>7, <1>8, <1>9 DEF DraftFits
<1> QED BY <1>1, <1>2, <1>10, DraftedStays

LEMMA WriteConcludes ==
  ASSUME IInv, Drafted, NEW w \in Worker, pc[w] \in Calls, NEW s \in Status,
         NEW events \in Seq(Event), events # <<>>, Write(w, s, events, "commit"),
         \/ /\ s = "blocked"
            /\ events[Len(events)] \in TR!BlockingEvent
            /\ \A i \in 1 .. Len(events) - 1 : events[i] \notin TR!BlockingEvent
            /\ ~TR!Said(events, Succeeded)
         \/ /\ s \in Done /\ pc[w] \notin Early
            /\ events[1] = Succeeded
            /\ \A e \in TR!BlockingEvent : ~TR!Said(events, e)
            /\ TR!Said(events, Pushed) => TR!Said(events, "git_commit_succeeded")
  PROVE  Drafted'
<1> DEFINE log == draft[w].events
           d == [status |-> s, events |-> log \o events]
<1>1. \A v \in Worker : v # w => pc'[v] = pc[v] /\ draft'[v] = draft[v]
  BY DEF Write, Abandon, IInv, TypeOK, Shapes
<1>2. pc'[w] \in Within => pc'[w] = "commit" /\ draft'[w] = d
  BY DEF Write, Abandon, IInv, TypeOK, Shapes, Within, Calls
<1>3. log \in Seq(Event) /\ TR!Begins(log) /\ Open(log)
      /\ (pc[w] \notin Early => TR!Said(log, Started))
  BY DEF Drafted, DraftFits, Within
<1> HIDE DEF log
<1>4. d.events = log \o events /\ d.status = s
  OBVIOUS
<1> HIDE DEF d
<1>5. d.events \in Seq(Event) /\ TR!Begins(d.events)
  BY <1>3, <1>4, BeginsConcat
<1>6. s = "blocked" => TR!TellsBlocked(d.events)
  BY <1>3, <1>4, BlockedConcat DEF Done
<1>7. s \in Done => TR!TellsDone(d.events)
  BY <1>3, <1>4, DoneConcat DEF Done
<1>8. s \in {"blocked"} \cup Done /\ s # "running"
  BY DEF Done
<1>9. "commit" \notin Calls
  BY DEF Calls
<1>10. DraftFits("commit", d)
  BY <1>4, <1>5, <1>6, <1>7, <1>8, <1>9 DEF DraftFits, Conclusion, Early, Calls
<1> QED BY <1>1, <1>2, <1>10, DraftedStays

LEMMA CallDrafts ==
  ASSUME IInv, Drafted, NEW w \in Worker,
         \/ PrepareRepository(w) \/ ValidateCompose(w) \/ ReadInstruction(w) \/ Generate(w)
         \/ KeepResponse(w) \/ Settle(w) \/ CommitAndPush(w)
  PROVE  Drafted'
<1>1. /\ Early \subseteq Calls /\ Calls \subseteq Within
      /\ Early = {"prepare", "validate", "instruct"}
      /\ Calls = Early \cup {"generate", "keep", "settle", "push"}
      /\ Within = Calls \cup {"commit"}
      /\ {"running", "blocked", "succeeded", "waiting_approval"} \subseteq Status
      /\ Done = {"succeeded", "waiting_approval"}
  BY DEF Early, Calls, Within, Status, Done
<1>2. ASSUME NEW events \in Seq(Event), NEW next \in Calls, Say(w, events, next), pc[w] \in Calls,
             \A e : TR!Said(events, e) => e \notin TR!BlockingEvent \cup {Succeeded, Pushed},
             next \in Early => pc[w] \in Early /\ ~TR!Said(events, Started),
             next \notin Early => pc[w] \notin Early \/ TR!Said(events, Started)
      PROVE  Drafted'
  BY <1>1, <1>2, WriteDrafts DEF Say
<1>3. ASSUME NEW e \in TR!BlockingEvent, Block(w, <<e>>), pc[w] \in Calls
      PROVE  Drafted'
  <2> DEFINE a == <<e>>
  <2>1. a \in Seq(Event) /\ a # <<>> /\ Len(a) = 1 /\ a[1] = e /\ DOMAIN a = {1}
    BY DEF Event
  <2>2. ~TR!Said(a, Succeeded)
    BY <2>1 DEF TR!Said, TR!BlockingEvent, Succeeded
  <2> HIDE DEF a
  <2>3. Write(w, "blocked", a, "commit")
    BY <1>3 DEF Block, a
  <2> QED BY <1>1, <1>3, <2>1, <2>2, <2>3, WriteConcludes
<1>4. ASSUME NEW s \in Done, NEW events \in Seq(Event), Succeed(w, s, events),
             pc[w] \in {"settle", "push"},
             \A e \in TR!BlockingEvent : ~TR!Said(events, e),
             TR!Said(events, Pushed) => TR!Said(events, "git_commit_succeeded")
      PROVE  Drafted'
  <2> DEFINE b == <<Succeeded>>
             a == b \o events
  <2>1. b \in Seq(Event) /\ Len(b) = 1 /\ b[1] = Succeeded
    BY DEF Event, Succeeded
  <2>2. \A e : TR!Said(b, e) <=> e = Succeeded
    BY <2>1 DEF TR!Said
  <2>3. Succeeded \notin TR!BlockingEvent /\ Succeeded # Pushed
    BY DEF Succeeded, Pushed, TR!BlockingEvent
  <2> HIDE DEF b
  <2>4. a \in Seq(Event) /\ Len(a) >= 1 /\ a[1] = Succeeded
    BY <2>1, FirstConcat
  <2>5. \A e : TR!Said(a, e) <=> e = Succeeded \/ TR!Said(events, e)
    BY <2>1, <2>2, SaidConcat
  <2>6. Write(w, s, a, "commit")
    BY <1>4 DEF Succeed, a, b, Succeeded
  <2> HIDE DEF a
  <2>7. a # <<>>
    BY <2>4
  <2>8. pc[w] \in Calls \ Early /\ s \in Status
    BY <1>1, <1>4
  <2> QED BY <1>4, <2>3, <2>4, <2>5, <2>6, <2>7, <2>8, WriteConcludes
<1>5. ASSUME UNCHANGED draft, NEW next \in Within, pc' = [pc EXCEPT ![w] = next],
             pc[w] \in Calls, next \in Calls \ Early => pc[w] \notin Early,
             next \in Calls \ Early \/ (next = "commit" /\ draft[w].status = "running" /\ pc[w] \in Early)
      PROVE  Drafted'
  <2>1. pc'[w] = next /\ \A v \in Worker : v # w => pc'[v] = pc[v]
    BY <1>5 DEF IInv, TypeOK
  <2>2. DraftFits(pc[w], draft[w])
    BY <1>1, <1>5 DEF Drafted
  <2>3. DraftFits(next, draft[w])
    BY <1>1, <1>5, <2>2 DEF DraftFits, Conclusion, Done
  <2> QED BY <1>5, <2>1, <2>3, DraftedStays
<1>6. \A e : /\ TR!Said(<<>>, e) <=> FALSE
             /\ TR!Said(<<"repository_prepared">>, e) <=> e = "repository_prepared"
             /\ TR!Said(<<"repository_prepared", "phase_flow_initialized">>, e) <=>
                  e \in {"repository_prepared", "phase_flow_initialized"}
             /\ TR!Said(<<"compose_validation_started", "compose_validation_passed",
                          "phase_flow_initialized">>, e) <=>
                  e \in {"compose_validation_started", "compose_validation_passed",
                         "phase_flow_initialized"}
             /\ TR!Said(<<Started>>, e) <=> e = Started
             /\ TR!Said(<<"git_commit_succeeded", "git_push_succeeded">>, e) <=>
                  e \in {"git_commit_succeeded", "git_push_succeeded"}
             /\ TR!Said(<<"phase_edit_no_changes">>, e) <=> e = "phase_edit_no_changes"
  BY DEF TR!Said
<1>7. /\ <<>> \in Seq(Event) /\ <<"repository_prepared">> \in Seq(Event)
      /\ <<"repository_prepared", "phase_flow_initialized">> \in Seq(Event)
      /\ <<"compose_validation_started", "compose_validation_passed",
           "phase_flow_initialized">> \in Seq(Event)
      /\ <<Started>> \in Seq(Event)
      /\ <<"git_commit_succeeded", "git_push_succeeded">> \in Seq(Event)
      /\ <<"phase_edit_no_changes">> \in Seq(Event)
  BY DEF Event, Started
<1>8. {"repository_prepared", "phase_flow_initialized", "compose_validation_started",
       "compose_validation_passed", Started, "git_commit_succeeded", Pushed,
       "phase_edit_no_changes", Succeeded} \cap TR!BlockingEvent = {}
  BY DEF TR!BlockingEvent, Started, Succeeded, Pushed
<1>9. CASE PrepareRepository(w)
  <2>1. CASE Say(w, <<"repository_prepared">>, "validate")
    BY <1>1, <1>2, <1>6, <1>7, <1>8, <1>9, <2>1 DEF PrepareRepository, Started, Succeeded, Pushed
  <2>2. CASE Say(w, <<"repository_prepared", "phase_flow_initialized">>, "instruct")
    BY <1>1, <1>2, <1>6, <1>7, <1>8, <1>9, <2>2 DEF PrepareRepository, Started, Succeeded, Pushed
  <2>3. CASE Block(w, <<"repository_prepare_failed">>)
    BY <1>1, <1>3, <1>9, <2>3 DEF PrepareRepository, TR!BlockingEvent
  <2> QED BY <1>9, <2>1, <2>2, <2>3 DEF PrepareRepository
<1>10. CASE ValidateCompose(w)
  <2>1. CASE Say(w, <<"compose_validation_started", "compose_validation_passed",
                      "phase_flow_initialized">>, "instruct")
    BY <1>1, <1>2, <1>6, <1>7, <1>8, <1>10, <2>1 DEF ValidateCompose, Started, Succeeded, Pushed
  <2>2. CASE Block(w, <<"compose_validation_started", "compose_validation_blocked">>)
    <3> DEFINE a == <<"compose_validation_started", "compose_validation_blocked">>
    <3>1. a \in Seq(Event) /\ a # <<>> /\ Len(a) = 2 /\ DOMAIN a = {1, 2}
          /\ a[1] = "compose_validation_started" /\ a[2] = "compose_validation_blocked"
      BY DEF Event, TR!BlockingEvent
    <3>2. ~TR!Said(a, Succeeded)
      BY <3>1 DEF TR!Said, Succeeded
    <3>3. "compose_validation_started" \notin TR!BlockingEvent
          /\ "compose_validation_blocked" \in TR!BlockingEvent
      BY DEF TR!BlockingEvent
    <3>4. Write(w, "blocked", a, "commit") /\ pc[w] \in Calls
      BY <1>1, <1>10, <2>2 DEF Block, ValidateCompose
    <3> HIDE DEF a
    <3>5. \A i \in 1 .. Len(a) - 1 : a[i] \notin TR!BlockingEvent
      BY <3>1, <3>3
    <3> QED BY <1>1, <3>1, <3>2, <3>3, <3>4, <3>5, WriteConcludes
  <2> QED BY <1>10, <2>1, <2>2 DEF ValidateCompose
<1>11. CASE ReadInstruction(w)
  <2>1. CASE pc' = [pc EXCEPT ![w] = "commit"] /\ UNCHANGED <<owner, depth, job, draft, attempt>>
    BY <1>1, <1>5, <1>11, <2>1 DEF ReadInstruction, IInv, Opened
  <2>2. CASE Say(w, <<"llm_generation_started">>, "generate")
    BY <1>1, <1>2, <1>6, <1>7, <1>8, <1>11, <2>2 DEF ReadInstruction, Started, Succeeded, Pushed
  <2>3. CASE Block(w, <<"invalid_instruction">>)
    BY <1>1, <1>3, <1>11, <2>3 DEF ReadInstruction, TR!BlockingEvent
  <2>4. CASE Block(w, <<"llm_generation_failed">>)
    BY <1>1, <1>3, <1>11, <2>4 DEF ReadInstruction, TR!BlockingEvent
  <2> QED BY <1>11, <2>1, <2>2, <2>3, <2>4 DEF ReadInstruction
<1>12. CASE Generate(w)
  <2>1. CASE pc' = [pc EXCEPT ![w] = "keep"] /\ UNCHANGED <<owner, depth, job, draft, attempt>>
    BY <1>1, <1>5, <1>12, <2>1 DEF Generate
  <2>2. CASE UNCHANGED <<owner, depth, job, draft, pc>>
    BY <2>2 DEF Drafted, DraftFits, Conclusion, Open
  <2>3. CASE Block(w, <<"llm_generation_failed">>)
    BY <1>1, <1>3, <1>12, <2>3 DEF Generate, TR!BlockingEvent
  <2> QED BY <1>12, <2>1, <2>2, <2>3 DEF Generate
<1>13. CASE KeepResponse(w)
  <2>1. CASE Say(w, <<>>, "settle")
    BY <1>1, <1>2, <1>6, <1>7, <1>13, <2>1 DEF KeepResponse, Started, Succeeded, Pushed
  <2>2. CASE pc' = [pc EXCEPT ![w] = "settle"] /\ UNCHANGED <<owner, depth, job, draft, attempt>>
    BY <1>1, <1>5, <1>13, <2>2 DEF KeepResponse
  <2>3. CASE Block(w, <<"llm_generation_failed">>)
    BY <1>1, <1>3, <1>13, <2>3 DEF KeepResponse, TR!BlockingEvent
  <2> QED BY <1>13, <2>1, <2>2, <2>3 DEF KeepResponse
<1>14. CASE Settle(w)
  <2>1. CASE Succeed(w, "succeeded", <<>>)
    BY <1>1, <1>4, <1>6, <1>7, <1>14, <2>1 DEF Settle
  <2>2. CASE Block(w, <<"invalid_repository_context">>)
    BY <1>1, <1>3, <1>14, <2>2 DEF Settle, TR!BlockingEvent
  <2>3. CASE pc' = [pc EXCEPT ![w] = "push"] /\ UNCHANGED <<owner, depth, job, draft, attempt>>
    BY <1>1, <1>5, <1>14, <2>3 DEF Settle
  <2> QED BY <1>14, <2>1, <2>2, <2>3 DEF Settle
<1>15. CASE CommitAndPush(w)
  <2>1. TargetStatus(job[w]) \in Done
    BY DEF TargetStatus, Done
  <2>2. CASE Succeed(w, TargetStatus(job[w]), <<"git_commit_succeeded", "git_push_succeeded">>)
    BY <1>1, <1>4, <1>6, <1>7, <1>8, <1>15, <2>1, <2>2 DEF CommitAndPush, Pushed
  <2>3. CASE Succeed(w, TargetStatus(job[w]), <<"phase_edit_no_changes">>)
    BY <1>1, <1>4, <1>6, <1>7, <1>8, <1>15, <2>1, <2>3 DEF CommitAndPush, Pushed
  <2>4. CASE \E e \in PushFailure : Block(w, <<e>>)
    <3>1. PushFailure \subseteq TR!BlockingEvent
      BY WorkerCycleAssumption DEF TR!BlockingEvent
    <3> QED BY <1>1, <1>3, <1>15, <2>4, <3>1 DEF CommitAndPush
  <2> QED BY <1>15, <2>2, <2>3, <2>4 DEF CommitAndPush
<1> QED BY <1>9, <1>10, <1>11, <1>12, <1>13, <1>14, <1>15

-----------------------------------------------------------------------------
(* The table.                                                              *)

LEMMA LeaseDrafts ==
  ASSUME IInv, Drafted, NEW w \in Worker, LeaseNext(w) PROVE Drafted'
<1>1. /\ "wait" \notin Within /\ "commit" \notin Calls /\ {"prepare", "instruct"} \subseteq Early
      /\ Early \subseteq Calls
  BY DEF Within, Calls, Early
<1>2. CASE pc' = [pc EXCEPT ![w] = "wait"] /\ UNCHANGED draft
  <2>1. pc'[w] = "wait" /\ \A v \in Worker : v # w => pc'[v] = pc[v]
    BY <1>2 DEF IInv, TypeOK
  <2> QED BY <1>1, <1>2, <2>1, DraftedStays
<1>3. ASSUME NEW q \in {"prepare", "instruct", "commit"}, pc' = [pc EXCEPT ![w] = q],
             NEW d, draft' = [draft EXCEPT ![w] = d], DraftFits(q, d)
      PROVE  Drafted'
  <2>1. pc'[w] = q /\ draft'[w] = d
        /\ \A v \in Worker : v # w => pc'[v] = pc[v] /\ draft'[v] = draft[v]
    BY <1>3 DEF IInv, TypeOK, Shapes
  <2> QED BY <1>3, <2>1, DraftedStays
<1> DEFINE begun == <<"task_started">>
           ended == <<"task_started", "invalid_workspace_path">>
<1>4. DraftFits("commit", [status |-> "blocked", events |-> ended])
  <2>1. ended \in Seq(Event) /\ Len(ended) = 2 /\ DOMAIN ended = {1, 2}
        /\ ended[1] = "task_started" /\ ended[2] = "invalid_workspace_path" /\ ended # <<>>
        /\ Head(ended) = "task_started"
    BY DEF Event, TR!BlockingEvent
  <2>2. "task_started" \notin TR!BlockingEvent /\ "invalid_workspace_path" \in TR!BlockingEvent
    BY DEF TR!BlockingEvent
  <2> HIDE DEF ended
  <2>3. TR!Begins(ended) /\ TR!TellsBlocked(ended)
    BY <2>1, <2>2 DEF TR!Begins, TR!TellsBlocked, TR!Said
  <2> QED BY <1>1, <2>1, <2>3 DEF DraftFits, Conclusion, Done, Early, Calls
<1>5. \A q \in {"prepare", "instruct"} :
        DraftFits(q, [status |-> "running", events |-> begun])
  <2>1. begun \in Seq(Event) /\ DOMAIN begun = {1} /\ begun[1] = "task_started"
        /\ begun # <<>> /\ Head(begun) = "task_started"
    BY DEF Event
  <2> HIDE DEF begun
  <2>2. \A e : TR!Said(begun, e) <=> e = "task_started"
    BY <2>1 DEF TR!Said
  <2>3. Open(begun) /\ TR!Begins(begun) /\ ~TR!Said(begun, Started)
    BY <2>1, <2>2 DEF Open, TR!Begins, TR!BlockingEvent, Started, Succeeded, Pushed
  <2> QED BY <1>1, <2>1, <2>3 DEF DraftFits
<1>6. \A t : FirstCall(t) \in {"prepare", "instruct"}
  BY DEF FirstCall
<1> QED BY <1>2, <1>3, <1>4, <1>5, <1>6 DEF LeaseNext

LEMMA DraftedNext ==
  IInv /\ Drafted /\ [Next]_vars => Drafted'
<1> SUFFICES ASSUME IInv, Drafted, [Next]_vars PROVE Drafted'
  OBVIOUS
<1> USE DEF table, local, past
<1>1. "wait" \notin Within /\ "ensure" \notin Within /\ "stopped" \notin Within
      /\ "recover" \notin Within /\ "lease" \notin Within
  BY DEF Within, Calls
<1>2. ASSUME NEW w \in Worker, NEW q, q \notin Within, pc' = [pc EXCEPT ![w] = q],
             draft' = draft \/ draft' = [draft EXCEPT ![w] = NoDraft]
      PROVE  Drafted'
  <2>1. pc'[w] = q /\ \A v \in Worker : v # w => pc'[v] = pc[v] /\ draft'[v] = draft[v]
    BY <1>2 DEF IInv, TypeOK, Shapes
  <2> QED BY <1>2, <2>1, DraftedStays
<1>3. ASSUME pc' = pc, draft' = draft PROVE Drafted'
  BY <1>3 DEF Drafted, DraftFits, Conclusion, Open
<1>4. CASE \E w \in Worker : EnsureConnection(w) \/ RecoverExpired(w) \/ Wait(w)
  BY <1>1, <1>2, <1>4 DEF EnsureConnection, RecoverExpired, Wait
<1>5. CASE \E w \in Worker : Commit(w) \/ CommitUnanswered(w) \/ Crash(w) \/ Raise(w)
  BY <1>1, <1>2, <1>5 DEF Commit, CommitUnanswered, Crash, Raise, LeftBlock, Abandon
<1>6. CASE \/ \E w \in Worker : LoseConnection(w) \/ Signal(w)
           \/ ServerStops \/ ServerStarts \/ DropGhosts
           \/ \E t \in Task : ExpireLease(t)
           \/ UNCHANGED vars
  BY <1>3, <1>6 DEF LoseConnection, Signal, ServerStops, ServerStarts, DropGhosts,
                    ExpireLease, vars
<1> QED BY <1>4, <1>5, <1>6, CallDrafts, LeaseDrafts DEF Next, Step

-----------------------------------------------------------------------------
(* The refinement.                                                         *)

LEMMA ColumnsHold == Spec => [](IInv /\ Drafted /\ Columns)
<1>1. Init => Drafted /\ Columns
  BY DEF Init, Drafted, Columns, Within, Calls
<1>2. Columns /\ [Next]_vars => Columns'
  <2> SUFFICES ASSUME Columns, [Next]_vars PROVE Columns'
    OBVIOUS
  <2>1. CASE UNCHANGED <<status, told>>
    BY <2>1 DEF Columns
  <2>2. ASSUME NEW w \in Worker, RecoverExpired(w) PROVE Columns'
    BY <2>2 DEF RecoverExpired, Columns
  <2>3. ASSUME NEW w \in Worker, Committed(w) PROVE Columns'
    BY <2>3 DEF Committed, Columns
  <2> QED BY <2>1, <2>2, <2>3
       DEF Next, Step, table, local, past, vars, EnsureConnection, LeaseNext, Inside,
           PrepareRepository, ValidateCompose, ReadInstruction, Generate, KeepResponse,
           Settle, CommitAndPush, Commit, Wait, CommitUnanswered, Signal, LoseConnection,
           Raise, Crash, ServerStops, ServerStarts, DropGhosts, ExpireLease
<1>3. Init => IInv
  BY InitHolds
<1> QED BY <1>1, <1>2, <1>3, NextHolds, DraftedNext, PTL DEF Spec

LEMMA CommittedDecides ==
  ASSUME IInv, Drafted, Columns, NEW w \in Worker, pc[w] = "commit", conn[w] = "up", Committed(w)
  PROVE  TR!Decide(job[w]) \/ TR!LeaveRunning(job[w])
<1> DEFINE t == job[w]
           d == draft[w]
<1>1. t \in Task /\ status[t] = "queued"
  BY DEF IInv, Opened, Locked, Within
<1>2. DraftFits("commit", d)
  BY DEF Drafted, Within
<1>3. /\ status' = [status EXCEPT ![t] = d.status] /\ told' = [told EXCEPT ![t] = d.events]
      /\ status'[t] = d.status /\ told'[t] = d.events
  BY <1>1 DEF Committed, Columns
<1> HIDE DEF t, d
<1>4. TR!Begins(d.events) /\ Conclusion(d)
  BY <1>2 DEF DraftFits
<1>5. CASE d.status = "running"
  BY <1>1, <1>3, <1>4, <1>5 DEF TR!LeaveRunning, Conclusion, Started, t
<1>6. CASE d.status = "blocked"
  BY <1>1, <1>3, <1>4, <1>6 DEF TR!Decide, Conclusion, t
<1>7. CASE d.status \in Done
  BY <1>1, <1>3, <1>4, <1>7 DEF TR!Decide, Conclusion, Done, t
<1> QED BY <1>4, <1>5, <1>6, <1>7 DEF Conclusion

LEMMA RecoveryRequeues ==
  ASSUME IInv, Columns, NEW w \in Worker, RecoverExpired(w)
  PROVE  UNCHANGED <<status, told>> \/ \E T \in SUBSET Task : T # {} /\ TR!Requeue(T)
<1> DEFINE found == {t \in expired : owner[t] = Nobody}
<1>1. found \in SUBSET Task /\ \A t \in found : status[t] = "running"
  BY DEF IInv, TypeOK, Shapes
<1>2. CASE conn[w] = "up"
  <2>1. TR!Requeue(found)
    BY <1>1, <1>2 DEF RecoverExpired, TR!Requeue
  <2>2. CASE found # {}
    BY <1>1, <2>1, <2>2
  <2>3. CASE found = {}
    BY <1>2, <2>3 DEF RecoverExpired, Columns
  <2> QED BY <2>2, <2>3
<1>3. CASE conn[w] # "up"
  BY <1>3 DEF RecoverExpired
<1> QED BY <1>2, <1>3

(***************************************************************************)
(* Every commit of a worker process decides a queued row, with the logs    *)
(* that say how, or leaves it running with nothing begun; nothing else     *)
(* touches a row but recovery.  process_next_queued_task as one step.      *)
(***************************************************************************)
THEOREM WorkersImplementTaskRun == Spec => ImplementsTaskRun
<1>1. Init => TR!Init
  BY DEF Init, TR!Init
<1>2. IInv /\ Drafted /\ Columns /\ [Next]_vars => [TR!Next]_<<status, told>>
  <2> SUFFICES ASSUME IInv, Drafted, Columns, [Next]_vars
               PROVE  TR!Next \/ UNCHANGED <<status, told>>
    OBVIOUS
  <2>1. ASSUME NEW w \in Worker, Commit(w) \/ CommitUnanswered(w)
        PROVE  TR!Next \/ UNCHANGED <<status, told>>
    <3>1. pc[w] = "commit" /\ job[w] \in Task
      BY <2>1 DEF Commit, CommitUnanswered, IInv, Opened, Within
    <3>2. CASE conn[w] = "up" /\ Committed(w)
      BY <3>1, <3>2, CommittedDecides DEF TR!Next
    <3>3. CASE UNCHANGED table
      BY <3>3 DEF table
    <3> QED BY <2>1, <3>2, <3>3 DEF Commit, CommitUnanswered
  <2>2. ASSUME NEW w \in Worker, RecoverExpired(w)
        PROVE  TR!Next \/ UNCHANGED <<status, told>>
    BY <2>2, RecoveryRequeues DEF TR!Next
  <2> QED BY <2>1, <2>2
       DEF Next, Step, table, local, past, vars, EnsureConnection, LeaseNext, Inside,
           PrepareRepository, ValidateCompose, ReadInstruction, Generate, KeepResponse,
           Settle, CommitAndPush, Wait, Signal, LoseConnection,
           Raise, Crash, ServerStops, ServerStarts, DropGhosts, ExpireLease
<1> QED BY <1>1, <1>2, ColumnsHold, PTL DEF Spec, ImplementsTaskRun, TR!Spec
=============================================================================
