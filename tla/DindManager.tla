---------------------------- MODULE DindManager ----------------------------
(***************************************************************************)
(* start and cleanup of the Docker-in-Docker container of a task           *)
(* (src/src/backend/dind_manager.py), with a docker command failing or the *)
(* worker stopping at any step.  Container and network are named after the *)
(* task, so that calls for one task meet; ports come from an allocator.    *)
(***************************************************************************)
EXTENDS Integers, FiniteSets

CONSTANTS
  Caller,         \* workers that start containers
  Task,
  Port,           \* the ports of the allocator
  PortCount,      \* proxy_port_count
  MaxAttempts,    \* max_readiness_attempts
  Nobody          \* creator of what does not exist

ASSUME DindManagerAssumption ==
  /\ Nobody \notin Caller
  /\ PortCount \in Nat
  /\ MaxAttempts \in Nat \ {0}

VARIABLES
  network,        \* who created the network of each task
  container,      \* who created its container, how far that got, and its -p ports
  reserved,       \* the caller each port is reserved for
  call,           \* each caller's task and the ports of its spec
  made,           \* the flags network_created and container_started that are set
  attempt,        \* attempts of _wait_for_dockerd that failed
  pc,             \* where each caller is
  leaky           \* callers that had a removal fail, a container half made, or were stopped

vars == <<network, container, reserved, call, made, attempt, pc, leaky>>

NoContainer == [by |-> Nobody, state |-> "none", ports |-> {}]

\* The arguments of start, and the spec built for them.
NewCall(t, ports) == [task |-> t, ports |-> ports]

Free == {p \in Port : reserved[p] = Nobody}

Init ==
  /\ network = [t \in Task |-> Nobody]
  /\ container = [t \in Task |-> NoContainer]
  /\ reserved = [p \in Port |-> Nobody]
  /\ call \in [Caller -> {NewCall(t, {}) : t \in Task}]
  /\ made = [c \in Caller |-> {}]
  /\ attempt = [c \in Caller |-> 0]
  /\ pc = [c \in Caller |-> "idle"]
  /\ leaky = {}

Goto(c, step) == pc' = [pc EXCEPT ![c] = step]

\* What the allocator gives back.
Release(c) ==
  reserved' = [p \in Port |-> IF p \in call[c].ports THEN Nobody ELSE reserved[p]]

-----------------------------------------------------------------------------
(* start                                                                   *)

\* build_runtime_spec; the allocator may have fewer ports than asked for.
ReservePorts(c, t, ports) ==
  /\ pc[c] = "idle"
  /\ ports \subseteq Free /\ Cardinality(ports) =< PortCount
  /\ reserved' = [p \in Port |-> IF p \in ports THEN c ELSE reserved[p]]
  /\ call' = [call EXCEPT ![c] = NewCall(t, ports)]
  /\ made' = [made EXCEPT ![c] = {}]
  /\ attempt' = [attempt EXCEPT ![c] = 0]
  /\ Goto(c, IF Cardinality(ports) = PortCount THEN "network" ELSE "short")
  /\ UNCHANGED <<network, container, leaky>>

\* proxy port allocation failed
ReleaseShort(c) ==
  /\ pc[c] = "short"
  /\ Release(c)
  /\ Goto(c, "idle")
  /\ UNCHANGED <<network, container, call, made, attempt, leaky>>

\* docker network create
CreateNetwork(c) ==
  LET t == call[c].task
  IN  /\ pc[c] = "network"
      /\ network[t] = Nobody
      /\ network' = [network EXCEPT ![t] = c]
      /\ made' = [made EXCEPT ![c] = @ \cup {"network"}]
      /\ Goto(c, "run")
      /\ UNCHANGED <<container, reserved, call, attempt, leaky>>

Bound == UNION {container[t].ports : t \in {u \in Task : container[u].state = "running"}}

\* docker run -d: the name and the ports must be free.
RunContainer(c) ==
  LET t == call[c].task
  IN  /\ pc[c] = "run"
      /\ container[t].state = "none"
      /\ network[t] # Nobody
      /\ call[c].ports \cap Bound = {}
      /\ container' = [container EXCEPT ![t] =
                         [by |-> c, state |-> "running", ports |-> call[c].ports]]
      /\ made' = [made EXCEPT ![c] = @ \cup {"container"}]
      /\ Goto(c, "wait")
      /\ UNCHANGED <<network, reserved, call, attempt, leaky>>

(***************************************************************************)
(* docker run failed.  When docker could create the container and not      *)
(* start it, the container is there, and container_started is not set.     *)
(***************************************************************************)
RunHalfWay(c) ==
  LET t == call[c].task
  IN  /\ pc[c] = "run"
      /\ container[t].state = "none"
      /\ container' = [container EXCEPT ![t] =
                         [by |-> c, state |-> "created", ports |-> call[c].ports]]
      /\ leaky' = leaky \cup {c}
      /\ Goto(c, "removeContainer")
      /\ UNCHANGED <<network, reserved, call, made, attempt>>

\* _wait_for_dockerd
Probe(c) ==
  /\ pc[c] = "wait"
  /\ \/ Goto(c, "up") /\ UNCHANGED attempt
     \/ /\ attempt[c] + 1 < MaxAttempts
        /\ attempt' = [attempt EXCEPT ![c] = @ + 1]
        /\ UNCHANGED pc
     \/ /\ attempt[c] + 1 = MaxAttempts
        /\ Goto(c, "removeContainer")
        /\ UNCHANGED attempt
  /\ UNCHANGED <<network, container, reserved, call, made, leaky>>

\* Slip: the ports are released when the container is to be removed.
FailAndRelease(c) ==
  /\ pc[c] \in {"network", "run", "wait", "up"}
  /\ Goto(c, "removeContainer")
  /\ Release(c)
  /\ UNCHANGED <<network, container, call, made, attempt, leaky>>

\* Any other exception in the try block; and the caller's cleanup at the end.
Fail(c) ==
  /\ pc[c] \in {"network", "run", "wait", "up"}
  /\ Goto(c, "removeContainer")
  /\ UNCHANGED <<network, container, reserved, call, made, attempt, leaky>>

-----------------------------------------------------------------------------
(* cleanup: each command is tried whatever became of the one before.       *)

\* Slip: the flags start passes are not looked at.
RemoveAnyContainer(c) ==
  LET t == call[c].task
  IN  /\ pc[c] = "removeContainer"
      /\ container' = [container EXCEPT ![t] = NoContainer]
      /\ Goto(c, "removeNetwork")
      /\ UNCHANGED <<network, reserved, call, made, attempt, leaky>>

\* docker compose down inside, and docker rm -f.
RemoveContainer(c) ==
  LET t == call[c].task
  IN  /\ pc[c] = "removeContainer"
      /\ \/ "container" \notin made[c] /\ UNCHANGED <<container, leaky>>
         \/ /\ "container" \in made[c]
            /\ container' = [container EXCEPT ![t] = NoContainer]
            /\ UNCHANGED leaky
         \/ /\ "container" \in made[c]
            /\ leaky' = leaky \cup {c}
            /\ UNCHANGED container
      /\ Goto(c, "removeNetwork")
      /\ UNCHANGED <<network, reserved, call, made, attempt>>

\* Slip: the network is removed with the container or not at all.
RemoveNetworkWithContainer(c) ==
  LET t == call[c].task
  IN  /\ pc[c] = "removeNetwork"
      /\ network' = IF "container" \in made[c] /\ container[t].state # "running"
                    THEN [network EXCEPT ![t] = Nobody] ELSE network
      /\ Goto(c, "release")
      /\ UNCHANGED <<container, reserved, call, made, attempt, leaky>>

\* docker network rm: not while a running container is attached.
RemoveNetwork(c) ==
  LET t == call[c].task
  IN  /\ pc[c] = "removeNetwork"
      /\ \/ "network" \notin made[c] /\ UNCHANGED <<network, leaky>>
         \/ /\ "network" \in made[c]
            /\ container[t].state # "running"
            /\ network' = [network EXCEPT ![t] = Nobody]
            /\ UNCHANGED leaky
         \/ /\ "network" \in made[c]
            /\ leaky' = leaky \cup {c}
            /\ UNCHANGED network
      /\ Goto(c, "release")
      /\ UNCHANGED <<container, reserved, call, made, attempt>>

\* release_ports, tried after failed removals too.
ReleasePorts(c) ==
  /\ pc[c] = "release"
  /\ Release(c)
  /\ Goto(c, "idle")
  /\ UNCHANGED <<network, container, call, made, attempt, leaky>>

-----------------------------------------------------------------------------
\* The worker stops, or log_callback raises outside of the try block.
Crash(c) ==
  /\ pc[c] # "idle"
  /\ leaky' = leaky \cup {c}
  /\ Goto(c, "idle")
  /\ UNCHANGED <<network, container, reserved, call, made, attempt>>

Next ==
  \E c \in Caller :
    \/ \E t \in Task, ports \in SUBSET Port : ReservePorts(c, t, ports)
    \/ ReleaseShort(c) \/ CreateNetwork(c) \/ RunContainer(c) \/ RunHalfWay(c)
    \/ Probe(c) \/ Fail(c)
    \/ RemoveContainer(c) \/ RemoveNetwork(c) \/ ReleasePorts(c)
    \/ Crash(c)

Spec == Init /\ [][Next]_vars

-----------------------------------------------------------------------------
(* Properties.                                                             *)

TypeOK ==
  /\ network \in [Task -> Caller \cup {Nobody}]
  /\ container \in [Task -> [by : Caller \cup {Nobody},
                             state : {"none", "created", "running"},
                             ports : SUBSET Port]]
  /\ reserved \in [Port -> Caller \cup {Nobody}]
  /\ call \in [Caller -> [task : Task, ports : SUBSET Port]]
  /\ made \in [Caller -> SUBSET {"network", "container"}]
  /\ attempt \in [Caller -> 0 .. MaxAttempts - 1]
  /\ pc \in [Caller -> {"idle", "short", "network", "run", "wait", "up",
                        "removeContainer", "removeNetwork", "release"}]
  /\ leaky \subseteq Caller

(***************************************************************************)
(* A call that ended, well or not, leaves no container, no network and no  *)
(* reserved port behind.  What it may leave is what a failed removal, a    *)
(* container docker made and did not start, or a crash left it: nothing in *)
(* the program looks for those again.                                      *)
(***************************************************************************)
NothingLeftBehind ==
  \A c \in Caller : pc[c] = "idle" /\ c \notin leaky =>
    /\ \A t \in Task : network[t] # c /\ container[t].by # c
    /\ \A p \in Port : reserved[p] # c

\* What a step does to a container or network that exists: nothing, unless its
\* creator is removing it.
ContainerStays(t) ==
  container[t].by # Nobody /\ container'[t].by # container[t].by =>
    pc[container[t].by] = "removeContainer" /\ container'[t] = NoContainer

NetworkStays(t) ==
  network[t] # Nobody /\ network'[t] # network[t] =>
    pc[network[t]] = "removeNetwork" /\ network'[t] = Nobody

(***************************************************************************)
(* A failing or late call for a task does not take down what another call  *)
(* for the task has made: names are the same for both, and only the two    *)
(* flags tell cleanup what is its own.                                     *)
(***************************************************************************)
OnlyOwnRemoved ==
  [][\A t \in Task : ContainerStays(t) /\ NetworkStays(t)]_vars

(***************************************************************************)
(* A port bound by a running container stays reserved for its caller, so   *)
(* that no other task is given it, unless the removal of that container    *)
(* failed (the ports are released then all the same).                      *)
(***************************************************************************)
BoundPortsReserved ==
  \A t \in Task : container[t].state = "running" =>
    \/ container[t].by \in leaky
    \/ \A p \in container[t].ports : reserved[p] = container[t].by
=============================================================================
