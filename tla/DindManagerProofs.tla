------------------------- MODULE DindManagerProofs -------------------------
(***************************************************************************)
(* Proofs about DindManager, for any callers, tasks, ports and numbers of  *)
(* ports and probes.                                                       *)
(***************************************************************************)
EXTENDS DindManager, TLAPS

-----------------------------------------------------------------------------
(* The invariant.                                                          *)

\* A container has a creator as long as it is there.
Made ==
  \A t \in Task : container[t].by = Nobody <=> container[t].state = "none"

\* A flag of start stands for what the caller made and did not remove yet.
Flags ==
  \A c \in Caller :
    /\ pc[c] \notin {"idle", "removeNetwork", "release"} /\ "container" \in made[c] =>
         container[call[c].task].by = c
    /\ pc[c] \notin {"idle", "release"} /\ "network" \in made[c] =>
         network[call[c].task] = c

\* Whatever is there of a caller that nothing went wrong for, its call knows of.
Known ==
  \A c \in Caller \ leaky, t \in Task :
    /\ container[t].by = c =>
         /\ call[c].task = t /\ "container" \in made[c]
         /\ container[t].ports = call[c].ports
         /\ pc[c] \in {"wait", "up", "removeContainer"}
    /\ network[t] = c =>
         /\ call[c].task = t /\ "network" \in made[c]
         /\ pc[c] \in {"run", "wait", "up", "removeContainer", "removeNetwork"}

\* The ports of a call are reserved for it, and no others are.
Held ==
  \A c \in Caller, p \in Port :
    /\ pc[c] # "idle" /\ p \in call[c].ports => reserved[p] = c
    /\ reserved[p] = c /\ c \notin leaky => pc[c] # "idle" /\ p \in call[c].ports

IInv == TypeOK /\ Made /\ Flags /\ Known /\ Held

LEMMA InitHolds == Init => IInv
<1> SUFFICES ASSUME Init PROVE IInv
  OBVIOUS
<1> USE DindManagerAssumption DEF Init
<1>1. \A c \in Caller : \E t \in Task : call[c] = NewCall(t, {})
  OBVIOUS
<1>2. call \in [Caller -> [task : Task, ports : SUBSET Port]]
  BY <1>1 DEF NewCall
<1>3. TypeOK
  BY <1>2 DEF TypeOK, NoContainer
<1>4. Made /\ Flags /\ Known /\ Held
  BY <1>1 DEF Made, Flags, Known, Held, NewCall, NoContainer
<1> QED BY <1>3, <1>4 DEF IInv

-----------------------------------------------------------------------------
(* Reserving and releasing ports.                                          *)

LEMMA ReservePortsHolds ==
  ASSUME IInv, NEW c \in Caller, NEW t \in Task, NEW ports \in SUBSET Port,
         ReservePorts(c, t, ports)
  PROVE  IInv'
<1> USE DindManagerAssumption DEF ReservePorts, Goto, NewCall
<1>1. TypeOK'
  BY DEF IInv, TypeOK
<1>2. Made'
  BY DEF IInv, Made
<1>3. Flags' /\ Known'
  BY DEF IInv, Flags, Known, TypeOK
<1>4. Held'
  BY DEF IInv, Held, TypeOK, Free
<1> QED BY <1>1, <1>2, <1>3, <1>4 DEF IInv

\* The allocator takes back the ports of the call, which are nobody else's.
LEMMA ReleaseHolds ==
  ASSUME IInv, NEW c \in Caller, pc[c] \in {"short", "release"}, Release(c), Goto(c, "idle"),
         UNCHANGED <<network, container, call, made, attempt, leaky>>
  PROVE  IInv'
<1> USE DindManagerAssumption DEF Release, Goto
<1>1. TypeOK'
  BY DEF IInv, TypeOK
<1>2. Made' /\ Flags' /\ Known'
  BY DEF IInv, Made, Flags, Known, TypeOK
<1>3. Held'
  BY DEF IInv, Held, TypeOK
<1> QED BY <1>1, <1>2, <1>3 DEF IInv

-----------------------------------------------------------------------------
(* The commands.                                                           *)

LEMMA CreateNetworkHolds ==
  ASSUME IInv, NEW c \in Caller, CreateNetwork(c)
  PROVE  IInv'
<1> USE DindManagerAssumption DEF CreateNetwork, Goto
<1>1. TypeOK'
  BY DEF IInv, TypeOK
<1>2. Made' /\ Flags'
  BY DEF IInv, Made, Flags, TypeOK
<1>3. Known'
  BY DEF IInv, Known, TypeOK
<1>4. Held'
  BY DEF IInv, Held, TypeOK
<1> QED BY <1>1, <1>2, <1>3, <1>4 DEF IInv

LEMMA RunContainerHolds ==
  ASSUME IInv, NEW c \in Caller, RunContainer(c)
  PROVE  IInv'
<1> USE DindManagerAssumption DEF RunContainer, Goto
<1>1. TypeOK'
  BY DEF IInv, TypeOK
<1>2. Made' /\ Flags'
  BY DEF IInv, Made, Flags, TypeOK
<1>3. Known'
  BY DEF IInv, Known, TypeOK
<1>4. Held'
  BY DEF IInv, Held, TypeOK
<1> QED BY <1>1, <1>2, <1>3, <1>4 DEF IInv

LEMMA RunHalfWayHolds ==
  ASSUME IInv, NEW c \in Caller, RunHalfWay(c)
  PROVE  IInv'
<1> USE DindManagerAssumption DEF RunHalfWay, Goto
<1>1. TypeOK'
  BY DEF IInv, TypeOK
<1>2. Made' /\ Flags'
  BY DEF IInv, Made, Flags, TypeOK
<1>3. Known' /\ Held'
  BY DEF IInv, Known, Held, TypeOK
<1> QED BY <1>1, <1>2, <1>3 DEF IInv

LEMMA ProbeHolds ==
  ASSUME IInv, NEW c \in Caller, Probe(c)
  PROVE  IInv'
<1> USE DindManagerAssumption DEF Probe, Goto
<1>1. attempt[c] \in Nat /\ attempt[c] + 1 < MaxAttempts =>
        attempt[c] + 1 \in 0 .. MaxAttempts - 1
  OBVIOUS
<1>2. attempt' \in [Caller -> 0 .. MaxAttempts - 1]
  BY <1>1 DEF IInv, TypeOK
<1>3. TypeOK'
  BY <1>2 DEF IInv, TypeOK
<1>4. Made' /\ Flags' /\ Known' /\ Held'
  BY DEF IInv, Made, Flags, Known, Held, TypeOK
<1> QED BY <1>3, <1>4 DEF IInv

LEMMA FailHolds ==
  ASSUME IInv, NEW c \in Caller, Fail(c) \/ Crash(c)
  PROVE  IInv'
<1> USE DindManagerAssumption DEF Fail, Crash, Goto
<1>1. TypeOK'
  BY DEF IInv, TypeOK
<1>2. Made'
  BY DEF IInv, Made
<1>3. Flags'
  BY DEF IInv, Flags, TypeOK
<1>4. Known'
  BY DEF IInv, Known, TypeOK
<1>5. Held'
  BY DEF IInv, Held, TypeOK
<1> QED BY <1>1, <1>2, <1>3, <1>4, <1>5 DEF IInv

LEMMA RemoveContainerHolds ==
  ASSUME IInv, NEW c \in Caller, RemoveContainer(c)
  PROVE  IInv'
<1> USE DindManagerAssumption DEF RemoveContainer, Goto, NoContainer
<1>1. container' \in [Task -> [by : Caller \cup {Nobody},
                             state : {"none", "created", "running"},
                             ports : SUBSET Port]]
  BY DEF IInv, TypeOK
<1>2. TypeOK'
  BY <1>1 DEF IInv, TypeOK
<1>3. Made'
  BY DEF IInv, TypeOK, Made
<1>4. Flags'
  BY DEF IInv, Flags, TypeOK
<1>5. Known'
  BY DEF IInv, Known, TypeOK
<1>6. Held'
  BY DEF IInv, Held, TypeOK
<1> QED BY <1>2, <1>3, <1>4, <1>5, <1>6 DEF IInv

LEMMA RemoveNetworkHolds ==
  ASSUME IInv, NEW c \in Caller, RemoveNetwork(c)
  PROVE  IInv'
<1> USE DindManagerAssumption DEF RemoveNetwork, Goto
<1>1. TypeOK' /\ Made'
  BY DEF IInv, TypeOK, Made
<1>2. Flags'
  BY DEF IInv, Flags, TypeOK
<1>3. Known'
  BY DEF IInv, Known, TypeOK
<1>4. Held'
  BY DEF IInv, Held, TypeOK
<1> QED BY <1>1, <1>2, <1>3, <1>4 DEF IInv

LEMMA NextHolds == IInv /\ [Next]_vars => IInv'
<1> SUFFICES ASSUME IInv, [Next]_vars PROVE IInv'
  OBVIOUS
<1>1. CASE UNCHANGED vars
  BY <1>1 DEF vars, IInv, TypeOK, Made, Flags, Known, Held
<1>2. ASSUME NEW c \in Caller, ReleaseShort(c) \/ ReleasePorts(c) PROVE IInv'
  BY <1>2, ReleaseHolds DEF ReleaseShort, ReleasePorts
<1> QED BY <1>1, <1>2, ReservePortsHolds, CreateNetworkHolds, RunContainerHolds,
           RunHalfWayHolds, ProbeHolds, FailHolds, RemoveContainerHolds, RemoveNetworkHolds
        DEF Next

LEMMA IInvHolds == Spec => []IInv
  BY InitHolds, NextHolds, PTL DEF Spec

-----------------------------------------------------------------------------
(* The theorems.                                                           *)

(***************************************************************************)
(* Types; the readiness loop of _wait_for_dockerd stays within its bound.  *)
(***************************************************************************)
THEOREM DindTypeCorrect == Spec => []TypeOK
<1>1. IInv => TypeOK
  BY DEF IInv
<1> QED BY <1>1, IInvHolds, PTL

(***************************************************************************)
(* A call that ended without a failed removal, a half-made container or a  *)
(* crash has left no container, network or port.  start and cleanup.       *)
(***************************************************************************)
THEOREM CallsLeaveNothing == Spec => []NothingLeftBehind
<1>1. IInv => NothingLeftBehind
  BY DEF IInv, Known, Held, NothingLeftBehind
<1> QED BY <1>1, IInvHolds, PTL

(***************************************************************************)
(* Ports are given back after the container that binds them is gone.       *)
(* cleanup releases them last.                                             *)
(***************************************************************************)
THEOREM PortsOutliveContainers == Spec => []BoundPortsReserved
<1>1. ASSUME IInv, NEW t \in Task, container[t].state = "running", container[t].by \notin leaky
      PROVE  \A p \in container[t].ports : reserved[p] = container[t].by
  <2>1. container[t].by \in Caller
    BY <1>1 DEF IInv, TypeOK, Made
  <2>2. /\ pc[container[t].by] # "idle"
        /\ container[t].ports = call[container[t].by].ports
        /\ container[t].ports \subseteq Port
    BY <1>1, <2>1 DEF IInv, Known, TypeOK
  <2> QED BY <1>1, <2>1, <2>2 DEF IInv, Held
<1>2. IInv => BoundPortsReserved
  BY <1>1 DEF BoundPortsReserved
<1> QED BY <1>2, IInvHolds, PTL

(***************************************************************************)
(* Calls for one task share names, and never remove what another made.     *)
(* The flags network_created and container_started of start.               *)
(***************************************************************************)
THEOREM CallsRemoveTheirOwn == Spec => OnlyOwnRemoved
<1>1. ASSUME IInv, [Next]_vars PROVE [\A t \in Task : ContainerStays(t) /\ NetworkStays(t)]_vars
  <2> SUFFICES ASSUME NEW c \in Caller, NEW t \in Task,
                      \/ \E u \in Task, ports \in SUBSET Port : ReservePorts(c, u, ports)
                      \/ ReleaseShort(c) \/ CreateNetwork(c) \/ RunContainer(c)
                      \/ RunHalfWay(c) \/ Probe(c) \/ Fail(c) \/ RemoveContainer(c)
                      \/ RemoveNetwork(c) \/ ReleasePorts(c) \/ Crash(c)
               PROVE  ContainerStays(t) /\ NetworkStays(t)
    BY <1>1 DEF Next
  <2> USE DEF ContainerStays, NetworkStays
  <2>1. CASE CreateNetwork(c)
    BY <1>1, <2>1 DEF CreateNetwork, IInv, TypeOK
  <2>2. CASE RunContainer(c) \/ RunHalfWay(c)
    BY <1>1, <2>2 DEF RunContainer, RunHalfWay, IInv, TypeOK, Made
  <2>3. CASE RemoveContainer(c)
    BY <1>1, <2>3 DEF RemoveContainer, IInv, TypeOK, Flags
  <2>4. CASE RemoveNetwork(c)
    BY <1>1, <2>4 DEF RemoveNetwork, IInv, TypeOK, Flags
  <2>5. CASE UNCHANGED <<network, container>>
    BY <2>5
  <2> QED BY <2>1, <2>2, <2>3, <2>4, <2>5
          DEF ReservePorts, ReleaseShort, Probe, Fail, ReleasePorts, Crash
<1> QED BY <1>1, IInvHolds, PTL DEF Spec, OnlyOwnRemoved
=============================================================================
