--------------------------- MODULE HoneypotEngine ---------------------------
(***************************************************************************)
(* core/engine.py, class HoneypotEngine: the registry of honeypot          *)
(* instances and the ports they are given.                                 *)
(*                                                                         *)
(* Every coroutine of the engine runs on one event loop and none of them   *)
(* suspends: the lock is never contended because its holder never awaits,  *)
(* and _response_delay(...) is called without await, so its sleep never    *)
(* runs.  Each operation is therefore one atomic step.  PROVISIONING and   *)
(* DESTROYING exist only inside such a step and are never observable.      *)
(***************************************************************************)
EXTENDS Integers, FiniteSets

CONSTANTS
  Ids,                \* the uuid4 values instances are named by
  PortStart, PortEnd, \* config.port_range_start, config.port_range_end
  MaxInstances,       \* config.max_instances
  NoId,               \* no entry in _port_allocations
  NoPort              \* exposed_ports of an instance never spawned

Ports == PortStart .. PortEnd

\* What HoneypotConfig's validator accepts; max_instances has no validator.
ASSUME ConfigAssumption ==
  /\ PortStart \in Nat
  /\ PortEnd \in Nat
  /\ PortStart < PortEnd
  /\ PortEnd - PortStart <= 10000
  /\ MaxInstances \in Int

ASSUME NullAssumption == NoId \notin Ids /\ NoPort \notin Ports

VARIABLES
  running,      \* _running
  instances,    \* the keys of _instances
  status,       \* HoneypotInstance.status; callers may hold dead objects
  exposed,      \* HoneypotInstance.exposed_ports, always one port
  allocations,  \* _port_allocations: port -> instance id
  nextPort,     \* _next_port
  reply         \* what the last call returned or raised

\* History, to say what the round-robin cursor buys: an address that
\* has just disappeared does not come back before the others had their turn.
\* Nothing else reads it.
VARIABLES
  leased,       \* ports that have been leased at least once
  seen          \* seen[p]: ports taken at some time since p's last lease

history == <<leased, seen>>
vars ==
  <<running, instances, status, exposed, allocations, nextPort, reply, history>>

Live == {"active", "paused"}

Replies ==
  {"ok", "not_running", "limit", "no_ports", "not_found", "bad_state"}

Init ==
  /\ running = FALSE
  /\ instances = {}
  /\ status = [i \in Ids |-> "unborn"]
  /\ exposed = [i \in Ids |-> NoPort]
  /\ allocations = [p \in Ports |-> NoId]
  /\ nextPort = PortStart
  /\ reply = "ok"
  /\ leased = {}
  /\ seen = [p \in Ports |-> {}]

-----------------------------------------------------------------------------
(* _allocate_port *)

\* How far from the cursor the scan reaches p: the offset for which
\* range_start + (cursor - range_start + offset) % port_count = p.
Offset(p) ==
  IF p >= nextPort THEN p - nextPort ELSE p - nextPort + (PortEnd - PortStart + 1)

Free(p) == allocations[p] = NoId
Taken == {p \in Ports : ~Free(p)}

FirstFree_Lowest(p) == Free(p) /\ \A q \in Ports : Free(q) => p <= q
FirstFree_SkipsNone(p) == p = nextPort

\* The port the scan stops at: the first free one from the cursor on.
FirstFree(p) ==
  /\ Free(p)
  /\ \A q \in Ports : Free(q) => Offset(p) <= Offset(q)

CursorAfter_NoWrap(p) == p + 1
CursorAfter(p) == IF p + 1 > PortEnd THEN PortStart ELSE p + 1

\* p is leased: every port taken now has been taken since.
Record(p) ==
  /\ leased' = leased \cup {p}
  /\ seen' = [q \in Ports |->
                IF q = p THEN Taken \cup {p} ELSE seen[q] \cup {p}]

-----------------------------------------------------------------------------
(* Operations.  A definition named X_Y is X with the slip Y in it; it is    *)
(* used only to confirm that a property notices the slip.                   *)

AtLimit_OffByOne == Cardinality(instances) > MaxInstances
AtLimit == Cardinality(instances) >= MaxInstances

\* The allocations once the instances in gone have freed their ports.
Freed_Leak(gone) == allocations
Freed(gone) ==
  [p \in Ports |-> IF \E i \in gone : exposed[i] = p THEN NoId ELSE allocations[p]]

\* What stop() destroys.
Doomed == {i \in instances : status[i] \in Live}

\* resume_instance looks the id up and wants it PAUSED.
Resumable_NoLookup(i) == status[i] \in {"paused", "destroyed"}
Resumable(i) == i \in instances /\ status[i] = "paused"

Refuse(why) ==
  /\ reply' = why
  /\ UNCHANGED <<running, instances, status, exposed, allocations, nextPort, history>>

Start ==
  /\ running' = TRUE
  /\ reply' = "ok"
  /\ UNCHANGED <<instances, status, exposed, allocations, nextPort, history>>

\* None of the destroy calls in stop()'s loop suspends: it is one step.
Stop ==
  /\ running' = FALSE
  /\ instances' = instances \ Doomed
  /\ status' = [i \in Ids |-> IF i \in Doomed THEN "destroyed" ELSE status[i]]
  /\ allocations' = Freed(Doomed)
  /\ reply' = "ok"
  /\ UNCHANGED <<exposed, nextPort, history>>

SpawnNotRunning == ~running /\ Refuse("not_running")

SpawnLimit == running /\ AtLimit /\ Refuse("limit")

SpawnNoPorts ==
  /\ running
  /\ ~AtLimit
  /\ \A p \in Ports : ~Free(p)
  /\ Refuse("no_ports")

\* A uuid4 is drawn afresh: i names no earlier instance.
Spawn(i, p) ==
  /\ running
  /\ ~AtLimit
  /\ status[i] = "unborn"
  /\ FirstFree(p)
  /\ nextPort' = CursorAfter(p)
  /\ instances' = instances \cup {i}
  /\ exposed' = [exposed EXCEPT ![i] = p]
  /\ allocations' = [allocations EXCEPT ![p] = i]
  /\ status' = [status EXCEPT ![i] = "active"]
  /\ reply' = "ok"
  /\ Record(p)
  /\ UNCHANGED running

Destroy(i) ==
  /\ i \in instances
  /\ allocations' = Freed({i})
  /\ status' = [status EXCEPT ![i] = "destroyed"]
  /\ instances' = instances \ {i}
  /\ reply' = "ok"
  /\ UNCHANGED <<running, exposed, nextPort, history>>

Pause(i) ==
  /\ i \in instances
  /\ status[i] = "active"
  /\ status' = [status EXCEPT ![i] = "paused"]
  /\ reply' = "ok"
  /\ UNCHANGED <<running, instances, exposed, allocations, nextPort, history>>

Resume(i) ==
  /\ Resumable(i)
  /\ status' = [status EXCEPT ![i] = "active"]
  /\ reply' = "ok"
  /\ UNCHANGED <<running, instances, exposed, allocations, nextPort, history>>

\* destroy, pause and resume raise KeyError for an id not in _instances.
CallUnknown(i) == i \notin instances /\ Refuse("not_found")

PauseRefused(i) == i \in instances /\ status[i] # "active" /\ Refuse("bad_state")
ResumeRefused(i) == i \in instances /\ ~Resumable(i) /\ Refuse("bad_state")

Next ==
  \/ Start
  \/ Stop
  \/ SpawnNotRunning
  \/ SpawnLimit
  \/ SpawnNoPorts
  \/ \E i \in Ids, p \in Ports : Spawn(i, p)
  \/ \E i \in Ids :
       \/ Destroy(i)
       \/ Pause(i)
       \/ Resume(i)
       \/ CallUnknown(i)
       \/ PauseRefused(i)
       \/ ResumeRefused(i)

Spec == Init /\ [][Next]_vars

-----------------------------------------------------------------------------
(* Properties *)

\* Every variable has its type; the cursor of _allocate_port never leaves
\* the configured range.
TypeOK ==
  /\ running \in BOOLEAN
  /\ instances \in SUBSET Ids
  /\ status \in [Ids -> {"unborn", "active", "paused", "destroyed"}]
  /\ exposed \in [Ids -> Ports \cup {NoPort}]
  /\ allocations \in [Ports -> Ids \cup {NoId}]
  /\ nextPort \in Ports
  /\ reply \in Replies
  /\ leased \subseteq Ports
  /\ seen \in [Ports -> SUBSET Ports]

\* _instances and _port_allocations stay inverse to each other over any
\* sequence of spawn, destroy and stop: each registered instance owns the
\* allocation of its exposed port, and each allocation belongs to a
\* registered instance (no leaked and no shared port).
PortsMatch ==
  /\ \A i \in instances : exposed[i] \in Ports /\ allocations[exposed[i]] = i
  /\ \A p \in Ports : allocations[p] # NoId =>
       allocations[p] \in instances /\ exposed[allocations[p]] = p

\* The registry and the status a caller reads on an object it holds agree:
\* an object is registered exactly while it is active or paused.
StatusMatches == \A i \in Ids : i \in instances <=> status[i] \in Live

\* stop() leaves nothing behind: an engine that is not running has no
\* instance, so none can be spawned, paused or resumed until start().
StoppedIsEmpty == ~running => instances = {}

\* max_instances is never exceeded.
WithinLimit ==
  /\ IsFiniteSet(instances)
  /\ instances # {} => Cardinality(instances) <= MaxInstances

\* A dead instance stays dead: after DESTROYED its object never changes.
DestroyedIsFinal ==
  [][\A i \in Ids : status[i] = "destroyed" =>
       status'[i] = "destroyed" /\ exposed'[i] = exposed[i]]_vars

\* "No available ports" is raised only when live instances really expose
\* every port of the range: no port is ever lost to a dead instance.
ExhaustionIsReal ==
  [][reply' = "no_ports" /\ reply # "no_ports" =>
       \A p \in Ports : \E i \in instances : exposed[i] = p]_vars

\* A port is leased a second time only after every other port of the range
\* has been taken at some time since its first lease: the cursor of
\* _allocate_port makes a full lap before it reuses one.
FullLapBeforeReuse ==
  [][\A p \in leased : Free(p) /\ allocations'[p] # NoId =>
       Ports \ {p} \subseteq seen[p]]_vars

\* The reason, as a state invariant: every port the cursor has passed since
\* p was leased (those further from the cursor than p) has been taken since,
\* and so has every port that is taken now.
LapInvariant ==
  \A p \in leased :
    /\ Taken \subseteq seen[p]
    /\ \A q \in Ports : Offset(q) > Offset(p) => q \in seen[p]

\* The engine implements the port pool.
Pool == INSTANCE PortPool WITH
  Clients  <- Ids,
  Capacity <- MaxInstances,
  NoClient <- NoId,
  open     <- running,
  holder   <- allocations,
  retired  <- {i \in Ids : status[i] = "destroyed"}

PoolSpec == Pool!PoolSpec
=============================================================================
