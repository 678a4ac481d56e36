-------------------------- MODULE HoneypotApiProofs --------------------------
(***************************************************************************)
(* Proofs about HoneypotEngine and HoneypotApi for any port range,         *)
(* instance limit and sets of ids and requests.  The engine: its type      *)
(* invariant, the registry invariants, that it implements PortPool, and    *)
(* that its port cursor makes full laps.  The routes: every behaviour of   *)
(* theirs is one of the engine, an acknowledged DELETE is final, an        *)
(* instance nobody was told of has a request to blame, and what the        *)
(* metrics count adds up.                                                  *)
(***************************************************************************)
EXTENDS HoneypotApi, FiniteSetTheorems, TLAPS

-----------------------------------------------------------------------------
(*************************** The engine ************************************)

\* The inductive invariant.  PortsMatch alone is not inductive: Stop frees
\* the ports of active and paused instances only, so that nothing stays
\* allocated needs StatusMatches; and StoppedIsEmpty needs both.
IndInv ==
  /\ TypeOK
  /\ PortsMatch
  /\ StatusMatches
  /\ StoppedIsEmpty

-----------------------------------------------------------------------------
\* Every action that refuses a call leaves all but reply alone.
LEMMA RefuseKeeps ==
  ASSUME NEW why \in Replies, IndInv, Refuse(why)
  PROVE  IndInv'
BY DEF IndInv, TypeOK, PortsMatch, StatusMatches, StoppedIsEmpty, Refuse,
       history, Ports, Live, Replies

\* The cursor stays in the range when it moves past a port of the range.
LEMMA CursorStays ==
  ASSUME NEW p \in Ports
  PROVE  CursorAfter(p) \in Ports
BY ConfigAssumption DEF CursorAfter, Ports

LEMMA SpawnKeeps ==
  ASSUME NEW i \in Ids, NEW p \in Ports, IndInv, Spawn(i, p)
  PROVE  IndInv'
<1>1. nextPort' \in Ports
  BY CursorStays DEF Spawn
<1>2. TypeOK'
  BY <1>1 DEF IndInv, TypeOK, Spawn, Record, Taken, Replies
<1>3. i \notin instances
  BY DEF IndInv, StatusMatches, Spawn, Live
<1>4. PortsMatch'
  BY <1>3, NullAssumption
  DEF IndInv, TypeOK, PortsMatch, Spawn, FirstFree, Free
<1>5. StatusMatches'
  BY DEF IndInv, TypeOK, StatusMatches, Spawn, Live
<1>6. StoppedIsEmpty'
  BY DEF IndInv, StoppedIsEmpty, Spawn
<1>. QED BY <1>2, <1>4, <1>5, <1>6 DEF IndInv

LEMMA DestroyKeeps ==
  ASSUME NEW i \in Ids, IndInv, Destroy(i)
  PROVE  IndInv'
<1>1. TypeOK'
  BY DEF IndInv, TypeOK, Destroy, Freed, history, Replies
<1>2. PortsMatch'
  BY NullAssumption DEF IndInv, TypeOK, PortsMatch, Destroy, Freed
<1>3. StatusMatches'
  BY DEF IndInv, TypeOK, StatusMatches, Destroy, Live
<1>4. StoppedIsEmpty'
  BY DEF IndInv, StoppedIsEmpty, Destroy
<1>. QED BY <1>1, <1>2, <1>3, <1>4 DEF IndInv

LEMMA StopKeeps ==
  ASSUME IndInv, Stop
  PROVE  IndInv'
<1>1. \A i \in instances : status[i] \in Live
  BY DEF IndInv, TypeOK, StatusMatches
<1>2. instances' = {}
  BY <1>1 DEF Stop, Doomed
<1>3. TypeOK'
  BY <1>2 DEF IndInv, TypeOK, Stop, Freed, history, Replies
<1>4. \A p \in Ports : allocations'[p] = NoId
  BY <1>1 DEF IndInv, TypeOK, PortsMatch, Stop, Doomed, Freed
<1>5. StatusMatches'
  BY <1>1, <1>2 DEF IndInv, TypeOK, StatusMatches, Stop, Doomed, Live
<1>. QED
  BY <1>2, <1>3, <1>4, <1>5 DEF IndInv, PortsMatch, StoppedIsEmpty

LEMMA PauseResumeKeep ==
  ASSUME NEW i \in Ids, IndInv, Pause(i) \/ Resume(i)
  PROVE  IndInv'
<1>1. TypeOK'
  BY DEF IndInv, TypeOK, Pause, Resume, history, Replies
<1>2. PortsMatch' /\ StoppedIsEmpty'
  BY DEF IndInv, PortsMatch, StoppedIsEmpty, Pause, Resume
<1>3. StatusMatches'
  BY DEF IndInv, TypeOK, StatusMatches, Pause, Resume, Resumable, Live
<1>. QED BY <1>1, <1>2, <1>3 DEF IndInv

LEMMA IndInvInit == Init => IndInv
<1>. SUFFICES ASSUME Init PROVE IndInv
  OBVIOUS
<1>1. PortStart \in Ports
  BY ConfigAssumption DEF Ports
<1>2. TypeOK
  BY <1>1 DEF Init, TypeOK, Replies
<1>3. PortsMatch
  BY DEF Init, PortsMatch
<1>4. StatusMatches
  BY DEF Init, StatusMatches, Live
<1>5. StoppedIsEmpty
  BY DEF Init, StoppedIsEmpty
<1>. QED BY <1>2, <1>3, <1>4, <1>5 DEF IndInv

LEMMA IndInvNext == IndInv /\ [Next]_vars => IndInv'
<1>. SUFFICES ASSUME IndInv, [Next]_vars PROVE IndInv'
  OBVIOUS
<1>1. CASE Start
  BY <1>1 DEF Start, IndInv, TypeOK, PortsMatch, StatusMatches,
              StoppedIsEmpty, history, Replies
<1>2. CASE Stop
  BY <1>2, StopKeeps
<1>3. CASE SpawnNotRunning \/ SpawnLimit \/ SpawnNoPorts
  BY <1>3, RefuseKeeps
  DEF SpawnNotRunning, SpawnLimit, SpawnNoPorts, Replies
<1>4. ASSUME NEW i \in Ids, NEW p \in Ports, Spawn(i, p) PROVE IndInv'
  BY <1>4, SpawnKeeps
<1>5. ASSUME NEW i \in Ids, Destroy(i) PROVE IndInv'
  BY <1>5, DestroyKeeps
<1>6. ASSUME NEW i \in Ids, Pause(i) \/ Resume(i) PROVE IndInv'
  BY <1>6, PauseResumeKeep
<1>7. ASSUME NEW i \in Ids, CallUnknown(i) \/ PauseRefused(i) \/ ResumeRefused(i)
      PROVE  IndInv'
  BY <1>7, RefuseKeeps
  DEF CallUnknown, PauseRefused, ResumeRefused, Replies
<1>8. CASE UNCHANGED vars
  BY <1>8 DEF vars, history, IndInv, TypeOK, PortsMatch, StatusMatches,
              StoppedIsEmpty
<1>. QED
  BY <1>1, <1>2, <1>3, <1>4, <1>5, <1>6, <1>7, <1>8 DEF Next

LEMMA EngineInvariant == Spec => []IndInv
BY IndInvInit, IndInvNext, PTL DEF Spec

-----------------------------------------------------------------------------
\* Type correctness of the engine, the cursor within the range included
\* (core/engine.py HoneypotEngine, _allocate_port).
THEOREM EngineTypeOK == Spec => []TypeOK
<1>1. IndInv => TypeOK
  BY DEF IndInv
<1>. QED BY <1>1, EngineInvariant, PTL

\* The two dictionaries of the engine stay inverse to each other, for any
\* port range and any sequence of calls: no port is leaked or shared.
THEOREM EnginePortsMatch == Spec => []PortsMatch
<1>1. IndInv => PortsMatch
  BY DEF IndInv
<1>. QED BY <1>1, EngineInvariant, PTL

\* An object is registered exactly while it is active or paused.
THEOREM EngineStatusMatches == Spec => []StatusMatches
<1>1. IndInv => StatusMatches
  BY DEF IndInv
<1>. QED BY <1>1, EngineInvariant, PTL

\* A stopped engine holds no instance.
THEOREM EngineStoppedIsEmpty == Spec => []StoppedIsEmpty
<1>1. IndInv => StoppedIsEmpty
  BY DEF IndInv
<1>. QED BY <1>1, EngineInvariant, PTL

-----------------------------------------------------------------------------
LEMMA LimitInit == Init => WithinLimit
BY FS_EmptySet DEF Init, WithinLimit

LEMMA LimitNext == IndInv /\ WithinLimit /\ [Next]_vars => WithinLimit'
<1>. SUFFICES ASSUME IndInv, WithinLimit, [Next]_vars PROVE WithinLimit'
  OBVIOUS
<1>0. Cardinality(instances) \in Nat
  BY FS_CardinalityType DEF WithinLimit
<1>1. ASSUME NEW i \in Ids, NEW p \in Ports, Spawn(i, p) PROVE WithinLimit'
  <2>1. i \notin instances
    BY <1>1 DEF Spawn, IndInv, StatusMatches, Live
  <2>2. /\ IsFiniteSet(instances \cup {i})
        /\ Cardinality(instances \cup {i}) = Cardinality(instances) + 1
    BY <2>1, FS_AddElement DEF WithinLimit
  <2>3. Cardinality(instances) + 1 <= MaxInstances
    BY <1>0, <1>1, ConfigAssumption DEF Spawn, AtLimit
  <2>. QED
    BY <1>1, <2>2, <2>3 DEF Spawn, WithinLimit
<1>2. ASSUME NEW i \in Ids, Destroy(i) PROVE WithinLimit'
  <2>1. /\ IsFiniteSet(instances \ {i})
        /\ Cardinality(instances \ {i}) <= Cardinality(instances)
    BY <1>0, FS_RemoveElement DEF WithinLimit
  <2>2. Cardinality(instances \ {i}) \in Nat
    BY <2>1, FS_CardinalityType
  <2>. QED
    BY <1>0, <1>2, <2>1, <2>2, ConfigAssumption DEF Destroy, WithinLimit
<1>3. CASE Stop
  <2>1. instances' = {}
    BY <1>3 DEF Stop, Doomed, IndInv, TypeOK, StatusMatches
  <2>. QED BY <2>1, FS_EmptySet DEF WithinLimit
<1>4. CASE instances' = instances
  BY <1>4 DEF WithinLimit
<1>. QED
  BY <1>1, <1>2, <1>3, <1>4
  DEF Next, vars, Start, SpawnNotRunning, SpawnLimit, SpawnNoPorts, Refuse,
      Pause, Resume, CallUnknown, PauseRefused, ResumeRefused

\* max_instances is never exceeded, whatever the limit and the port range.
THEOREM EngineWithinLimit == Spec => []WithinLimit
BY LimitInit, LimitNext, EngineInvariant, PTL DEF Spec

-----------------------------------------------------------------------------
LEMMA DestroyedStep ==
  IndInv /\ [Next]_vars =>
    [\A i \in Ids : status[i] = "destroyed" =>
       status'[i] = "destroyed" /\ exposed'[i] = exposed[i]]_vars
<1>. SUFFICES ASSUME IndInv, Next, NEW j \in Ids, status[j] = "destroyed"
              PROVE  status'[j] = "destroyed" /\ exposed'[j] = exposed[j]
  OBVIOUS
<1>1. j \notin instances
  BY DEF IndInv, StatusMatches, Live
<1>2. ASSUME NEW i \in Ids, NEW p \in Ports, Spawn(i, p)
      PROVE  status'[j] = "destroyed" /\ exposed'[j] = exposed[j]
  BY <1>2 DEF Spawn, IndInv, TypeOK
<1>3. ASSUME NEW i \in Ids, Destroy(i) \/ Pause(i) \/ Resume(i)
      PROVE  status'[j] = "destroyed" /\ exposed'[j] = exposed[j]
  BY <1>1, <1>3 DEF Destroy, Pause, Resume, Resumable, IndInv, TypeOK
<1>4. CASE Stop
  BY <1>4 DEF Stop, Doomed
<1>5. CASE UNCHANGED <<status, exposed>>
  BY <1>5
<1>. QED
  BY <1>2, <1>3, <1>4, <1>5
  DEF Next, Start, SpawnNotRunning, SpawnLimit, SpawnNoPorts, Refuse,
      CallUnknown, PauseRefused, ResumeRefused

\* No call brings a destroyed instance back or moves its port.
THEOREM EngineDestroyedIsFinal == Spec => DestroyedIsFinal
BY DestroyedStep, EngineInvariant, PTL DEF Spec, DestroyedIsFinal

LEMMA ExhaustionStep ==
  IndInv /\ [Next]_vars =>
    [reply' = "no_ports" /\ reply # "no_ports" =>
       \A p \in Ports : \E i \in instances : exposed[i] = p]_vars
<1>. SUFFICES ASSUME IndInv, Next, reply' = "no_ports", NEW p \in Ports
              PROVE  \E i \in instances : exposed[i] = p
  OBVIOUS
<1>1. SpawnNoPorts
  BY DEF Next, Start, Stop, SpawnNotRunning, SpawnLimit, Spawn, Destroy,
         Pause, Resume, CallUnknown, PauseRefused, ResumeRefused, Refuse
<1>2. allocations[p] # NoId
  BY <1>1 DEF SpawnNoPorts, Free
<1>. QED BY <1>2 DEF IndInv, PortsMatch

\* The engine reports exhaustion only when live instances hold every port.
THEOREM EngineExhaustionIsReal == Spec => ExhaustionIsReal
BY ExhaustionStep, EngineInvariant, PTL DEF Spec, ExhaustionIsReal

-----------------------------------------------------------------------------
(* Refinement: HoneypotEngine implements PortPool. *)

\* Under the invariant the clients that hold a lease are the instances.
LEMMA HoldersAreInstances ==
  ASSUME IndInv
  PROVE  Pool!Holders = instances
BY NullAssumption DEF IndInv, TypeOK, PortsMatch, Pool!Holders

\* PortPool brings its own copy of FiniteSets.
LEMMA SameCardinality == \A S : Pool!Cardinality(S) = Cardinality(S)
BY DEF Pool!Cardinality, Cardinality

LEMMA PoolInitMaps == Init => Pool!PoolInit
BY DEF Init, Pool!PoolInit

LEMMA PoolStepMaps ==
  IndInv /\ WithinLimit /\ [Next]_vars => [Pool!PoolNext]_(Pool!poolVars)
<1>. DEFINE Dead == {j \in Ids : status[j] = "destroyed"}
<1>. SUFFICES ASSUME IndInv, WithinLimit, [Next]_vars
              PROVE  Pool!PoolNext \/ UNCHANGED <<running, allocations, Dead>>
  BY DEF Pool!poolVars
<1>1. ASSUME NEW i \in Ids, NEW p \in Ports, Spawn(i, p) PROVE Pool!Lease(i, p)
  <2>1. i \notin instances /\ i \notin Dead
    BY <1>1 DEF Spawn, IndInv, StatusMatches, Live
  <2>2. Dead' = Dead
    BY <1>1 DEF Spawn, IndInv, TypeOK
  <2>3. Cardinality(instances) < MaxInstances
    BY <1>1, FS_CardinalityType, ConfigAssumption DEF Spawn, AtLimit, WithinLimit
  <2>. QED
    BY <1>1, <2>1, <2>2, <2>3, HoldersAreInstances, SameCardinality
    DEF Spawn, FirstFree, Free, Pool!Lease
<1>2. ASSUME NEW i \in Ids, Destroy(i) PROVE \E p \in Ports : Pool!Release(p)
  <2>1. exposed[i] \in Ports /\ allocations[exposed[i]] = i
    BY <1>2 DEF Destroy, IndInv, PortsMatch
  <2>2. Dead' = Dead \cup {i}
    BY <1>2 DEF Destroy, IndInv, TypeOK
  <2>3. allocations' = [allocations EXCEPT ![exposed[i]] = NoId]
    BY <1>2, <2>1 DEF Destroy, Freed, IndInv, TypeOK
  <2>. QED
    BY <1>2, <2>1, <2>2, <2>3, NullAssumption DEF Destroy, Pool!Release
<1>3. ASSUME Stop PROVE Pool!Close
  <2>1. \A i \in instances : status[i] \in Live
    BY DEF IndInv, TypeOK, StatusMatches
  <2>2. allocations' = [p \in Ports |-> NoId]
    BY <1>3, <2>1 DEF Stop, Doomed, Freed, IndInv, TypeOK, PortsMatch
  <2>3. Dead' = Dead \cup instances
    BY <1>3, <2>1 DEF Stop, Doomed, IndInv, TypeOK
  <2>. QED
    BY <1>3, <2>2, <2>3, HoldersAreInstances DEF Stop, Pool!Close
<1>4. ASSUME Start PROVE Pool!Open
  BY <1>4 DEF Start, Pool!Open
<1>5. ASSUME NEW i \in Ids, Pause(i) \/ Resume(i)
      PROVE  UNCHANGED <<running, allocations, Dead>>
  BY <1>5 DEF Pause, Resume, Resumable, IndInv, TypeOK
<1>6. CASE UNCHANGED <<running, allocations, status>>
  BY <1>6
<1>7. ASSUME NEW i \in Ids, Destroy(i) PROVE Pool!PoolNext
  BY <1>2, <1>7 DEF Pool!PoolNext
<1>8. ASSUME NEW i \in Ids, NEW p \in Ports, Spawn(i, p) PROVE Pool!PoolNext
  BY <1>1, <1>8 DEF Pool!PoolNext
<1>9. ASSUME Start \/ Stop PROVE Pool!PoolNext
  BY <1>3, <1>4, <1>9 DEF Pool!PoolNext
<1>10. CASE UNCHANGED vars
  BY <1>6, <1>10 DEF vars
<1>11. CASE SpawnNotRunning \/ SpawnLimit \/ SpawnNoPorts
  BY <1>6, <1>11 DEF SpawnNotRunning, SpawnLimit, SpawnNoPorts, Refuse
<1>12. ASSUME NEW i \in Ids, CallUnknown(i) \/ PauseRefused(i) \/ ResumeRefused(i)
       PROVE  UNCHANGED <<running, allocations, Dead>>
  BY <1>6, <1>12 DEF CallUnknown, PauseRefused, ResumeRefused, Refuse
<1>. QED
  BY <1>5, <1>7, <1>8, <1>9, <1>10, <1>11, <1>12 DEF Next

\* Every behaviour of the engine is one of the port pool: a port is leased
\* only while free, to an instance that never had one, and comes back only
\* when its instance is destroyed or the engine stops.
THEOREM EngineImplementsPool == Spec => PoolSpec
BY PoolInitMaps, PoolStepMaps, EngineInvariant, EngineWithinLimit, PTL
DEF Spec, PoolSpec, Pool!PoolSpec

-----------------------------------------------------------------------------
(* The port cursor: _allocate_port makes a full lap before it reuses a port. *)

LapInd == IndInv /\ LapInvariant

-----------------------------------------------------------------------------
LEMMA OffsetType ==
  ASSUME IndInv, NEW p \in Ports
  PROVE  Offset(p) \in 0 .. PortEnd - PortStart
BY ConfigAssumption DEF IndInv, TypeOK, Ports, Offset

\* A spawn that leases r moves the cursor just past r, so every port moves
\* Offset(r) + 1 places closer, those up to r going to the back of the lap.
LEMMA OffsetShift ==
  ASSUME IndInv, NEW i \in Ids, NEW r \in Ports, Spawn(i, r), NEW p \in Ports
  PROVE  Offset(p)' = IF Offset(p) > Offset(r)
                      THEN Offset(p) - Offset(r) - 1
                      ELSE Offset(p) - Offset(r) + (PortEnd - PortStart)
<1>1. nextPort' = CursorAfter(r) /\ r \in PortStart .. PortEnd
      /\ nextPort \in PortStart .. PortEnd /\ p \in PortStart .. PortEnd
  BY DEF IndInv, TypeOK, Ports, Spawn
<1>. QED BY <1>1, ConfigAssumption DEF Offset, CursorAfter

\* A step that is no spawn leaves the cursor alone and takes no port.
LEMMA QuietStep ==
  ASSUME IndInv, [Next]_vars, ~ \E i \in Ids, p \in Ports : Spawn(i, p)
  PROVE  /\ nextPort' = nextPort /\ history' = history
         /\ \A p \in Ports : Free(p) => Free(p)'
<1>. DEFINE Quiet == /\ nextPort' = nextPort /\ history' = history
                     /\ \A p \in Ports : Free(p) => Free(p)'
<1>1. CASE Stop
  BY <1>1 DEF Stop, Freed, Free
<1>2. ASSUME NEW i \in Ids, Destroy(i) PROVE Quiet
  BY <1>2 DEF Destroy, Freed, Free
<1>3. CASE UNCHANGED <<nextPort, allocations, history>>
  BY <1>3 DEF Free
<1>. QED
  BY <1>1, <1>2, <1>3
  DEF Next, vars, Start, SpawnNotRunning, SpawnLimit, SpawnNoPorts, Refuse,
      Pause, Resume, CallUnknown, PauseRefused, ResumeRefused

LEMMA QuietKeepsLap ==
  ASSUME LapInd, [Next]_vars, ~ \E i \in Ids, p \in Ports : Spawn(i, p)
  PROVE  LapInvariant'
<1>1. /\ nextPort' = nextPort /\ leased' = leased /\ seen' = seen
      /\ \A p \in Ports : Free(p) => Free(p)'
  BY QuietStep DEF LapInd, history
<1>2. Taken' \subseteq Taken
  BY <1>1 DEF Taken
<1>3. \A p \in Ports : Offset(p)' = Offset(p)
  BY <1>1 DEF Offset
<1>. QED
  BY <1>1, <1>2, <1>3 DEF LapInd, IndInv, TypeOK, LapInvariant

LEMMA SpawnKeepsLap ==
  ASSUME LapInd, NEW i \in Ids, NEW r \in Ports, Spawn(i, r)
  PROVE  LapInvariant'
<1>1. /\ Taken' = Taken \cup {r}
      /\ Taken \subseteq Ports
  BY NullAssumption DEF LapInd, IndInv, TypeOK, Spawn, FirstFree, Free, Taken
<1>2. /\ leased' = leased \cup {r}
      /\ seen' = [p \in Ports |-> IF p = r THEN Taken' ELSE seen[p] \cup {r}]
  BY <1>1 DEF Spawn, Record
<1>3. leased' \subseteq Ports
  BY <1>2 DEF LapInd, IndInv, TypeOK
<1>4. \A q \in Ports : Offset(q) <= Offset(r) => q \in Taken'
  <2>. SUFFICES ASSUME NEW q \in Ports, Offset(q) <= Offset(r), q # r
                PROVE  q \in Taken
    BY <1>1
  <2>1. Offset(q) # Offset(r)
    BY ConfigAssumption DEF LapInd, IndInv, TypeOK, Ports, Offset
  <2>2. Offset(q) \in Int /\ Offset(r) \in Int
    BY OffsetType DEF LapInd
  <2>3. ~ Free(q)
    BY <2>1, <2>2 DEF Spawn, FirstFree
  <2>. QED BY <2>3 DEF Taken
<1>5. \A p \in leased' : Taken' \subseteq seen'[p]
  BY <1>1, <1>2, <1>3 DEF LapInd, LapInvariant
<1>6. ASSUME NEW p \in leased', NEW q \in Ports, Offset(q)' > Offset(p)'
      PROVE  q \in seen'[p]
  <2>1. p \in Ports
    BY <1>3
  <2>2. /\ Offset(p) \in 0 .. PortEnd - PortStart
        /\ Offset(q) \in 0 .. PortEnd - PortStart
        /\ Offset(r) \in 0 .. PortEnd - PortStart
    BY <2>1, OffsetType DEF LapInd
  <2>3. /\ Offset(p)' = IF Offset(p) > Offset(r)
                        THEN Offset(p) - Offset(r) - 1
                        ELSE Offset(p) - Offset(r) + (PortEnd - PortStart)
        /\ Offset(q)' = IF Offset(q) > Offset(r)
                        THEN Offset(q) - Offset(r) - 1
                        ELSE Offset(q) - Offset(r) + (PortEnd - PortStart)
    BY <2>1, OffsetShift DEF LapInd
  <2>4. CASE Offset(q) <= Offset(r)
    BY <1>4, <1>5, <2>4
  <2>5. CASE Offset(q) > Offset(r)
    <3>1. Offset(p) > Offset(r) /\ Offset(q) > Offset(p)
      BY <1>6, <2>2, <2>3, <2>5, ConfigAssumption
    <3>2. p # r
      BY <2>2, <3>1
    <3>3. q \in seen[p]
      BY <1>2, <3>1, <3>2 DEF LapInd, LapInvariant
    <3>. QED BY <1>2, <2>1, <3>2, <3>3
  <2>. QED BY <2>2, <2>4, <2>5
<1>. QED
  BY <1>3, <1>5, <1>6 DEF LapInvariant

LEMMA LapIndHolds == Spec => []LapInd
<1>1. Init => LapInvariant
  BY DEF Init, LapInvariant
<1>2. LapInd /\ [Next]_vars => LapInvariant'
  <2>. SUFFICES ASSUME LapInd, [Next]_vars PROVE LapInvariant'
    OBVIOUS
  <2>. QED BY QuietKeepsLap, SpawnKeepsLap
<1>3. LapInd <=> IndInv /\ LapInvariant
  BY DEF LapInd
<1>. QED BY <1>1, <1>2, <1>3, EngineInvariant, PTL DEF Spec

-----------------------------------------------------------------------------
\* The history invariant behind the next theorem: everything the cursor has
\* passed since p was leased has been taken since (_allocate_port).
THEOREM LapHolds == Spec => []LapInvariant
<1>1. LapInd => LapInvariant
  BY DEF LapInd
<1>. QED BY <1>1, LapIndHolds, PTL

LEMMA LapStep ==
  LapInd /\ [Next]_vars =>
    [\A p \in leased : Free(p) /\ allocations'[p] # NoId =>
       Ports \ {p} \subseteq seen[p]]_vars
<1>. SUFFICES ASSUME LapInd, Next, NEW p \in leased,
                     Free(p), allocations'[p] # NoId,
                     NEW q \in Ports, q # p
              PROVE  q \in seen[p]
  OBVIOUS
<1>1. p \in Ports
  BY DEF LapInd, IndInv, TypeOK
<1>2. PICK i \in Ids, r \in Ports : Spawn(i, r)
  BY <1>1, QuietStep DEF LapInd, Free
<1>3. r = p
  BY <1>1, <1>2 DEF LapInd, IndInv, TypeOK, Spawn, Free
<1>4. /\ Offset(p) \in Int /\ Offset(q) \in Int
      /\ Offset(q) # Offset(p)
  BY <1>1, ConfigAssumption DEF LapInd, IndInv, TypeOK, Ports, Offset
<1>5. CASE Offset(q) > Offset(p)
  BY <1>5 DEF LapInd, LapInvariant
<1>6. CASE Offset(q) < Offset(p)
  <2>1. ~ Free(q)
    BY <1>2, <1>3, <1>4, <1>6 DEF Spawn, FirstFree
  <2>. QED BY <2>1 DEF LapInd, LapInvariant, Taken
<1>. QED BY <1>4, <1>5, <1>6

\* No port is leased again before every other port of the range has been
\* taken at some time since (what the cursor of _allocate_port is for).
THEOREM FullLap == Spec => FullLapBeforeReuse
BY LapStep, LapIndHolds, PTL DEF Spec, FullLapBeforeReuse

-----------------------------------------------------------------------------
(*************************** The routes ************************************)

Ops == {"spawn", "list", "delete", "pause", "resume", "get"}

RequestTypes ==
  /\ phase \in [Requests -> {"new", "entered", "handled", "done", "cancelled"}]
  /\ op \in [Requests -> Ops]
  /\ target \in [Requests -> Ids \cup {NoId}]
  /\ answer \in [Requests -> Answers \cup {NoAnswer}]
  /\ shown \in [Requests -> SUBSET Ids]
  /\ made \in [Requests -> Ids \cup {NoId}]
  /\ ackedBefore \in [Requests -> SUBSET (Ids \cup {NoId})]

\* What a request asks of an instance names an id.
TargetsAreIds == \A r \in Requests : op[r] \in {"delete", "pause", "resume"} => target[r] \in Ids

\* Before its handler ran, nothing is known of a request.
NothingYet ==
  \A r \in Requests : phase[r] \in {"new", "entered"} =>
    answer[r] = NoAnswer /\ shown[r] = {} /\ made[r] = NoId

Deleted(r) == op[r] = "delete" /\ answer[r] = 200

DeletedAreDead == \A r \in Requests : Deleted(r) => status[target[r]] = "destroyed"

AckedAreDead ==
  \A r \in Requests : \A i \in ackedBefore[r] : i \in Ids /\ status[i] = "destroyed"

ShownWereAlive == \A r \in Requests : shown[r] \cap ackedBefore[r] = {}

DeletedOnce ==
  \A q, r \in Requests : Deleted(q) /\ Deleted(r) /\ q # r => target[q] # target[r]

\* The inductive invariant: DeletionIsFinal speaks of acknowledged requests
\* only, but a deletion is final from the moment its handler ran.
RequestInv ==
  /\ RequestTypes
  /\ TargetsAreIds
  /\ NothingYet
  /\ DeletedAreDead
  /\ AckedAreDead
  /\ ShownWereAlive
  /\ DeletedOnce

-----------------------------------------------------------------------------
\* What a handler does to the engine is a step of the engine.
LEMMA HandlerSteps ==
  ASSUME RequestInv, NEW r \in Requests,
         \/ SpawnUnavailable(r) \/ SpawnConflict(r) \/ SpawnMade(r)
         \/ HandleDelete(r) \/ HandlePause(r) \/ HandleResume(r)
         \/ HandleGet(r) \/ HandleList(r)
  PROVE  [Next]_vars
<1>1. CASE SpawnUnavailable(r) \/ HandleGet(r) \/ HandleList(r)
  BY <1>1 DEF SpawnUnavailable, HandleGet, HandleList
<1>2. CASE SpawnConflict(r)
  BY <1>2 DEF SpawnConflict, Next
<1>3. CASE SpawnMade(r)
  BY <1>3 DEF SpawnMade, Next
<1>4. CASE HandleDelete(r)
  <2>1. target[r] \in Ids
    BY <1>4 DEF HandleDelete, Handles, RequestInv, TargetsAreIds
  <2>. QED BY <1>4, <2>1 DEF HandleDelete, Next
<1>5. CASE HandlePause(r)
  <2>1. target[r] \in Ids
    BY <1>5 DEF HandlePause, Handles, RequestInv, TargetsAreIds
  <2>. QED BY <1>5, <2>1 DEF HandlePause, Next
<1>6. CASE HandleResume(r)
  <2>1. target[r] \in Ids
    BY <1>6 DEF HandleResume, Handles, RequestInv, TargetsAreIds
  <2>. QED BY <1>6, <2>1 DEF HandleResume, Next
<1>. QED BY <1>1, <1>2, <1>3, <1>4, <1>5, <1>6

LEMMA ApiSteps == RequestInv /\ [ApiNext]_<<vars, apiVars>> => [Next]_vars
<1>. SUFFICES ASSUME RequestInv, ApiNext PROVE [Next]_vars
  BY DEF vars, apiVars
<1>1. CASE EngineStarts \/ EngineStops
  BY <1>1 DEF EngineStarts, EngineStops, Next
<1>2. ASSUME NEW r \in Requests,
             (\E ask \in Asks : Enter(r, ask[1], ask[2])) \/ Respond(r) \/ Cancel(r)
      PROVE  UNCHANGED vars
  BY <1>2 DEF Enter, Respond, Cancel
<1>. QED BY <1>1, <1>2, HandlerSteps DEF ApiNext

\* Whatever a step does, it brings no destroyed instance back.
LEMMA DeadStayDead ==
  ASSUME IndInv, [Next]_vars, NEW i \in Ids, status[i] = "destroyed"
  PROVE  status'[i] = "destroyed"
BY DestroyedStep DEF vars

-----------------------------------------------------------------------------
(* Every step keeps RequestInv. *)

LEMMA RequestInvInit == ApiInit => RequestInv
BY NullAssumption DEF ApiInit, RequestInv, RequestTypes, TargetsAreIds, NothingYet,
   DeletedAreDead, AckedAreDead, ShownWereAlive, DeletedOnce, Deleted, Ops, NoAnswer

\* A request comes in: it sees the deletions acknowledged so far.
LEMMA EnterKeeps ==
  ASSUME RequestInv, NEW r \in Requests, NEW ask \in Asks, Enter(r, ask[1], ask[2])
  PROVE  RequestInv'
<1>1. /\ ask[1] \in Ops /\ ask[2] \in Ids \cup {NoId}
      /\ ask[1] \in {"delete", "pause", "resume"} => ask[2] \in Ids
  BY DEF Asks, Ops
<1>2. UNCHANGED <<status, answer, shown, made>>
  BY DEF Enter, vars
<1>3. answer[r] = NoAnswer /\ shown[r] = {} /\ made[r] = NoId
  BY DEF Enter, RequestInv, NothingYet
<1>4. RequestTypes'
  BY <1>1, <1>2 DEF Enter, RequestInv, RequestTypes
<1>5. TargetsAreIds' /\ NothingYet'
  BY <1>1, <1>2, <1>3 DEF Enter, RequestInv, RequestTypes, TargetsAreIds, NothingYet
<1>6. \A q \in Requests : Deleted(q)' => q # r /\ Deleted(q) /\ target'[q] = target[q]
  BY <1>2, <1>3 DEF Enter, RequestInv, RequestTypes, Deleted, NoAnswer
<1>7. DeletedAreDead' /\ DeletedOnce'
  BY <1>2, <1>6 DEF RequestInv, DeletedAreDead, DeletedOnce
<1>8. AckedAreDead'
  BY <1>2 DEF Enter, RequestInv, RequestTypes, AckedAreDead, Acknowledged,
              DeletedAreDead, Deleted, TargetsAreIds
<1>9. ShownWereAlive'
  BY <1>2, <1>3 DEF Enter, RequestInv, RequestTypes, ShownWereAlive
<1>. QED BY <1>4, <1>5, <1>7, <1>8, <1>9 DEF RequestInv

\* A response goes out or a request is cancelled: nothing it did is undone.
LEMMA LeaveKeeps ==
  ASSUME RequestInv, NEW r \in Requests, Respond(r) \/ Cancel(r)
  PROVE  RequestInv'
<1>1. UNCHANGED <<status, op, target, answer, shown, made, ackedBefore>>
  BY DEF Respond, Cancel, vars
<1>2. RequestTypes' /\ NothingYet'
  <2>1. CASE Respond(r)
    BY <1>1, <2>1 DEF Respond, RequestInv, RequestTypes, NothingYet
  <2>2. CASE Cancel(r)
    BY <1>1, <2>2 DEF Cancel, RequestInv, RequestTypes, NothingYet
  <2>. QED BY <2>1, <2>2
<1>. QED
  BY <1>1, <1>2 DEF RequestInv, TargetsAreIds, DeletedAreDead, AckedAreDead,
                    ShownWereAlive, DeletedOnce, Deleted

\* The engine's own start and stop.
LEMMA EngineKeeps ==
  ASSUME RequestInv, IndInv, EngineStarts \/ EngineStops
  PROVE  RequestInv'
<1>1. [Next]_vars
  BY DEF EngineStarts, EngineStops, Next
<1>2. UNCHANGED <<op, target, phase, answer, shown, made, ackedBefore>>
  BY DEF EngineStarts, EngineStops, apiVars, request
<1>3. \A q \in Requests : Deleted(q) => target[q] \in Ids
  BY DEF RequestInv, TargetsAreIds, Deleted
<1>4. DeletedAreDead' /\ AckedAreDead'
  BY <1>1, <1>2, <1>3, DeadStayDead DEF RequestInv, DeletedAreDead, AckedAreDead, Deleted
<1>. QED
  BY <1>2, <1>4 DEF RequestInv, RequestTypes, TargetsAreIds, NothingYet,
                    ShownWereAlive, DeletedOnce, Deleted

\* A handler answers.  What keeps the invariant: what it shows was alive, and
\* if it deletes, the instance was alive and is dead now.
Answered(r) ==
  /\ phase[r] = "entered" /\ phase' = [phase EXCEPT ![r] = "handled"]
  /\ UNCHANGED <<op, target, ackedBefore>>
  /\ answer' \in [Requests -> Answers \cup {NoAnswer}]
  /\ shown' \in [Requests -> SUBSET Ids]
  /\ made' \in [Requests -> Ids \cup {NoId}]
  /\ \A q \in Requests \ {r} :
       answer'[q] = answer[q] /\ shown'[q] = shown[q] /\ made'[q] = made[q]
  /\ \A i \in shown'[r] : status[i] # "destroyed"
  /\ op[r] = "delete" /\ answer'[r] = 200 =>
       status[target[r]] # "destroyed" /\ status'[target[r]] = "destroyed"

LEMMA AnswerKeeps ==
  ASSUME RequestInv, IndInv, [Next]_vars, NEW r \in Requests, Answered(r)
  PROVE  RequestInv'
<1>1. RequestTypes'
  BY DEF Answered, RequestInv, RequestTypes
<1>2. TargetsAreIds' /\ NothingYet'
  BY DEF Answered, RequestInv, RequestTypes, TargetsAreIds, NothingYet
<1>3. \A q \in Requests : Deleted(q)' =>
        target[q] \in Ids /\ (q # r => Deleted(q))
  BY DEF Answered, RequestInv, RequestTypes, TargetsAreIds, Deleted
<1>4. DeletedAreDead'
  <2>. SUFFICES ASSUME NEW q \in Requests, Deleted(q)'
                PROVE  status'[target[q]] = "destroyed"
    BY DEF Answered, DeletedAreDead
  <2>1. CASE q = r
    BY <2>1 DEF Answered, Deleted
  <2>2. CASE q # r
    BY <1>3, <2>2, DeadStayDead DEF RequestInv, DeletedAreDead
  <2>. QED BY <2>1, <2>2
<1>5. AckedAreDead'
  BY DeadStayDead DEF Answered, RequestInv, AckedAreDead
<1>6. ShownWereAlive'
  BY DEF Answered, RequestInv, RequestTypes, ShownWereAlive, AckedAreDead
<1>7. DeletedOnce'
  <2>1. Deleted(r)' => status[target[r]] # "destroyed"
    BY DEF Answered, Deleted
  <2>. QED BY <1>3, <2>1 DEF Answered, RequestInv, DeletedOnce, DeletedAreDead
<1>. QED BY <1>1, <1>2, <1>4, <1>5, <1>6, <1>7 DEF RequestInv

LEMMA HandlerAnswers ==
  ASSUME RequestInv, IndInv, NEW r \in Requests,
         \/ SpawnUnavailable(r) \/ SpawnConflict(r) \/ SpawnMade(r)
         \/ HandleDelete(r) \/ HandlePause(r) \/ HandleResume(r)
         \/ HandleGet(r) \/ HandleList(r)
  PROVE  Answered(r)
<1>. USE DEF Handles, Answer, Answered, RequestTypes, Answers, NoAnswer
<1>0. RequestTypes
  BY DEF RequestInv
<1>1. \A i \in instances : i \in Ids /\ status[i] # "destroyed"
  BY DEF IndInv, TypeOK, StatusMatches, Live
<1>2. CASE SpawnUnavailable(r)
  BY <1>0, <1>2 DEF SpawnUnavailable
<1>3. CASE SpawnConflict(r)
  BY <1>0, <1>3 DEF SpawnConflict
<1>4. CASE SpawnMade(r)
  <2>1. PICK i \in Ids, p \in Ports :
          /\ Spawn(i, p)
          /\ made' = [made EXCEPT ![r] = i]
          /\ IF MetricFails THEN Answer(r, 500, {}) ELSE Answer(r, 201, {i})
    BY <1>4 DEF SpawnMade
  <2>2. status[i] # "destroyed"
    BY <2>1 DEF Spawn
  <2>. QED BY <1>0, <1>4, <2>1, <2>2 DEF SpawnMade
<1>5. CASE HandleDelete(r)
  <2>1. target[r] \in Ids
    BY <1>5 DEF HandleDelete, RequestInv, TargetsAreIds
  <2>2. CASE Destroy(target[r]) /\ Answer(r, 200, {})
    <3>1. status[target[r]] # "destroyed" /\ status'[target[r]] = "destroyed"
      BY <1>1, <2>1, <2>2 DEF Destroy, IndInv, TypeOK
    <3>. QED BY <1>0, <1>5, <2>2, <3>1 DEF HandleDelete
  <2>3. CASE Answer(r, 404, {})
    BY <1>0, <1>5, <2>3 DEF HandleDelete
  <2>. QED BY <1>5, <2>2, <2>3 DEF HandleDelete
<1>6. CASE HandlePause(r)
  BY <1>0, <1>1, <1>6 DEF HandlePause, Pause
<1>7. CASE HandleResume(r)
  BY <1>0, <1>1, <1>7 DEF HandleResume, Resume, Resumable
<1>8. CASE HandleGet(r)
  BY <1>0, <1>1, <1>8 DEF HandleGet
<1>9. CASE HandleList(r)
  BY <1>0, <1>1, <1>9 DEF HandleList
<1>. QED BY <1>2, <1>3, <1>4, <1>5, <1>6, <1>7, <1>8, <1>9

LEMMA RequestInvNext ==
  RequestInv /\ IndInv /\ [ApiNext]_<<vars, apiVars>> => RequestInv'
<1>. SUFFICES ASSUME RequestInv, IndInv, [ApiNext]_<<vars, apiVars>> PROVE RequestInv'
  OBVIOUS
<1>1. CASE EngineStarts \/ EngineStops
  BY <1>1, EngineKeeps
<1>2. ASSUME NEW r \in Requests, NEW ask \in Asks, Enter(r, ask[1], ask[2])
      PROVE  RequestInv'
  BY <1>2, EnterKeeps
<1>3. ASSUME NEW r \in Requests, Respond(r) \/ Cancel(r) PROVE RequestInv'
  BY <1>3, LeaveKeeps
<1>4. CASE UNCHANGED <<vars, apiVars>>
  BY <1>4 DEF vars, apiVars, request, RequestInv, RequestTypes, TargetsAreIds,
              NothingYet, DeletedAreDead, AckedAreDead, ShownWereAlive,
              DeletedOnce, Deleted
<1>5. ASSUME NEW r \in Requests,
             \/ SpawnUnavailable(r) \/ SpawnConflict(r) \/ SpawnMade(r)
             \/ HandleDelete(r) \/ HandlePause(r) \/ HandleResume(r)
             \/ HandleGet(r) \/ HandleList(r)
      PROVE  RequestInv'
  BY <1>5, HandlerSteps, HandlerAnswers, AnswerKeeps
<1>. QED BY <1>1, <1>2, <1>3, <1>4, <1>5 DEF ApiNext

LEMMA ApiInvariant == ApiSpec => [](IndInv /\ RequestInv)
<1>1. ApiInit => IndInv /\ RequestInv
  BY IndInvInit, RequestInvInit DEF ApiInit
<1>2. IndInv /\ RequestInv /\ [ApiNext]_<<vars, apiVars>> => IndInv' /\ RequestInv'
  BY ApiSteps, IndInvNext, RequestInvNext
<1>. QED BY <1>1, <1>2, PTL DEF ApiSpec

-----------------------------------------------------------------------------
\* Whatever the routes do while requests overlap and are cancelled, the engine
\* only ever takes its own steps (api/routes.py over core/engine.py): all that
\* is proved of the engine, the port pool included, holds behind the routes.
THEOREM ApiImplementsEngine == ApiSpec => Spec
<1>1. ApiInit => Init
  BY DEF ApiInit
<1>. QED BY <1>1, ApiSteps, ApiInvariant, PTL DEF ApiSpec, Spec

\* An acknowledged DELETE is final for any number of overlapping requests
\* (routes.py destroy_honeypot and the handlers that show instances).
THEOREM ApiDeletionIsFinal == ApiSpec => []DeletionIsFinal
<1>1. RequestInv => DeletionIsFinal
  BY DEF RequestInv, ShownWereAlive, DeletedOnce, Deleted, DeletionIsFinal, Acknowledged
<1>. QED BY <1>1, ApiInvariant, PTL

-----------------------------------------------------------------------------
(* Orphans. *)

\* A request that spawned an instance shows it, unless the gauge failed.
MakersSay ==
  \A r \in Requests : made[r] # NoId =>
    shown[r] = {made[r]} \/ (answer[r] = 500 /\ metrics = "collector")

\* What a response showed has been told.
DoneIsTold == \A r \in Requests : phase[r] = "done" => shown[r] \subseteq told

\* No instance without a request that spawned it.
AllHaveMakers == \A i \in instances : \E r \in Requests : made[r] = i

OrphanInv == MakersSay /\ DoneIsTold /\ AllHaveMakers

LEMMA OrphanInvInit == ApiInit => OrphanInv
BY DEF ApiInit, Init, OrphanInv, MakersSay, DoneIsTold, AllHaveMakers

\* A spawn has a maker; its answer names it or is the 500 of the gauge.
LEMMA SpawnExplains ==
  ASSUME OrphanInv, RequestInv, IndInv, NEW r \in Requests, SpawnMade(r)
  PROVE  OrphanInv'
<1>1. PICK i \in Ids, p \in Ports :
        /\ Spawn(i, p)
        /\ made' = [made EXCEPT ![r] = i]
        /\ IF MetricFails THEN Answer(r, 500, {}) ELSE Answer(r, 201, {i})
  BY DEF SpawnMade
<1>2. phase[r] = "entered" /\ made[r] = NoId /\ shown[r] = {}
  BY DEF SpawnMade, Handles, RequestInv, NothingYet
<1>3. MakersSay'
  BY <1>1 DEF SpawnMade, Handles, Answer, MetricFails, OrphanInv, MakersSay,
              RequestInv, RequestTypes
<1>4. DoneIsTold'
  <2>1. told' = told /\ phase' = [phase EXCEPT ![r] = "handled"]
        /\ \A q \in Requests \ {r} : shown'[q] = shown[q]
    BY <1>1 DEF SpawnMade, Handles, Answer, RequestInv, RequestTypes
  <2>. QED BY <2>1 DEF OrphanInv, DoneIsTold, RequestInv, RequestTypes
<1>5. AllHaveMakers'
  <2>1. instances' = instances \cup {i}
    BY <1>1 DEF Spawn
  <2>2. made'[r] = i /\ \A q \in Requests \ {r} : made'[q] = made[q]
    BY <1>1 DEF RequestInv, RequestTypes
  <2>3. ASSUME NEW j \in instances PROVE \E q \in Requests : made'[q] = j
    <3>1. j # NoId
      BY NullAssumption DEF IndInv, TypeOK
    <3>. QED BY <1>2, <2>2, <3>1 DEF OrphanInv, AllHaveMakers
  <2>. QED BY <2>1, <2>2, <2>3 DEF AllHaveMakers
<1>. QED BY <1>3, <1>4, <1>5 DEF OrphanInv

\* The steps that neither spawn nor respond.
LEMMA QuietKeeps ==
  ASSUME OrphanInv, instances' \subseteq instances, UNCHANGED <<made, told, metrics>>,
         \A q \in Requests : phase'[q] = "done" => phase[q] = "done",
         \A q \in Requests : phase[q] = "done" \/ made[q] # NoId =>
           shown'[q] = shown[q] /\ answer'[q] = answer[q]
  PROVE  OrphanInv'
BY DEF OrphanInv, MakersSay, DoneIsTold, AllHaveMakers

LEMMA OrphanInvNext ==
  RequestInv /\ IndInv /\ OrphanInv /\ [ApiNext]_<<vars, apiVars>> => OrphanInv'
<1>. SUFFICES ASSUME RequestInv, IndInv, OrphanInv, [ApiNext]_<<vars, apiVars>>
              PROVE  OrphanInv'
  OBVIOUS
<1>1. CASE EngineStarts \/ EngineStops \/ UNCHANGED <<vars, apiVars>>
  <2>1. instances' \subseteq instances
    BY <1>1 DEF EngineStarts, EngineStops, Start, Stop, vars
  <2>. QED
    BY <1>1, <2>1, QuietKeeps DEF EngineStarts, EngineStops, apiVars, request
<1>2. ASSUME NEW r \in Requests, NEW ask \in Asks, Enter(r, ask[1], ask[2])
      PROVE  OrphanInv'
  <2>1. \A q \in Requests : phase'[q] = "done" => phase[q] = "done"
    BY <1>2 DEF Enter, RequestInv, RequestTypes
  <2>. QED BY <1>2, <2>1, QuietKeeps DEF Enter, vars
<1>3. ASSUME NEW r \in Requests, Cancel(r) PROVE OrphanInv'
  <2>1. \A q \in Requests : phase'[q] = "done" => phase[q] = "done"
    BY <1>3 DEF Cancel, RequestInv, RequestTypes
  <2>. QED BY <1>3, <2>1, QuietKeeps DEF Cancel, vars
<1>4. ASSUME NEW r \in Requests, Respond(r) PROVE OrphanInv'
  <2>1. UNCHANGED <<instances, made, shown, answer, metrics>> /\ told' = told \cup shown[r]
    BY <1>4 DEF Respond, vars
  <2>2. \A q \in Requests : phase'[q] = "done" => phase[q] = "done" \/ q = r
    BY <1>4 DEF Respond, RequestInv, RequestTypes
  <2>. QED BY <2>1, <2>2 DEF OrphanInv, MakersSay, DoneIsTold, AllHaveMakers
<1>5. ASSUME NEW r \in Requests,
             \/ SpawnUnavailable(r) \/ SpawnConflict(r)
             \/ HandleDelete(r) \/ HandlePause(r) \/ HandleResume(r)
             \/ HandleGet(r) \/ HandleList(r)
      PROVE  OrphanInv'
  <2>1. Answered(r)
    BY <1>5, HandlerAnswers
  <2>2. phase[r] = "entered" /\ made[r] = NoId
    BY <2>1 DEF Answered, RequestInv, NothingYet
  <2>3. UNCHANGED <<made, told, metrics>>
    BY <1>5 DEF SpawnUnavailable, SpawnConflict, HandleDelete, HandlePause,
                HandleResume, HandleGet, HandleList, Handles
  <2>4. instances' \subseteq instances
    BY <1>5 DEF SpawnUnavailable, SpawnConflict, HandleDelete, HandlePause,
                HandleResume, HandleGet, HandleList, SpawnLimit, SpawnNoPorts,
                Refuse, Destroy, Pause, Resume, CallUnknown, PauseRefused,
                ResumeRefused, vars
  <2>5. \A q \in Requests : phase'[q] = "done" => phase[q] = "done"
    BY <2>1 DEF Answered, RequestInv, RequestTypes
  <2>6. \A q \in Requests : phase[q] = "done" \/ made[q] # NoId =>
          shown'[q] = shown[q] /\ answer'[q] = answer[q]
    BY <2>1, <2>2 DEF Answered
  <2>. QED BY <2>3, <2>4, <2>5, <2>6, QuietKeeps
<1>. QED BY <1>1, <1>2, <1>3, <1>4, <1>5, SpawnExplains DEF ApiNext

\* An instance nobody was told of has a request that is still open, was
\* cancelled, or failed on the gauge after the spawn; nothing else makes an
\* orphan (routes.py spawn_honeypot, middleware.py dispatch).
THEOREM ApiOrphansExplained == ApiSpec => []OrphansExplained
<1>1. IndInv /\ OrphanInv => OrphansExplained
  <2>. SUFFICES ASSUME IndInv, OrphanInv, NEW i \in instances \ told
                PROVE  \E r \in Requests :
                         /\ made[r] = i
                         /\ phase[r] = "done" => answer[r] = 500 /\ metrics = "collector"
    BY DEF OrphansExplained
  <2>1. PICK r \in Requests : made[r] = i
    BY DEF OrphanInv, AllHaveMakers
  <2>2. i # NoId
    BY NullAssumption DEF IndInv, TypeOK
  <2>. QED BY <2>1, <2>2 DEF OrphanInv, MakersSay, DoneIsTold
<1>. QED BY <1>1, OrphanInvInit, OrphanInvNext, ApiInvariant, PTL DEF ApiSpec

-----------------------------------------------------------------------------
(* The metrics. *)

DoneWith(a) == {r \in Requests : phase[r] = "done" /\ answer[r] = a}

\* Each request that was answered is in one of these sets, and only there.
CountInv ==
  /\ counted \in [Answers -> Nat]
  /\ \A a \in Answers : IsFiniteSet(DoneWith(a)) /\ counted[a] = Cardinality(DoneWith(a))
  /\ \A r \in Requests : phase[r] \in {"handled", "done"} => answer[r] \in Answers

Spawned == {i \in Ids : status[i] # "unborn"}

\* Destroy and Stop take from instances what they add to the destroyed: what
\* the gauge follows is the set of both, which only a spawn changes.
GaugeInv ==
  /\ IsFiniteSet(Spawned)
  /\ metrics = "gauges" => gauge = Cardinality(Spawned)

LEMMA CountInvInit == ApiInit => CountInv
<1>. SUFFICES ASSUME ApiInit PROVE CountInv
  OBVIOUS
<1>1. \A a \in Answers : DoneWith(a) = {}
  BY DEF ApiInit, DoneWith
<1>2. \A a \in Answers : IsFiniteSet(DoneWith(a)) /\ Cardinality(DoneWith(a)) = 0
  BY <1>1, FS_EmptySet, Zenon
<1>. QED BY <1>2 DEF ApiInit, CountInv

\* A step that lets no request become done, nor changes what one that is
\* handled or done was answered.
LEMMA CountKept ==
  ASSUME CountInv, counted' = counted,
         \A r \in Requests :
           /\ phase'[r] = "done" <=> phase[r] = "done"
           /\ phase[r] = "done" => answer'[r] = answer[r]
           /\ phase'[r] \in {"handled", "done"} => answer'[r] \in Answers
  PROVE  CountInv'
<1>1. ASSUME NEW a \in Answers PROVE DoneWith(a)' = DoneWith(a)
  BY DEF DoneWith
<1>2. \A a \in Answers :
        IsFiniteSet(DoneWith(a)') /\ counted'[a] = Cardinality(DoneWith(a)')
  BY <1>1 DEF CountInv
<1>. QED BY <1>2 DEF CountInv

LEMMA RespondCounts ==
  ASSUME RequestInv, CountInv, NEW r \in Requests, Respond(r)
  PROVE  CountInv'
<1>. DEFINE b == answer[r]
<1>1. /\ phase[r] = "handled" /\ phase' = [phase EXCEPT ![r] = "done"]
      /\ counted' = [counted EXCEPT ![b] = @ + 1]
      /\ answer' = answer
  BY DEF Respond, Counts
<1>2. b \in Answers
  BY <1>1 DEF CountInv
<1>3. phase \in [Requests -> {"new", "entered", "handled", "done", "cancelled"}]
  BY DEF RequestInv, RequestTypes
<1>4. counted' \in [Answers -> Nat]
  BY <1>1 DEF CountInv
<1>5. \A q \in Requests : phase'[q] \in {"handled", "done"} => answer'[q] \in Answers
  BY <1>1, <1>2, <1>3 DEF CountInv
<1>6. ASSUME NEW a \in Answers
      PROVE  IsFiniteSet(DoneWith(a)') /\ counted'[a] = Cardinality(DoneWith(a)')
  <2>1. IsFiniteSet(DoneWith(a)) /\ counted[a] = Cardinality(DoneWith(a))
        /\ counted[a] \in Nat
    BY DEF CountInv
  <2>2. CASE a = b
    <3>1. DoneWith(a)' = DoneWith(a) \cup {r} /\ r \notin DoneWith(a)
      BY <1>1, <1>3, <2>2 DEF DoneWith
    <3>2. /\ IsFiniteSet(DoneWith(a) \cup {r})
          /\ Cardinality(DoneWith(a) \cup {r}) = Cardinality(DoneWith(a)) + 1
      BY <2>1, <3>1, FS_AddElement
    <3>3. counted'[a] = counted[a] + 1
      BY <1>1, <2>2 DEF CountInv
    <3>. QED BY <2>1, <3>1, <3>2, <3>3
  <2>3. CASE a # b
    <3>1. DoneWith(a)' = DoneWith(a)
      BY <1>1, <1>3, <2>3 DEF DoneWith
    <3>2. counted'[a] = counted[a]
      BY <1>1, <2>3 DEF CountInv
    <3>. QED BY <2>1, <3>1, <3>2
  <2>. QED BY <2>2, <2>3
<1>. QED BY <1>4, <1>5, <1>6 DEF CountInv

\* Every handler answers with a status the collector counts.
LEMMA HandlersAnswerCodes ==
  ASSUME RequestTypes, NEW r \in Requests,
         \/ SpawnUnavailable(r) \/ SpawnConflict(r) \/ SpawnMade(r)
         \/ HandleDelete(r) \/ HandlePause(r) \/ HandleResume(r)
         \/ HandleGet(r) \/ HandleList(r)
  PROVE  answer'[r] \in Answers /\ counted' = counted
<1>. USE DEF Handles, Answer, RequestTypes, Answers
<1>1. CASE SpawnUnavailable(r) \/ SpawnConflict(r) \/ SpawnMade(r)
  BY <1>1 DEF SpawnUnavailable, SpawnConflict, SpawnMade
<1>2. CASE HandleDelete(r) \/ HandlePause(r) \/ HandleResume(r)
  BY <1>2 DEF HandleDelete, HandlePause, HandleResume
<1>3. CASE HandleGet(r) \/ HandleList(r)
  BY <1>3 DEF HandleGet, HandleList
<1>. QED BY <1>1, <1>2, <1>3

LEMMA CountInvNext ==
  RequestInv /\ IndInv /\ CountInv /\ [ApiNext]_<<vars, apiVars>> => CountInv'
<1>. SUFFICES ASSUME RequestInv, IndInv, CountInv, [ApiNext]_<<vars, apiVars>>
              PROVE  CountInv'
  OBVIOUS
<1>0. phase \in [Requests -> {"new", "entered", "handled", "done", "cancelled"}]
  BY DEF RequestInv, RequestTypes
<1>1. CASE EngineStarts \/ EngineStops \/ UNCHANGED <<vars, apiVars>>
  <2>1. UNCHANGED <<phase, answer, counted>>
    BY <1>1 DEF EngineStarts, EngineStops, apiVars, request
  <2>. QED BY <2>1, CountKept DEF CountInv
<1>2. ASSUME NEW r \in Requests, NEW ask \in Asks, Enter(r, ask[1], ask[2])
      PROVE  CountInv'
  <2>1. /\ UNCHANGED <<answer, counted>>
        /\ phase[r] = "new" /\ phase' = [phase EXCEPT ![r] = "entered"]
    BY <1>2 DEF Enter
  <2>2. \A q \in Requests :
          /\ phase'[q] = "done" <=> phase[q] = "done"
          /\ phase'[q] \in {"handled", "done"} => answer'[q] \in Answers
    BY <1>0, <2>1 DEF CountInv
  <2>. QED BY <2>1, <2>2, CountKept
<1>3. ASSUME NEW r \in Requests, Cancel(r) PROVE CountInv'
  <2>1. /\ UNCHANGED <<answer, counted>>
        /\ phase[r] \in {"entered", "handled"}
        /\ phase' = [phase EXCEPT ![r] = "cancelled"]
    BY <1>3 DEF Cancel
  <2>2. \A q \in Requests :
          /\ phase'[q] = "done" <=> phase[q] = "done"
          /\ phase'[q] \in {"handled", "done"} => answer'[q] \in Answers
    BY <1>0, <2>1 DEF CountInv
  <2>. QED BY <2>1, <2>2, CountKept
<1>4. ASSUME NEW r \in Requests, Respond(r) PROVE CountInv'
  BY <1>4, RespondCounts
<1>5. ASSUME NEW r \in Requests,
             \/ SpawnUnavailable(r) \/ SpawnConflict(r) \/ SpawnMade(r)
             \/ HandleDelete(r) \/ HandlePause(r) \/ HandleResume(r)
             \/ HandleGet(r) \/ HandleList(r)
      PROVE  CountInv'
  <2>1. Answered(r)
    BY <1>5, HandlerAnswers
  <2>2. answer'[r] \in Answers /\ counted' = counted
    BY <1>5, HandlersAnswerCodes DEF RequestInv
  <2>3. \A q \in Requests :
          /\ phase'[q] = "done" <=> phase[q] = "done"
          /\ phase[q] = "done" => answer'[q] = answer[q]
          /\ phase'[q] \in {"handled", "done"} => answer'[q] \in Answers
    BY <1>0, <2>1, <2>2 DEF Answered, CountInv
  <2>. QED BY <2>2, <2>3, CountKept
<1>. QED BY <1>1, <1>2, <1>3, <1>4, <1>5 DEF ApiNext

LEMMA GaugeInvInit == ApiInit => GaugeInv
<1>. SUFFICES ASSUME ApiInit PROVE GaugeInv
  OBVIOUS
<1>1. Spawned = {}
  BY DEF ApiInit, Init, Spawned
<1>2. IsFiniteSet(Spawned) /\ Cardinality(Spawned) = 0
  BY <1>1, FS_EmptySet, Zenon
<1>. QED BY <1>2 DEF ApiInit, GaugeInv

\* A step of the engine that registers no new instance spawns none.
LEMMA OnlySpawnSpawns ==
  ASSUME IndInv, [Next]_vars, instances' \subseteq instances
  PROVE  Spawned' = Spawned
<1>0. /\ status \in [Ids -> {"unborn", "active", "paused", "destroyed"}]
      /\ instances \subseteq Ids
      /\ \A i \in instances : status[i] # "unborn"
  BY DEF IndInv, TypeOK, StatusMatches, Live
<1>1. CASE Start \/ SpawnNotRunning \/ SpawnLimit \/ SpawnNoPorts \/ UNCHANGED vars
  BY <1>1 DEF Start, SpawnNotRunning, SpawnLimit, SpawnNoPorts, Refuse, Spawned, vars
<1>2. CASE Stop
  BY <1>0, <1>2 DEF Stop, Doomed, Spawned
<1>3. ASSUME NEW i \in Ids, Destroy(i) PROVE Spawned' = Spawned
  BY <1>0, <1>3 DEF Destroy, Spawned
<1>4. ASSUME NEW i \in Ids, Pause(i) \/ Resume(i) PROVE Spawned' = Spawned
  BY <1>0, <1>4 DEF Pause, Resume, Resumable, Spawned
<1>5. ASSUME NEW i \in Ids, CallUnknown(i) \/ PauseRefused(i) \/ ResumeRefused(i)
      PROVE  Spawned' = Spawned
  BY <1>5 DEF CallUnknown, PauseRefused, ResumeRefused, Refuse, Spawned
<1>6. ASSUME NEW i \in Ids, NEW p \in Ports, Spawn(i, p) PROVE FALSE
  BY <1>0, <1>6 DEF Spawn
<1>. QED BY <1>1, <1>2, <1>3, <1>4, <1>5, <1>6 DEF Next

\* A step of the interface that is no spawn leaves the gauge alone.
LEMMA OnlySpawnsGauge ==
  ASSUME [ApiNext]_<<vars, apiVars>>, \A r \in Requests : ~SpawnMade(r)
  PROVE  UNCHANGED <<metrics, gauge>> /\ instances' \subseteq instances
<1>1. CASE EngineStarts \/ EngineStops \/ UNCHANGED <<vars, apiVars>>
  BY <1>1 DEF EngineStarts, EngineStops, Start, Stop, apiVars, vars
<1>2. ASSUME NEW r \in Requests,
             Respond(r) \/ Cancel(r) \/ \E ask \in Asks : Enter(r, ask[1], ask[2])
      PROVE  UNCHANGED <<metrics, gauge, instances>>
  BY <1>2 DEF Respond, Cancel, Enter, vars
<1>3. ASSUME NEW r \in Requests,
             \/ SpawnUnavailable(r) \/ SpawnConflict(r)
             \/ HandleDelete(r) \/ HandlePause(r) \/ HandleResume(r)
             \/ HandleGet(r) \/ HandleList(r)
      PROVE  UNCHANGED <<metrics, gauge>> /\ instances' \subseteq instances
  <2>1. UNCHANGED <<metrics, gauge>>
    BY <1>3 DEF SpawnUnavailable, SpawnConflict, GaugeOnConflict, HandleDelete,
                HandlePause, HandleResume, HandleGet, HandleList, Handles
  <2>2. instances' \subseteq instances
    BY <1>3 DEF SpawnUnavailable, SpawnConflict, HandleDelete, HandlePause,
                HandleResume, HandleGet, HandleList, SpawnLimit, SpawnNoPorts,
                Refuse, Destroy, Pause, Resume, CallUnknown, PauseRefused,
                ResumeRefused, vars
  <2>. QED BY <2>1, <2>2
<1>. QED BY <1>1, <1>2, <1>3 DEF ApiNext

LEMMA SpawnGauges ==
  ASSUME IndInv, GaugeInv, NEW r \in Requests, SpawnMade(r)
  PROVE  GaugeInv'
<1>1. PICK i \in Ids, p \in Ports : Spawn(i, p)
  BY DEF SpawnMade
<1>2. metrics' = metrics /\ (metrics = "gauges" => gauge' = gauge + 1)
  BY DEF SpawnMade, Handles
<1>3. status \in [Ids -> {"unborn", "active", "paused", "destroyed"}]
  BY DEF IndInv, TypeOK
<1>4. Spawned' = Spawned \cup {i} /\ i \notin Spawned
  BY <1>1, <1>3 DEF Spawn, Spawned
<1>5. /\ IsFiniteSet(Spawned \cup {i})
      /\ Cardinality(Spawned \cup {i}) = Cardinality(Spawned) + 1
  BY <1>4, FS_AddElement DEF GaugeInv
<1>. QED BY <1>2, <1>4, <1>5 DEF GaugeInv

LEMMA GaugeInvNext ==
  RequestInv /\ IndInv /\ GaugeInv /\ [ApiNext]_<<vars, apiVars>> => GaugeInv'
<1>. SUFFICES ASSUME RequestInv, IndInv, GaugeInv, [ApiNext]_<<vars, apiVars>>
              PROVE  GaugeInv'
  OBVIOUS
<1>1. CASE \E r \in Requests : SpawnMade(r)
  BY <1>1, SpawnGauges
<1>2. CASE \A r \in Requests : ~SpawnMade(r)
  <2>1. UNCHANGED <<metrics, gauge>> /\ instances' \subseteq instances
    BY <1>2, OnlySpawnsGauge
  <2>2. Spawned' = Spawned
    BY <2>1, ApiSteps, OnlySpawnSpawns
  <2>. QED BY <2>1, <2>2 DEF GaugeInv
<1>. QED BY <1>1, <1>2

\* active_honeypots and the live instances: they differ by the destroyed.
LEMMA GaugeFollows == IndInv /\ GaugeInv => GaugeCountsSpawns
<1>. DEFINE Gone == {i \in Ids : status[i] = "destroyed"}
<1>. SUFFICES ASSUME IndInv, GaugeInv, metrics = "gauges"
              PROVE  gauge - Cardinality(instances) = Cardinality(Gone)
  BY DEF GaugeCountsSpawns
<1>1. Spawned = instances \cup Gone /\ instances \cap Gone = {}
  BY DEF IndInv, TypeOK, StatusMatches, Live, Spawned
<1>2. instances \in SUBSET Spawned /\ Gone \in SUBSET Spawned
  BY <1>1
<1>3. IsFiniteSet(instances) /\ IsFiniteSet(Gone)
  BY <1>2, FS_Subset DEF GaugeInv
<1>4. Cardinality(instances) \in Nat /\ Cardinality(Gone) \in Nat
  BY <1>3, FS_CardinalityType
<1>5. Cardinality(instances \cap Gone) = 0
  BY <1>1, FS_EmptySet, Zenon
<1>6. Cardinality(Spawned) = Cardinality(instances) + Cardinality(Gone)
  <2>1. Cardinality(instances \cup Gone)
          = Cardinality(instances) + Cardinality(Gone) - Cardinality(instances \cap Gone)
    BY <1>3, FS_Union
  <2>. HIDE DEF Gone
  <2>. QED BY <1>1, <1>4, <1>5, <2>1
<1>7. gauge = Cardinality(Spawned)
  BY DEF GaugeInv
<1>. HIDE DEF Gone
<1>. QED BY <1>4, <1>6, <1>7

\* The request counters and the gauge add up for any number of overlapping
\* requests and instances (middleware.py dispatch, routes.py spawn_honeypot).
THEOREM ApiMetricsAddUp == ApiSpec => []MetricsAddUp
<1>1. CountInv => RequestsCounted
  BY DEF CountInv, RequestsCounted, DoneWith
<1>2. IndInv /\ GaugeInv /\ CountInv => MetricsAddUp
  BY <1>1, GaugeFollows DEF MetricsAddUp
<1>. QED BY <1>2, CountInvInit, CountInvNext, GaugeInvInit, GaugeInvNext, ApiInvariant, PTL DEF ApiSpec

=============================================================================
