------------------------ MODULE HoneypotOrchestrator ------------------------
(***************************************************************************)
(* core/orchestrator.py, class HoneypotOrchestrator: the in-memory         *)
(* instance records behind /api/v1/honeypots, kept as an LRU cache, and    *)
(* their interaction counters.                                             *)
(*                                                                         *)
(* get_instance and destroy_instance pad their running time with a sleep   *)
(* between their effect and their return, so other calls run in between.   *)
(* _response_delay(...) is called without await and never suspends.        *)
(***************************************************************************)
EXTENDS Integers, Sequences, FiniteSets, SequencesExt

CONSTANTS
  Ids,              \* the uuid4 values instances are named by
  Callers,          \* tasks that call get_instance and destroy_instance
  MaxInstances,     \* _max_instances
  MaxInteractions,  \* _max_interactions
  NoCount           \* no entry in _interaction_counts

\* The constructor raises both limits to at least 1.
ASSUME LimitAssumption ==
  /\ MaxInstances \in Nat \ {0}
  /\ MaxInteractions \in Nat \ {0}
  /\ NoCount \notin Nat

VARIABLES
  order,      \* the keys of _instances, least recently touched first
  status,     \* HoneypotInstance.status, also of objects callers still hold
  counts,     \* _interaction_counts
  call,       \* Callers -> the padded call in progress
  (* What the program keeps no record of. *)
  evicted,    \* ids pushed out by create_instance
  destroyed,  \* id -> how many destroy calls found it
  strangers,  \* ids log_interaction was called for when not registered
  latest      \* {the id that was last created, or asked for and found}

vars ==
  <<order, status, counts, call, evicted, destroyed, strangers, latest>>

Registered == {order[k] : k \in DOMAIN order}

NoCall == [op |-> "none"]

Init ==
  /\ order = <<>>
  /\ status = [i \in Ids |-> "unborn"]
  /\ counts = [i \in Ids |-> NoCount]
  /\ call = [c \in Callers |-> NoCall]
  /\ evicted = {}
  /\ destroyed = [i \in Ids |-> 0]
  /\ strangers = {}
  /\ latest = {}

-----------------------------------------------------------------------------
(* A definition named X_Y is X with the slip Y in it; it is used only to    *)
(* confirm that a property notices the slip.                               *)

\* Where the key is, and the keys without it.
Position(i) == CHOOSE k \in DOMAIN order : order[k] = i
Others(i) == IF i \in Registered THEN RemoveAt(order, Position(i)) ELSE order

\* move_to_end
Touched_NotMoved(i) == order
Touched(i) == IF i \in Registered THEN Append(Others(i), i) ELSE order

Full_OffByOne == Len(order) > MaxInstances
Full == Len(order) >= MaxInstances

\* _interaction_counts once the entry of i is popped.
Popped_Kept(i) == counts
Popped(i) == [counts EXCEPT ![i] = NoCount]

\* Is the key in the dictionary.
Present_ByStatus(i) == status[i] # "unborn"
Present(i) == i \in Registered

Marked_Not(i) == status
Marked(i) == [status EXCEPT ![i] = "destroyed"]

AtCap_OffByOne(n) == n > MaxInteractions
AtCap(n) == n >= MaxInteractions

\* What get_instance, log_interaction and rotate_persona do to the record of
\* i, if there is one.
Touch(i) ==
  /\ order' = Touched(i)
  /\ latest' = IF i \in Registered THEN {i} ELSE latest

\* create_instance with a fresh uuid4.  The evicted object is popped, not
\* destroyed: whoever holds it still reads ACTIVE.
Create(i) ==
  /\ status[i] = "unborn"
  /\ order' = Append(IF Full THEN Tail(order) ELSE order, i)
  /\ counts' = [(IF Full THEN Popped(Head(order)) ELSE counts) EXCEPT ![i] = 0]
  /\ evicted' = IF Full THEN evicted \cup {Head(order)} ELSE evicted
  /\ status' = [status EXCEPT ![i] = "active"]
  /\ latest' = {i}
  /\ UNCHANGED <<call, destroyed, strangers>>

\* destroy_instance up to its sleep.
BeginDestroy(c, i) ==
  /\ call[c] = NoCall
  /\ status[i] # "unborn"
  /\ call' = [call EXCEPT ![c] = [op |-> "destroy", id |-> i, existed |-> Present(i)]]
  /\ IF Present(i)
     THEN /\ status' = Marked(i)
          /\ order' = Others(i)
          /\ counts' = Popped(i)
          /\ destroyed' = [destroyed EXCEPT ![i] = @ + 1]
     ELSE UNCHANGED <<status, order, counts, destroyed>>
  /\ UNCHANGED <<evicted, strangers, latest>>

\* get_instance up to its sleep: looking an instance up touches it.
BeginGet(c, i) ==
  /\ call[c] = NoCall
  /\ status[i] # "unborn"
  /\ call' = [call EXCEPT ![c] = [op |-> "get", id |-> i, existed |-> Present(i)]]
  /\ Touch(i)
  /\ UNCHANGED <<status, counts, evicted, destroyed, strangers>>

Return(c) ==
  /\ call[c] # NoCall
  /\ call' = [call EXCEPT ![c] = NoCall]
  /\ UNCHANGED <<order, status, counts, evicted, destroyed, strangers, latest>>

\* log_interaction: at the cap the counter starts over and the call is
\* refused without touching the instance.  An id that is not registered gets
\* an entry of its own, which nothing will ever pop.
LogInteraction(i) ==
  LET current == IF counts[i] = NoCount THEN 0 ELSE counts[i] IN
  /\ status[i] # "unborn"
  /\ IF AtCap(current)
     THEN counts' = [counts EXCEPT ![i] = 0] /\ UNCHANGED <<order, latest>>
     ELSE counts' = [counts EXCEPT ![i] = current + 1] /\ Touch(i)
  /\ strangers' = IF i \in Registered THEN strangers ELSE strangers \cup {i}
  /\ UNCHANGED <<status, call, evicted, destroyed>>

RotatePersona(i) ==
  /\ status[i] # "unborn"
  /\ Touch(i)
  /\ UNCHANGED <<status, counts, call, evicted, destroyed, strangers>>

Next ==
  \/ \E i \in Ids : Create(i) \/ LogInteraction(i) \/ RotatePersona(i)
  \/ \E c \in Callers, i \in Ids : BeginDestroy(c, i) \/ BeginGet(c, i)
  \/ \E c \in Callers : Return(c)

Spec == Init /\ [][Next]_vars

-----------------------------------------------------------------------------
(* Properties *)

\* Types, and the bounds create_instance and log_interaction keep: at most
\* _max_instances records, and no counter above _max_interactions.
TypeOK ==
  /\ order \in Seq(Ids) /\ Len(order) <= MaxInstances
  /\ status \in [Ids -> {"unborn", "active", "destroyed"}]
  /\ counts \in [Ids -> 0..MaxInteractions \cup {NoCount}]
  /\ call \in [Callers -> {NoCall} \cup
                 [op : {"get", "destroy"}, id : Ids, existed : BOOLEAN]]
  /\ evicted \in SUBSET Ids
  /\ destroyed \in [Ids -> Nat]
  /\ strangers \in SUBSET Ids
  /\ latest \in SUBSET Ids

\* Every registered instance has a counter; every other counter was made by
\* log_interaction for an id that was not registered.  Eviction and
\* destruction leak none.
CountsFollowInstances ==
  /\ \A i \in Registered : counts[i] # NoCount
  /\ \A i \in Ids \ Registered : counts[i] # NoCount => i \in strangers

\* However many calls race to destroy an instance, at most one finds it, and
\* none finds an instance that was evicted.
DestroyedOnce ==
  \A i \in Ids : destroyed[i] + (IF i \in evicted THEN 1 ELSE 0) <= 1

\* The bounds on memory hold, and a destroy is answered "yes" only once.
BoundedAndDestroyedOnce == TypeOK /\ DestroyedOnce

\* A call that is asleep holds an object that is still registered, or whose
\* status says destroyed, or that was evicted behind its back: eviction is
\* the only way for get_honeypot to report "active" for what is gone.
HeldObjectExplained ==
  \A c \in Callers : call[c] # NoCall /\ call[c].existed =>
    \/ call[c].id \in Registered
    \/ status[call[c].id] = "destroyed"
    \/ call[c].id \in evicted

\* Pairs of registered ids, the less recently touched first.
Older ==
  {pair \in Registered \X Registered : \E j, k \in DOMAIN order :
     j < k /\ pair = <<order[j], order[k]>>}

Gone == {i \in Ids : status[i] # "unborn"} \ Registered

\* The orchestrator implements the LRU registry; the order of the dictionary
\* is the order of last use.
Lru == INSTANCE LruRegistry WITH
  Keys     <- Ids,
  Capacity <- MaxInstances,
  present  <- Registered,
  older    <- Older,
  gone     <- Gone

LruSpec == Lru!LruSpec
=============================================================================
