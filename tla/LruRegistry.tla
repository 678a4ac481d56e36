---------------------------- MODULE LruRegistry ----------------------------
(***************************************************************************)
(* What the orchestrator promises about its instances: at most Capacity    *)
(* are registered, one more pushes out the one that was used least         *)
(* recently, and an id that has left never returns.  Recency is a relation *)
(* between ids; core/orchestrator.py keeps it as the order of a dictionary *)
(* (HoneypotOrchestrator).                                                 *)
(***************************************************************************)
EXTENDS Integers, FiniteSets

CONSTANTS Keys, Capacity

VARIABLES
  present,  \* the registered ids
  older,    \* <<i, j>>: both are present, i was last used before j
  gone,     \* ids that were registered once
  latest    \* {the id that was registered or used last}

lruVars == <<present, older, gone, latest>>

LruInit ==
  /\ present = {}
  /\ older = {}
  /\ gone = {}
  /\ latest = {}

Without(rel, i) == {pair \in rel : pair[1] # i /\ pair[2] # i}

\* i becomes the most recently used of S \cup {i}; rel ordered S.
MakeLatest(i, rel, S) ==
  /\ older' = Without(rel, i) \cup ((S \ {i}) \X {i})
  /\ latest' = {i}

LeastRecent(v) == v \in present /\ \A w \in present \ {v} : <<v, w>> \in older

Insert(i) ==
  /\ i \notin present \cup gone
  /\ Cardinality(present) < Capacity
  /\ present' = present \cup {i}
  /\ MakeLatest(i, older, present)
  /\ UNCHANGED gone

Replace(v, i) ==
  /\ i \notin present \cup gone
  /\ Cardinality(present) = Capacity
  /\ LeastRecent(v)
  /\ present' = (present \ {v}) \cup {i}
  /\ MakeLatest(i, Without(older, v), present \ {v})
  /\ gone' = gone \cup {v}

Use(i) ==
  /\ i \in present
  /\ MakeLatest(i, older, present)
  /\ UNCHANGED <<present, gone>>

Remove(i) ==
  /\ i \in present
  /\ present' = present \ {i}
  /\ older' = Without(older, i)
  /\ gone' = gone \cup {i}
  /\ UNCHANGED latest

LruNext ==
  \E i \in Keys :
    \/ Insert(i)
    \/ \E v \in Keys : Replace(v, i)
    \/ Use(i)
    \/ Remove(i)

LruSpec == LruInit /\ [][LruNext]_lruVars
=============================================================================
