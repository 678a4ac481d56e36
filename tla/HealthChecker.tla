---------------------------- MODULE HealthChecker ----------------------------
(***************************************************************************)
(* monitoring/health.py, class HealthChecker, as api/routes.py uses it:    *)
(* one check asks all components at once, each in a task of its own, while *)
(* they change.  Durations, metadata and the wording of details are left   *)
(* out; so is a component whose health_check is cancelled.                 *)
(***************************************************************************)
EXTENDS Integers, FiniteSets

CONSTANTS
  Asked,         \* orchestrator, engine, rate_limiter, attacker_profiler
  Disk,          \* the disk's own check
  FreePercents,  \* free space, in percent; DISK_* are 10 and 20
  MaxChanges     \* bound: changes of a component or of the disk

HealthAssumption ==
  /\ Disk \notin Asked
  /\ FreePercents \subseteq 0 .. 100
  /\ MaxChanges \in Nat

VARIABLES
  start_time,  \* "unset", "monotonic", or the "datetime" of main.py's app.state
  condition,   \* of a component: "absent", "well", "ill", "broken"
  free,
  phase,       \* "new", "checking", "answered", "raised"
  found,       \* check -> status of its ComponentHealth, or Pending
  overall

\* History: the statuses each check could have found since it was asked for,
\* the changes, and whether the depth was one of the two known.
VARIABLES seen, changes, depthKnown

vars == <<start_time, condition, free, phase, found, overall, seen, changes, depthKnown>>

Checks == Asked \cup {Disk}
Pending == "pending"

\* An attribute of app.state may be missing; the engine's may not, which
\* changes nothing for the checks.
Init ==
  /\ start_time \in {"unset", "monotonic", "datetime"}
  /\ condition \in [Asked -> {"absent", "well", "ill", "broken"}]
  /\ free \in FreePercents
  /\ phase = "new"
  /\ found = [n \in Checks |-> Pending]
  /\ overall = Pending
  /\ seen = [n \in Checks |-> {}]
  /\ changes = 0
  /\ depthKnown = TRUE

-----------------------------------------------------------------------------
(* A definition named X_Y is X with the slip Y in it; it is used only to    *)
(* confirm that a property notices the slip.                               *)

\* check_orchestrator, check_engine, check_rate_limiter and
\* check_attacker_profiler: one that is not there is healthy, one that says
\* it is not is degraded, one that raises is unhealthy.
Asking(state) ==
  CASE state \in {"absent", "well"} -> "healthy"
    [] state = "ill" -> "degraded"
    [] state = "broken" -> "unhealthy"

\* check_disk_space
DiskSpace(percent) ==
  CASE percent < 10 -> "unhealthy" [] percent \in 10 .. 19 -> "degraded" [] OTHER -> "healthy"

Finding(n, conditions, percent) ==
  IF n = Disk THEN DiskSpace(percent) ELSE Asking(conditions[n])

\* _aggregate
Worst_Last(statuses) ==
  IF "degraded" \in statuses THEN "degraded"
  ELSE IF "unhealthy" \in statuses THEN "unhealthy" ELSE "healthy"
Worst(statuses) ==
  IF "unhealthy" \in statuses THEN "unhealthy"
  ELSE IF "degraded" \in statuses THEN "degraded" ELSE "healthy"

\* What the checks would find from now on joins what they might have found.
Noticed(conditions, percent) ==
  seen' = IF phase = "checking"
          THEN [n \in Checks |-> seen[n] \cup {Finding(n, conditions, percent)}]
          ELSE seen

\* A component's health_check says "healthy": False once it cannot read its
\* own state, and raises, for one, if it has none.
Change(n, state) ==
  /\ changes < MaxChanges
  /\ condition[n] \notin {"absent", state}
  /\ condition' = [condition EXCEPT ![n] = state]
  /\ changes' = changes + 1
  /\ Noticed(condition', free)
  /\ UNCHANGED <<start_time, free, phase, found, overall, depthKnown>>

Fill(percent) ==
  /\ changes < MaxChanges
  /\ percent # free
  /\ free' = percent
  /\ changes' = changes + 1
  /\ Noticed(condition, percent)
  /\ UNCHANGED <<start_time, condition, phase, found, overall, depthKnown>>

\* check() up to the gather of its tasks.
Begin(known) ==
  /\ phase = "new"
  /\ depthKnown' = known
  /\ phase' = IF known THEN "checking" ELSE "raised"
  /\ seen' = IF known THEN [n \in Checks |-> {Finding(n, condition, free)}] ELSE seen
  /\ UNCHANGED <<start_time, condition, free, found, overall, changes>>

\* The task of one check runs; an exception becomes a status in the check
\* itself, and would become one in gather.
Run(n) ==
  /\ phase = "checking"
  /\ found[n] = Pending
  /\ found' = [found EXCEPT ![n] = Finding(n, condition, free)]
  /\ UNCHANGED <<start_time, condition, free, phase, overall, seen, changes, depthKnown>>

\* The uptime is computed last: monotonic() minus a datetime is a TypeError.
Conclude ==
  /\ phase = "checking"
  /\ \A n \in Checks : found[n] # Pending
  /\ overall' = Worst({found[n] : n \in Checks})
  /\ phase' = IF start_time = "datetime" THEN "raised" ELSE "answered"
  /\ UNCHANGED <<start_time, condition, free, found, seen, changes, depthKnown>>

Next ==
  \/ \E n \in Asked, state \in {"well", "ill", "broken"} : Change(n, state)
  \/ \E percent \in FreePercents : Fill(percent)
  \/ \E known \in BOOLEAN : Begin(known)
  \/ \E n \in Checks : Run(n)
  \/ Conclude

Spec == Init /\ [][Next]_vars

-----------------------------------------------------------------------------
(* Properties *)

\* The answer is as bad as what was bad all the time, and no worse than what
\* was seen at some time while the checks ran side by side: what got better
\* or worse meanwhile may go either way.  No component can make check() fail:
\* only the caller's depth and start_time can.
HealthIsObserved ==
  /\ phase = "raised" => ~depthKnown \/ start_time = "datetime"
  /\ phase = "answered" =>
       /\ \A n \in Checks : seen[n] = {"unhealthy"} => overall = "unhealthy"
       /\ \A n \in Checks : "healthy" \notin seen[n] => overall # "healthy"
       /\ overall # "healthy" => \E n \in Checks : overall \in seen[n]

=============================================================================
