----------------------------- MODULE HoneypotApi -----------------------------
(***************************************************************************)
(* The HTTP interface of the engine: the routes of api/routes.py behind    *)
(* monitoring/middleware.py.  A request passes the middleware, its handler *)
(* runs, and its answer passes the middleware again; other requests, the   *)
(* engine's own start and stop, and a cancellation may come in between.    *)
(* A handler awaits only coroutines that do not suspend, so its effect on  *)
(* the engine is one step: the action of HoneypotEngine it calls.          *)
(***************************************************************************)
EXTENDS HoneypotEngine

CONSTANT Requests

Answers == {200, 201, 404, 409, 500, 503}

VARIABLES
  op, target,   \* what a request asks, and the instance_id in its path
  phase,        \* "new", "entered", "handled", then "done" or "cancelled"
  answer, shown,\* status code and instances of the response
  metrics,      \* app.state.metrics: absent, a dict of gauges, or main.py's collector
  gauge,        \* active_honeypots in that dict
  counted       \* MetricsMiddleware's REQUEST_COUNT, by status

\* History: the instance a request spawned, the ids some answer named, and
\* the ids whose deletion had been acknowledged when a request came in.
VARIABLES made, told, ackedBefore

request == <<op, target, phase, answer, shown, made, told, ackedBefore>>
apiVars == <<request, metrics, gauge, counted>>

NoAnswer == 0

ApiInit ==
  /\ Init
  /\ op = [r \in Requests |-> "get"]
  /\ target = [r \in Requests |-> NoId]
  /\ phase = [r \in Requests |-> "new"]
  /\ answer = [r \in Requests |-> NoAnswer]
  /\ shown = [r \in Requests |-> {}]
  /\ metrics \in {"absent", "gauges", "collector"}
  /\ gauge = 0
  /\ counted = [a \in Answers |-> 0]
  /\ made = [r \in Requests |-> NoId]
  /\ told = {}
  /\ ackedBefore = [r \in Requests |-> {}]

-----------------------------------------------------------------------------
(* The middleware *)

Acknowledged(r) == phase[r] = "done" /\ op[r] = "delete" /\ answer[r] = 200

\* What a request may ask.
Asks == {<<o, NoId>> : o \in {"spawn", "list"}} \cup
        {<<o, i>> : o \in {"delete", "pause", "resume", "get"}, i \in Ids}

\* Timing, correlation id, metrics and logging on the way in.
Enter(r, o, i) ==
  /\ phase[r] = "new"
  /\ phase' = [phase EXCEPT ![r] = "entered"]
  /\ op' = [op EXCEPT ![r] = o]
  /\ target' = [target EXCEPT ![r] = i]
  /\ ackedBefore' = [ackedBefore EXCEPT ![r] =
                       {target[q] : q \in {x \in Requests : Acknowledged(x)}}]
  /\ UNCHANGED <<vars, answer, shown, made, told, metrics, gauge, counted>>

\* dispatch counts in a finally clause: a response by its status, an
\* exception as 500.
Counts_OnlyResponses(a) == a # 500
Counts(a) == TRUE

Respond(r) ==
  /\ phase[r] = "handled"
  /\ phase' = [phase EXCEPT ![r] = "done"]
  /\ counted' = IF Counts(answer[r]) THEN [counted EXCEPT ![answer[r]] = @ + 1] ELSE counted
  /\ told' = told \cup shown[r]
  /\ UNCHANGED <<vars, op, target, answer, shown, made, ackedBefore, metrics, gauge>>

\* The server cancels a request that is still going on.  CancelledError is no
\* Exception, so status is unbound in that clause: the UnboundLocalError
\* comes before anything is recorded.
Cancel(r) ==
  /\ phase[r] \in {"entered", "handled"}
  /\ phase' = [phase EXCEPT ![r] = "cancelled"]
  /\ UNCHANGED <<vars, op, target, answer, shown, made, told, ackedBefore,
                 metrics, gauge, counted>>

-----------------------------------------------------------------------------
(* The handlers *)

Handles(r, o) ==
  /\ phase[r] = "entered"
  /\ op[r] = o
  /\ phase' = [phase EXCEPT ![r] = "handled"]
  /\ UNCHANGED <<op, target, told, ackedBefore, metrics, counted>>

Answer(r, status_code, ids) ==
  /\ answer' = [answer EXCEPT ![r] = status_code]
  /\ shown' = [shown EXCEPT ![r] = ids]

SpawnUnavailable(r) ==
  /\ Handles(r, "spawn")
  /\ ~running
  /\ Answer(r, 503, {})
  /\ UNCHANGED <<vars, made, gauge>>

\* The gauge is set after the engine's answer, and never goes down.
GaugeOnConflict_Counts == IF metrics = "gauges" THEN gauge + 1 ELSE gauge
GaugeOnConflict == gauge

\* The engine's RuntimeError.
SpawnConflict(r) ==
  /\ Handles(r, "spawn")
  /\ SpawnLimit \/ SpawnNoPorts
  /\ Answer(r, 409, {})
  /\ gauge' = GaugeOnConflict
  /\ UNCHANGED made

\* metrics["active_honeypots"] raises on a collector, after the spawn, and
\* hasattr has to guard it when there is none.
MetricFails_Unguarded == metrics \in {"collector", "absent"}
MetricFails == metrics = "collector"

SpawnMade(r) ==
  /\ Handles(r, "spawn")
  /\ \E i \in Ids, p \in Ports :
       /\ Spawn(i, p)
       /\ made' = [made EXCEPT ![r] = i]
       /\ IF MetricFails THEN Answer(r, 500, {}) ELSE Answer(r, 201, {i})
  /\ gauge' = IF metrics = "gauges" THEN gauge + 1 ELSE gauge

\* The engine's KeyError is 404, its RuntimeError 409.
HandleDelete(r) ==
  /\ Handles(r, "delete")
  /\ \/ Destroy(target[r]) /\ Answer(r, 200, {})
     \/ CallUnknown(target[r]) /\ Answer(r, 404, {})
  /\ UNCHANGED <<made, gauge>>

HandlePause(r) ==
  /\ Handles(r, "pause")
  /\ \/ Pause(target[r]) /\ Answer(r, 200, {target[r]})
     \/ CallUnknown(target[r]) /\ Answer(r, 404, {})
     \/ PauseRefused(target[r]) /\ Answer(r, 409, {})
  /\ UNCHANGED <<made, gauge>>

HandleResume(r) ==
  /\ Handles(r, "resume")
  /\ \/ Resume(target[r]) /\ Answer(r, 200, {target[r]})
     \/ CallUnknown(target[r]) /\ Answer(r, 404, {})
     \/ ResumeRefused(target[r]) /\ Answer(r, 409, {})
  /\ UNCHANGED <<made, gauge>>

HandleGet(r) ==
  /\ Handles(r, "get")
  /\ IF target[r] \in instances THEN Answer(r, 200, {target[r]}) ELSE Answer(r, 404, {})
  /\ UNCHANGED <<vars, made, gauge>>

\* With or without the filter by status.
HandleList(r) ==
  /\ Handles(r, "list")
  /\ \E wanted \in {{"active"}, {"paused"}, {"active", "paused"}} :
       Answer(r, 200, {i \in instances : status[i] \in wanted})
  /\ UNCHANGED <<vars, made, gauge>>

\* The application that owns the engine, beside the requests.
EngineStarts == Start /\ UNCHANGED apiVars
EngineStops == Stop /\ UNCHANGED apiVars

ApiNext ==
  \/ EngineStarts
  \/ EngineStops
  \/ \E r \in Requests :
       \/ \E ask \in Asks : Enter(r, ask[1], ask[2])
       \/ SpawnUnavailable(r)
       \/ SpawnConflict(r)
       \/ SpawnMade(r)
       \/ HandleDelete(r)
       \/ HandlePause(r)
       \/ HandleResume(r)
       \/ HandleGet(r)
       \/ HandleList(r)
       \/ Respond(r)
       \/ Cancel(r)

ApiSpec == ApiInit /\ [][ApiNext]_<<vars, apiVars>>

-----------------------------------------------------------------------------
(* Properties *)

\* A live instance that no answer ever named was spawned by a request that is
\* not answered yet, was cancelled, or was answered 500 because app.state has
\* a collector where spawn_honeypot expects gauges.
OrphansExplained ==
  \A i \in instances \ told : \E r \in Requests :
    /\ made[r] = i
    /\ phase[r] = "done" => answer[r] = 500 /\ metrics = "collector"

\* Once a DELETE was acknowledged, no request that comes in later finds the
\* instance, and no other DELETE of it is acknowledged, whatever was going on
\* at the time.
DeletionIsFinal ==
  /\ \A r \in Requests : answer[r] \in {200, 201} =>
       shown[r] \cap ackedBefore[r] = {}
  /\ \A q, r \in Requests :
       Acknowledged(q) /\ Acknowledged(r) /\ q # r => target[q] # target[r]

\* Every finished request is counted once, under the status it was answered
\* with; a cancelled one is not counted at all (middleware.py, the finally).
RequestsCounted ==
  \A a \in Answers :
    counted[a] = Cardinality({r \in Requests : phase[r] = "done" /\ answer[r] = a})

\* active_honeypots counts the spawns that succeeded: it exceeds the live
\* instances by exactly those that were destroyed since.
GaugeCountsSpawns ==
  metrics = "gauges" =>
    gauge - Cardinality(instances) = Cardinality({i \in Ids : status[i] = "destroyed"})

\* What the metrics say adds up while requests overlap, fail and are cancelled.
MetricsAddUp == RequestsCounted /\ GaugeCountsSpawns

=============================================================================
