# EmberHoneypot, specified

TLA+ models of EmberHoneypot, a Python 3.12 honeypot prototype that runs in one
process on one asyncio event loop. Each module is a translation of the code named
in it; TLC checks it on a small instance, and TLAPS proves the theorems of the
`*Proofs` modules for every value of the constants.

One fact shapes everything below. On one event loop a coroutine loses control only
at an `await` that suspends. `async with lock` suspends only when the lock is
taken, and the locks of this code are never held across a suspending await, so they
are never contended. `self._response_delay(...)` is called without `await` in
`core/engine.py` and `core/orchestrator.py`: it makes a coroutine object and drops
it. What looks like a long asynchronous operation is often one atomic step, and the
interleavings that remain are at HTTP requests, WebSocket sends, `sleep` and task
joins.

## Inventory

| Component | State | Operations | Hard about it | Correct when |
|---|---|---|---|---|
| `HoneypotEngine` (`core/engine.py`) | instances, port allocations, cursor, running | start, stop, spawn, destroy, pause, resume | long sequences of calls, port reuse, limits | dictionaries stay inverse, limits hold, ports rotate, dead objects stay dead |
| `FeedPublisher` (`swarm/feed_publisher.py`) | bounded queue, four counters, flush task | start, stop, publish, batch, flush, flush loop | everything: outages, timeouts after delivery, overlapping flushes, cancellation | an event is in one place, counters balance, no false delivery, queue drains |
| `HoneypotOrchestrator` (`core/orchestrator.py`) | LRU of records, interaction counters | create, destroy, get, log, rotate | eviction racing padded calls | LRU order, one destruction, no leaked counter |
| `RateLimiter` (`core/rate_limiter.py`) | request times per IP | check, is_allowed, remaining, reset, cleanup | lazy pruning, wall clock | limit in every window, nobody refused in error |
| `AttackFeedManager` (`api/websocket.py`) | connections, subscribers, event buffer | connect, subscribe, broadcast, serve, stop | replay overlapping broadcasts, clients that break in the middle | nothing twice, nothing missed, nothing leaked, everything ends |
| `ThreatFeed` (`swarm/threat_feed.py`) | subscribers, bounded history | subscribe, unsubscribe, publish, queries | subscribers change during a publish; nested and cancelled publishes | updates begin in order, nothing outlives its publish |
| routes and middleware (`api/routes.py`, `monitoring/middleware.py`) | request in progress, gauge, request counter | six routes over the engine, dispatch | overlap of requests, cancellation, an exception after the effect | deleted stays deleted, an orphan is explained, metrics add up |
| `SSHEmulator`, `HTTPEmulator` (`core/service_emulator.py`) | stage per session, user per connection, attempts per IP, log | start, stop, banner, auth, shell, request | sessions share ids, addresses, counters | the door opens as documented, what can be decoded is logged and can be attributed |
| `InteractionLogger` (`core/logger.py`), `AttackerProfiler` (`core/profiler.py`) | ring, timelines and numbers per session, profiles | log command, log login, timeline, fingerprint | eviction from the ring only, calls that raise, stale timelines | both logs agree, a profile misses no command |
| `ThreatScorer`, `AdaptiveDefense` (`intel/threat_scorer.py`, `swarm/adaptive_defense.py`) | action log, segmented IPs | score, posture, segment, lift, countermeasures | copied templates, expiry, a refused action after its effect, two tables of thresholds | isolation is on record, response matches risk |
| `CenturiaAdapter` (`swarm/centuria_adapter.py`) | connection, offline queues, memory | connect, disconnect, submit, broadcast | await between check and use | no accepted report is lost |
| `EmberArmorAdapter` (`integration/ember_adapter.py`) | token, audit buffer, breaker | authenticate, refresh, audit, enable, disable | overlapping logins, breaker opening during a call | a token lasts as announced, no audit event that validates is missed |
| `SonarIntelligenceClient` (`intel/sonar_enrichment.py`) | three call counters, HTTP client | enrich, assess, close | retries, classification, shapes of answers, cancellation | counters balance, no error becomes SAFE, calls end |
| `HealthChecker` (`monitoring/health.py`) | none but its start time | check | five checks side by side over changing components | the answer is something that was observed |
| `TTPExtractor`, `IOCGenerator` (`intel/`) | dictionaries built in one call | extract, generate | repeated and unordered interactions | records add up to the list |
| `DisinformationInjector` (`deception/`) | none | watermark, extract | a code that is not prefix-free | what can be read back is |

Interaction: `api/main.py` builds orchestrator, logger, limiter, `CenturiaAdapter` and
`EmberArmorAdapter` and calls them from HTTP handlers, one call per request;
`api/routes.py` does the same for the engine but is not mounted. The attack feed and
the feed publisher are driven by whoever captures an interaction. Three pairs are
composed: the routes call the engine (`HoneypotApi` extends `HoneypotEngine`, so a
handler is the engine's own action), the defense asks the scorer (`AdaptiveDefense`
extends `ThreatScorer`), and the profiler reads what the logger wrote
(`AttackerRecords`). All others share no state and are reached by method calls only, so
each is modelled with all callers it may have. `PROJECT.json` lists every component,
also those without behaviour, and every hazard at its line.

## Modules

| Module | What it is |
|---|---|
| `PortPool` | abstract: a pool that leases each port to one client at a time |
| `HoneypotEngine` | the engine; refines `PortPool` (`PoolSpec`) |
| `FeedPublisher` | the publisher, with Corporeus and the network as environment |
| `LruRegistry` | abstract: a registry that evicts what was used least recently |
| `HoneypotOrchestrator` | the orchestrator; refines `LruRegistry` (`LruSpec`) |
| `HoneypotOrchestratorProofs` | that refinement and the orchestrator's invariants |
| `RateLimiter` | the limiter, with the wall clock as environment |
| `AttackFeed` | connection manager and attack feed, with clients as environment |
| `ThreatFeed` | the in-process feed, its tasks and the event loop that runs them |
| `FeedPublisherProofs`, `RateLimiterProofs`, `AttackFeedProofs`, `ThreatFeedProofs` | theorems about these |
| `HoneypotApi` | the routes behind the metrics middleware, over `HoneypotEngine`, whose `Spec` it refines |
| `HoneypotApiProofs` | theorems about the engine and its port cursor, that refinement, and theorems about requests |
| `ServiceEmulator` | both emulators |
| `AttackerRecords` | logger and profiler |
| `ThreatScorer`, `AdaptiveDefense` | the arithmetic of a score, and the defense it drives |
| `CenturiaAdapter`, `ArmorAdapter` | the two adapters |
| `SonarClient` | both calls of the client over their retry loop, with the API as environment |
| `SonarClientProofs` | theorems about its counters, its retries and its verdicts |
| `HealthChecker` | one check at a time over changing components |
| `IntelExtractors` | both extractors over one list of interactions |
| `Watermark` | the writer and the reader of a mark in a payload, a digit a step |
| `MC*` | instances for TLC: symmetry sets; `MCServices` also composes nine components |
| `ServicesProofs` | theorems about the components `MCServices` composes |

In every module an action is a method, or the part of a method between two
suspending awaits; its comment says which. Variables carry the names of the
attributes in camel case. Variables that the program does not keep (what was
ingested, sent, accepted, evicted ...) are declared apart and only recorded, never
read by a guard, with two exceptions that restrict the environment and not the code:
`FeedPublisher` publishes each event once (`Offered`), and ids are never reused.
A definition named `X_Y` is `X` with the slip `Y` in it. No action uses it; it is
there to confirm that a property notices the slip.

### HoneypotEngine

`leased` and `seen` are history, for the property about the cursor. `instances` and
`status` are two variables because callers keep instance objects:
the registry and the object can disagree. `reply` records what the call returned or
raised. `FirstFree` says what the scan of `_allocate_port` finds: the free port with
the least offset from the cursor. `stop()` is one step, since none of the destroy
calls in its loop suspends. `ConfigAssumption` is what the validator of
`HoneypotConfig` accepts. The validator runs only when `port_range_end` is given; a
start above the default end escapes it, leaves no port to scan and makes every spawn
fail. That configuration is outside the model.

### FeedPublisher

A call is described by what it still has to post (`todo`) and by how far its POST is:
sent, or ingested by Corporeus. `up` means that Corporeus answers 200 in time. A POST
may fail while it is down whether it was ingested or not, which is the case of a
timeout. A cancelled loop gets its `CancelledError` at the next step of the event
loop, also when the result of its await has just arrived. Assumed: at most one
`stop()` at a time, `auto_flush_interval` above 0, `max_queue_size` at least 1 (the
constructor checks neither). While Corporeus is up a POST fails only if it holds an event
that cannot be encoded (`Unsendable`, `Fails`). Such an event is queued like any other, and
every batch it is in fails until the full queue drops it.

### HoneypotOrchestrator

`order` is the key order of the `OrderedDict`. `get_instance` and `destroy_instance`
end in a sleep that pads their running time; a call is therefore a beginning, with
all its effects, and a return.

### RateLimiter

Time is counted in ticks. The code only compares differences of times with the
window, so that ticks at least as fine as the window lose no behaviour but the
rounding of floats. `Tick` and `SetBack` are the wall clock. No method looks at the order of
a list of times, so a list is a set of entries; an entry carries a number besides its time,
since two checks may be accepted in the same tick.

### AttackFeed

Events are numbered in the order they are buffered. A broadcast is a pair of whom it is sending
to and whom it will; a handler is where in `handle_websocket` it is. Sends to a client return
while its link is up and raise once it is down. A message that the client had sent before can
still arrive then. A message that is JSON but no object, or names a channel no set can hold,
ends the handler while the link is up (`BadMessage`). The 1000 and 50 of the code are constants;
`FeedAssumption` keeps their only relation that matters, that half of the buffer covers a
replay.

### ThreatFeed

`publish()` is a beginning, which puts one task per subscriber into the queue of the
event loop, and a return, once `gather` is done. `loop` is that queue; `stage` is where
each task of `_safe_notify` is. A callback may publish and wait for it, which `parent`
records; cancelling a publish cancels what its callbacks wait for. A callback that raises
`CancelledError` of its own is treated like one that raises anything else: `gather`
collects both and only the log differs. A call is cancelled at most once.

### HoneypotApi

A request enters the middleware, its handler runs, its answer leaves through the
middleware, and `Cancel` may come before or after the handler. The handlers await only
coroutines that do not suspend, so the effect on the engine is one step and is literally
an action of `HoneypotEngine`. `metrics` is what `app.state.metrics` is: nothing, the
dictionary of gauges `routes.py` expects, or the collector `main.py` puts there, on which
the subscript raises after the spawn. `made`, `told` and `ackedBefore` are history.

### ServiceEmulator

A command is the set of tests it passes, in the order the code tries them: oddities of
the protocol, the table of answers (whole line, then first word), patterns. So
`Rule({"sudo", "exit"})` is "sudo", as in the code, where `sudo exit` does not log out.
Contexts keep their user and the emulator keeps a stage per session id; two contexts may
share an id. `denials`, `opened`, `shutAgain`, `silent`, `asked` and `crashes` are history.
Credentials are the argument `valid` of `TryLogin`: a bait pair, or any other. Both
emulators decode bytes before they do anything else; `Undecodable` is the call in which that
raises. Nothing of it is logged, so `silent`, the kinds of calls that left no entry, gets it.

### AttackerRecords, AdaptiveDefense, CenturiaAdapter, ArmorAdapter

No method of the logger, the profiler and the defense suspends; each is one step. Time is a
tick. The scorer's numbers are whole: 1/10000 in the parts, 1/1000000 in the composite, rounded
to 1/1000 like the report, where the code adds floats. `Never` stands for `expires_at is None`.
In the adapters a call is cut at its `asyncio.sleep`; the swarm's `connecting` is a `connect()`
asleep, the token is the time it was issued. `RejectAudit` is an audit call whose details
`AuditEntry` does not accept: it raises before anything is stored.

### SonarClient

A call is "new", then POSTing, sleeping before a retry, done or cancelled. `Returns` draws
one of the ways a POST may end, `Wake` ends a sleep. What the web said is reduced to
the word the parser looks for. A 200 without text is `"empty"`, whether its text is `''` or
`choices`, `message` or `content` is missing, for which the parser has defaults: an
enrichment reads it, a novelty check takes it for SAFE. JSON on which the parser raises (no
object, an empty list of choices, null content) is `"unreadable"`: ERROR or REVIEW.

### HealthChecker, Watermark, IntelExtractors

A health check starts five tasks that run in any order while `Change` and `Fill` alter what they
look at. `WritePiece` is a turn of the writer's join, the last one being the rest of the
payload, `ReadDigit` one of the reader's loop; `starts` only remembers where each piece was
written. Characters of the code that the payload had before may stand on both sides of the mark,
since a payload of several lines gets the mark as a line of its own (`stray`, `after`). The
extractors have the code's two nested loops. `Take` is a turn of the outer one, over a list with
repetitions; `MatchTechnique` and `MeetIndicator` are turns of the inner ones, in the order of
`_match_payload` and `_extract_all`: `matching` and `meeting` are what those still have to give.
`Report` sorts and answers. Interactions are objects; two of them may have the same id. `Naive`
are the timestamps without a zone: comparing one with one of the others raises `TypeError`,
which ends `generate_iocs` (`MeetUntimely`) and not `extract_ttp`. Regular expressions are
inputs, as what they find in a payload.

## Runs

| Run | Bounds | Shows |
|---|---|---|
| `EnginePorts` | 5 ids, 3 ports, limit 4 | types and cursor range, inverse dictionaries, status and registry agree, dead is final, exhaustion is real, refinement of the pool |
| `EngineLimit` | 6 ids, 4 ports, limit 3 | the instance limit, a full lap before a port is reused |
| `FeedSafety` | 3 events, one of which cannot be encoded, 2 publishers, 1 manual flusher, 2 starts, queue of 2, batches of 2, 1 outage | where events are, counters, the life cycle, how an event may be lost |
| `FeedLoss` | 2 events, 2 publishers | *violated*: an event queued during a flush is cleared with the rest |
| `FeedLiveness` | 2 events, one of which cannot be encoded, 1 publisher, 1 flusher, 2 starts | queue drains once nothing in it is unsendable, stop and publish return |
| `Orchestrator` | 4 ids, 2 callers, limit 2, cap 2 | the dictionary is an LRU registry; counters, destruction, stale objects |
| `RateLimits` | 2 IPs, limit 2, window 2, 4 instants, clock set back once | the limit in every window, exact bookkeeping, no undeserved refusal |
| `AttackSafety` | 2 clients, 3 events, buffer of 2, replay of 1 | nothing twice, nothing missed, nothing leaked |
| `AttackLiveness` | 2 clients, 2 events | broadcasts end, broken clients go, stop disconnects |
| `ThreatFeed` | 2 callbacks, 2 events, 2 registrations, history of 1 | order of delivery, nothing outlives a publish, publishes end |
| `Api` | 3 requests, 2 ids, 2 ports, limit 1 | orphans, finality of a DELETE, metrics |
| `Services` | nine components, see `Services.cfg` | what each of them promises, below |

`Services` checks components that share no state in one run: `unit` says which of them a
behaviour is about, the variables of the others are `Off`. TLC visits the sum of their
state spaces, not the product. Each of its properties is about one or two of them:

| Property | Says |
|---|---|
| `DoorPolicy` | an address is refused fewer than N times over all its sessions, and never again once the number of tries let it in |
| `TrailIsComplete` | every command and request that can be decoded and parsed is logged, also when answering it raises; whoever is in the shell was admitted or shares a session id with somebody who was |
| `CallsAccountedFor` | Sonar's counters, its retry discipline, and SAFE only of what a 200 answered, never of an error |
| `CallsEnd` | each Sonar call returns or is cancelled |
| `DefenseOnRecord` | segment actions match isolations, lifts and failures; countermeasures age from the import; response follows risk but for 0.35 to 0.4 |
| `AdaptersKeepFaith` | accepted intelligence is queued or remembered; tokens last; audit events that validate are stored once, others not at all |
| `RecordsAgree` | ring and timelines tell one story, profiles miss nothing |
| `HealthIsObserved` | the verdict lies between what was bad all the time and what was bad at some time |
| `ExtractionIsExact` | extracted records add up to their list, and only mixed timestamps make `generate_iocs` raise; a mark is read back exactly if no two of its digits run together and the payload was clean |

Why the bounds are enough. Ports: three make a scan start in the middle, wrap and
skip; five ids are spawned and destroyed often enough to reuse each port, and six ids
over four ports complete a lap with some ports still held. Queue: three events
overflow a queue of two, and two publishers, a manual flush, the loop and the final
flush give every pair of overlapping calls. LRU: four ids overflow a limit of two
twice, and two entries tell "moved to the end" from "not moved". Limiter: four
instants hold two disjoint windows and one that straddles them. Feed: the third event
overflows the buffer and is cut to exactly one replay while one client is being
replayed to and another served. `ThreatFeed`: two updates and two registrations let a
callback publish while the other has yet to begin, a callback be registered twice, and a
cancellation reach through a nested publish. `Api`: three requests are the least in which a
DELETE is acknowledged while another request of the same instance is between the two
halves of the middleware and a third comes in afterwards. `Services`: two connections share
an address, a session id, both or neither; two calls overlap in every await; a log of two
forgets; a clock of three instants puts a deployment before, at and after an expiry; three
digits hold a pair that runs together beside one that does not, with stray characters before
them, after them, both or neither; a list of three interactions holds a repetition out of
order; two ids are shared or not, and of three instants one is naive. In the runs of the
publisher one event cannot be encoded while the others can; in `FeedLoss` all can, so that its
trace is the documented queueing and nothing else. All ids, events and clients are
interchangeable where symmetry is used; runs with a liveness property use none.

The violated run is a disagreement of the code with its own documentation: `flush_queue`
copies the queue, awaits the POST and then clears the *queue*, not what it copied
(`swarm/feed_publisher.py:277`). What was queued meanwhile is gone, though the module says
that events are queued, that a full queue drops its oldest and that flushes retry.
`LossOnlyDuringFlush`, which holds and is proved, says it is the only such loss.

Other places where the code does something else than its text, or than one would expect.
The models do what the code does:

* `is_allowed` is called non-mutating by the docstring of `check`
  (`core/rate_limiter.py:53`) but stores the pruned list, and an empty one for an
  unknown IP.
* `get_recent` and the other queries that slice `[-limit:]` return everything for a limit of
  0 (`swarm/threat_feed.py:162`).
* Isolation does not end with its action's time to live, and is never put on record again;
  with a negative `default_ttl` it is not put on record at all
  (`swarm/adaptive_defense.py:244`).
* A countermeasure's `expires_at` is computed when the module is imported
  (`swarm/adaptive_defense.py:287`), so late ones are born expired.
* A MEDIUM risk between 0.35 and 0.4 gets no alert; one more technique seen with little
  confidence may lower a score (`intel/threat_scorer.py:132`).
* Queued intelligence is never submitted after a reconnect (`swarm/centuria_adapter.py:148`).
* A novelty check takes a 200 without text for SAFE (`intel/sonar_enrichment.py:511`), as
  `src/README.md:65` says. An answer on which the parser raises counts as a success, and null
  citations raise after the success was counted (line 321); an endpoint that cannot be reached
  is an ERROR, a 5xx is not retried, the pause between retries is linear.
* Bytes that are not UTF-8 make both emulators raise before they log anything
  (`core/service_emulator.py:544` and `1082`).
* `log_audit_event` raises on details that do not validate
  (`integration/ember_adapter.py:159`), though its docstring says failures are only logged.
* A message that is no object ends its client's handler (`api/websocket.py:174`).
* An event that cannot be encoded is queued, and keeps the others of its batch from being
  delivered (`swarm/feed_publisher.py:242`).
* A naive timestamp beside one with a zone makes `generate_iocs` raise
  (`intel/ioc_generator.py:94`).
* The logger's timelines are never evicted, only its ring (`core/logger.py:131`).
* `exit` behind `sudo` does not log out, `cd` is "not found" and `~.` leaves the session open
  (`core/service_emulator.py`).
* A cancelled request is not counted (`monitoring/middleware.py:127`), the gauge of
  `spawn_honeypot` never falls and raises on the collector of `main.py`
  (`api/routes.py:202`), and the health route passes a datetime that `check()` cannot subtract.
* An indicator's `first_seen` is that of the first interaction in the list, and may be later
  than `last_seen` (`intel/ioc_generator.py:94`).
* Digits of a watermark may run together when read, with one another and with what the
  payload has around them (`deception/disinformation_injector.py:122`).

### Fairness

`FeedPublisher`: every POST has a timeout, so it returns or fails; the event loop runs
tasks that are ready, and its timers fire. Nobody is obliged to publish, flush, start
or stop, and Corporeus need not come back: `QueueDrains` assumes that it stays up and
that nothing in the queue is impossible to encode.
`AttackFeed`: a send returns or raises, `wait_for` ends a receive after 30 seconds, and
tasks that are ready run. Clients need not connect, speak or break.
`ThreatFeed`: the event loop starts and resumes tasks, and callbacks end. The last is not
the code's doing: a callback that never ends holds its publish for ever. The other modules
have no liveness property; their calls are single steps or a sleep.

## Proofs

`HoneypotApiProofs` proves about the engine, from `ConfigAssumption` and `NullAssumption` only:
`EngineTypeOK`, `EnginePortsMatch`, `EngineStatusMatches`, `EngineStoppedIsEmpty`,
`EngineWithinLimit`, `EngineDestroyedIsFinal`, `EngineExhaustionIsReal` and
`EngineImplementsPool`.

`PortsMatch` is not inductive alone. `resume` and `pause` look at the status of an
object, `stop` destroys by status, and `spawn` must find its id unregistered; each needs
`StatusMatches`. `StatusMatches` in turn gives `StoppedIsEmpty`, since `stop` removes
exactly the live instances. Their conjunction with `TypeOK` is the inductive invariant
`IndInv`. The refinement needs it to know that destroying an instance frees exactly the
one port it holds, and that the number of holders is the number of instances, so that
the two limits coincide. `WithinLimit` is a second induction over the cardinality of
`instances`.

It proves `FullLap` from `LapHolds`. The property is about the time
between two leases of a port; the invariant replaces time by distance: every port that
lies further from the cursor than `p` has been taken since `p` was leased. When the
cursor is back at `p`, that is every other port. A port the scan passes over is taken
already and is in `seen` for that reason.

`FeedPublisherProofs` proves `PublisherOneHome`, `PublisherLifecycle` and
`PublisherLosesOnlyLate` from `PublisherAssumption`, for any events, tasks and queue size. `OneHome`
is not inductive: that an acknowledged event is nowhere else needs that it was the head of
one call's list only, so `Homes` adds that no two calls, and no call twice, have the same
event to post (`TodoApart`), and that a call that is not idle has one (`CallsProper`). That a
flush loses only latecomers needs `FlushesKnow`: while a batch is in flight, whatever is in
the queue is in the batch or came after it, and what Corporeus ingested it has received.
That stop() flushes alone needs `CancelledIsJoined`: the only cancelled loop is the one
stop() waits for, also when start() has made another. `PublisherStatsAreTrue` has an invariant
of its own, `StatsInv`, on top of that one: what the counters count are finite sets, a POST
that was ingested was received (`PostsHonest`), an event of a batch in flight still waits or
was settled meanwhile (`BatchesPlaced`), and until flushes overlap, an event that was counted
is in no batch in flight (`CreditedAreSettled`), so that nothing counts it again.

`RateLimiterProofs` proves `LimitInEveryWindow`, `NobodyRefusedInError` and `ListsAreExact`
from `LimiterAssumption`. What makes them inductive is `Kept` (a list holds accepted checks
only, numbered below the next) and `NothingForgotten`: while the clock only moves on, a list
holds every accepted check that is still in the window. A new check is the latest, so a
window it falls into lies within the one `check()` has just counted.

`AttackFeedProofs` proves `FeedSendsOnce` and `FeedMissesNothing` from `FeedAssumption`, whose
2 * ReplaySize <= BufferSize is needed: the invariant `FeedInv` says that the buffer is the end
of the sequence of all events, and a buffer cut to half must still cover a replay. It also
says that what is still to be sent to a client, by replay or broadcast, has not been sent.

`ThreatFeedProofs` proves `FeedInOrder`. Its invariant `OrderInv` says that the queue of the
event loop is ascending: tasks are started in the order they were queued, and a publish of
a callback queues its tasks behind all others. `FeedNothingOutlives` is about a whole tree of
nested publishes; its invariant `TreeInv` is local. An event has a parent only when a callback
that began published it (`ParentsBegan`), a callback that ended waits for nothing, so what it
published is over (`ChildrenFirst`), and a publish is over after all its callbacks have ended
(`SettledWhenOver`). The events whose publish is over are then closed under "published by
a callback of", and so hold the tree under each of them.

`HoneypotApiProofs` also proves `ApiImplementsEngine`: every step of the routes is a step of the
engine or leaves it alone, so every theorem about the engine holds behind the routes. For
`ApiDeletionIsFinal`, `RequestInv` relates a DELETE to the engine: once it is answered with 200 its
target is destroyed, which is final by the engine's invariant. For `ApiOrphansExplained`, each
live instance was told of or has the request that made it. `ApiMetricsAddUp` follows from
`CountInv` (each counter is the number of requests done with that answer) and `GaugeInv`: the
gauge is the number of ids ever spawned, which destroying and stopping do not change.

`HoneypotOrchestratorProofs` proves `OrchestratorImplementsLru`, `OrchestratorBounded`,
`OrchestratorCounts` and `OrchestratorHeldObjects` from `LimitAssumption`. The registry knows a
set and a relation where the code has the order of a dictionary, so lemmas about sequences
say first what taking an element out and appending one do to the pairs of a sequence.
`OrderInv` (no id twice, as many ids as places) makes the first key the least recent one and
the dictionary's length the number of ids; `Fates` says for every id that it is registered and
active, or was destroyed once, or evicted, or never made.

`SonarClientProofs` proves `SonarCallsAccountedFor`, `SonarRetryDiscipline` and
`SonarSafeOnlyIfAnswered` from `SonarAssumption` and a finite set of calls; together they are the
property that `Services` checks where the client is the component that runs. `Retrying` says
what a call that has not returned knows (each POST so far failed in transit, one per attempt),
`Settled` what its last POST decided, an answer without text and one on which the
parser raises told apart. A step moves one call only, so at most one call enters
the set that a counter counts.

`ServicesProofs` proves every safety property of the run `Services` for `MCServices`, from
`ServicesAssumption`, for any number of connections, calls, reports and events and without
looking at the commands, templates, profiles and payloads that `MCServices` lists. Each
component has an inductive invariant; a lemma says that only the component that runs moves.

* `HealthAnswersWereObserved`, from `HealthInv`: while a check goes on, what a component is
  now it was seen to be, and every answer it gave was seen when it was given.
* `AdaptersAreFaithful`, from `SwarmInv` (where a report is follows from the phase of its call,
  and the score of an address is that of one of its reports) and `ArmorInv` (tokens are issued
  no earlier than the calls that were answered before, an event whose details validate is in one
  place of the log). `ArmorAssumption` says that a login and an audit call are two different
  calls.
* `DoorPolicyIsKept` and `TrailIsKept`, from `EmulatorInv`: every denial is on the counter of
  its address, and a session is in the shell only if somebody was admitted to it. Whatever a
  call is, it is logged or its kind is in `silent`, which stays within banner, logins,
  unparsable requests and undecodable bytes.
* `EveryCallIsAccountedFor`, from the invariant of `SonarClientProofs`, instantiated. It assumes
  that finitely many calls are made, without which the counters would not be numbers.
* `DefenseStaysOnRecord`, from `DefenseInv`: the number of segment actions in the log, the
  lifts and the failures match, and a countermeasure has the expiry of its template. For the
  response, lemmas say that every part of a score is a whole number capped at its maximum, so
  that the composite is at most 1000, and which actions `Chosen` makes of it.
  `DefenseAssumption` says that profiles and techniques are what their classes admit
  (`Profiled`). A confidence is a float between 0 and 1 there (`models/honeypot.py:63`), so
  its mean is a number; that mean is a fold, which the prover cannot open, so `Profiled` says
  of it what TLC evaluates for the profiles of the run: `MeanConfidence(ttps) \in Nat`.
* `RecordsStayInStep`, from `RecordsInv`: no number is above its session's counter, the
  counter is the length of the timeline and the calls that raised, and an entry is in a timeline
  exactly if it was logged for that session. That a timeline is in order is said by its
  numbers, which rise in it and in the log of everything.
* `ExtractionStaysExact`, from `IntelInv` and `MarkInv`: for any payloads and patterns, lists
  and marks of any length. What the loops compute is an induction over data, which the prover
  does not do; so the models take their turns one by one and the invariants say what holds
  between two of them. `RecordsCounted`: one record for a session and technique that was shown
  so far, with the ids that show it as its sources and the confidence of the strongest
  (`Supported`). `IndicatorsCounted`: the entry of an indicator counts the pairs of turn and
  place where it was met so far (`Counts`); a new pair is the last of them, so `first_seen`
  stays that of the least. `LeftToDo` says that the inner loops are about the last turn. For the
  error, an indicator's `last_seen` is the time of an interaction in the list, so that two times
  that do not compare are both in it and the list is `Mixed` (`UntimelyIsMixed`). That a stable
  sort loses nothing is a lemma about places: the entries before one are fewer than all of them,
  an entry before another has the lower place, and by the pigeonhole principle every place is
  taken (`PlacesAreTaken`). For the mark, `MarkIsWritten` says which characters stand where, and
  `InStep` that as long as the digits read are the right ones, as many characters were read as
  were written for them, and that in a clean payload they are the right ones exactly as long as
  no digit read runs together with the next.

Only model-checked: liveness, which the prover does not do: `QueueDrains` and `CallsReturn` of the
publisher, `PublishEnds`, `CastEnds` and `ClientsAreReleased` of the feeds, and `CallsEnd` of the
Sonar client.

## Not modelled

Texts (banners, canned answers, pages, WAF rules, prompts, believable lies), random
generation, rendering of metrics and logs, regular expressions, data classes; queries that
change nothing. `HoneypotAuth` appends to a list; `PatternMatcher` compares with fixed tables.
Code that cannot run: `_calculate_threat_score` of `core/attacker_profiler.py` breaks off at the
end of the file and raises `NameError`, and the constructor of `core/interaction_logger.py`
raises `AttributeError`. Two configurations are outside the models: a port range that starts
above the default end, which nothing validates and which makes every spawn fail, and a
`max_queue_size` of 0, with which the publisher's `popleft` raises on the first event. A
broadcast of the attack feed may overtake another, so that clients see events out of order;
no property claims otherwise.

## Plan

1. Done: the engine and its routes, publisher, orchestrator, limiter, attack feed, threat
   feed, emulators, logger and profiler, scorer and defense, both adapters, Sonar client,
   health checks, extractors, watermark; proofs of every safety property of all of these.
2. `HoneypotAuth` behind the emulators; the handlers of `api/main.py` once they do more than
   pass a call on.
