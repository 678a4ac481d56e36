--------------------------- MODULE FeedPublisher ---------------------------
(***************************************************************************)
(* swarm/feed_publisher.py, class FeedPublisher: attack events are POSTed  *)
(* to Corporeus, and those that could not be are kept in a bounded queue   *)
(* that flushes retry in one batch.                                        *)
(*                                                                         *)
(* All coroutines share one event loop, so a step runs from one await to   *)
(* the next.  The awaits that suspend are the httpx POSTs, the sleep of    *)
(* the auto-flush loop and stop()'s wait for the cancelled loop; queue and *)
(* counters may have changed whenever one of them returns.                 *)
(*                                                                         *)
(* Corporeus and the network are outside the repository: a POST is         *)
(* ingested or not, and its caller then learns of the 200 or not.          *)
(***************************************************************************)
EXTENDS Integers, Sequences, FiniteSets

CONSTANTS
  Events,        \* the interactions there are to publish, each once
  Publishers,    \* tasks that call publish_attack or publish_batch
  FlushCallers,  \* tasks that call flush_queue by hand
  Loops,         \* task objects of _auto_flush_loop, one per start()
  Unsendable,    \* those json cannot encode, say of a payload of bytes
  MaxQueueSize,  \* max_queue_size
  MaxBatch,      \* bound: longest list given to publish_batch
  MaxOutages,    \* bound: times Corporeus goes away
  Stopper,       \* the stop() call, in its final flush
  NoTask         \* _flush_task is None

Flushers == FlushCallers \cup Loops \cup {Stopper}

ASSUME PublisherAssumption ==
  /\ Unsendable \subseteq Events
  /\ MaxQueueSize \in Nat \ {0}
  /\ MaxBatch \in Nat
  /\ MaxOutages \in Nat
  /\ NoTask \notin Loops
  /\ Stopper \notin FlushCallers \cup Loops
  /\ FlushCallers \cap Loops = {}

VARIABLES
  queue,           \* _queue
  totalPublished, totalQueued, totalDropped, totalDelivered,
  running,         \* _running
  flushTask,       \* _flush_task
  pub,             \* Publishers -> the publish call in progress
  flush,           \* Flushers -> the flush_queue call in progress
  loop,            \* Loops -> where the task of _auto_flush_loop is
  stopping,        \* where the stop() call is
  joining,         \* the task stop() awaits
  up,              \* Corporeus answers 200, in time
  outages,         \* how often it went away
  (* What happened to each event; the program keeps none of these. *)
  received,        \* times Corporeus ingested it (many = 2)
  credited,        \* times it was counted in _total_delivered (many = 2)
  acked,           \* answered 200 to the POST of its own
  dropped,         \* popped from the full queue
  cleared,         \* removed by a flush's queue.clear()
  during,          \* flusher -> events queued since its POST began
  overlapped       \* two flushes have been in flight at once

counters == <<totalPublished, totalQueued, totalDropped, totalDelivered>>
history  == <<received, credited, acked, dropped, cleared, during, overlapped>>
vars == <<queue, counters, running, flushTask, pub, flush, loop, stopping,
          joining, up, outages, history>>

Members(s) == {s[k] : k \in DOMAIN s}

\* A POST is "none", "sent" (not yet seen by Corporeus) or "ingested".
Idle    == [kind |-> "idle", todo |-> <<>>, wire |-> "none"]
NoFlush == [batch |-> <<>>, wire |-> "none"]

Flushing(f) == flush[f].wire # "none"
Alive(l) == loop[l] \in {"created", "sleeping", "flushing"}

Offered == {e \in Events :
  \/ \E c \in Publishers : e \in Members(pub[c].todo)
  \/ e \in acked \cup dropped \cup cleared \cup Members(queue)}

Batches == {es \in UNION {[1..n -> Events] : n \in 1..MaxBatch} :
              \A j, k \in DOMAIN es : es[j] = es[k] => j = k}

Often(n) == IF n = 2 THEN 2 ELSE n + 1

Init ==
  /\ queue = <<>>
  /\ totalPublished = 0 /\ totalQueued = 0
  /\ totalDropped = 0 /\ totalDelivered = 0
  /\ running = FALSE
  /\ flushTask = NoTask
  /\ pub = [c \in Publishers |-> Idle]
  /\ flush = [f \in Flushers |-> NoFlush]
  /\ loop = [l \in Loops |-> "absent"]
  /\ stopping = "no"
  /\ joining = NoTask
  /\ up = TRUE
  /\ outages = 0
  /\ received = [e \in Events |-> 0]
  /\ credited = [e \in Events |-> 0]
  /\ acked = {} /\ dropped = {} /\ cleared = {}
  /\ during = [f \in Flushers |-> {}]
  /\ overlapped = FALSE

-----------------------------------------------------------------------------
(* publish_attack and publish_batch *)

(* A definition named X_Y is X with the slip Y in it; it is used only to   *)
(* confirm that a property notices the slip.                               *)

\* Convert, count and start the POST of the first event of es.
BeginPost(c, kind, es) ==
  /\ pub' = [pub EXCEPT ![c] = [kind |-> kind, todo |-> es, wire |-> "sent"]]
  /\ totalPublished' = totalPublished + 1

NextPost_NoPop(c) == BeginPost(c, pub[c].kind, pub[c].todo)

\* The call is done with its first event: a batch goes on with the next one
\* without suspending, any other call returns.
NextPost(c) ==
  LET rest == Tail(pub[c].todo) IN
  IF rest = <<>>
  THEN pub' = [pub EXCEPT ![c] = Idle] /\ UNCHANGED totalPublished
  ELSE BeginPost(c, pub[c].kind, rest)

Full_OffByOne == Len(queue) > MaxQueueSize
Full == Len(queue) >= MaxQueueSize

\* deque(maxlen=max_queue_size) evicts on its own, counting nothing.
Pushed_Unbounded(s, e) == Append(queue, e)
Pushed(s, e) == Append(IF Len(s) < MaxQueueSize THEN s ELSE Tail(s), e)

\* The resilient fallback: drop the oldest event of a full queue, append e.
Enqueue(e) ==
  /\ queue' = Pushed(IF Full THEN Tail(queue) ELSE queue, e)
  /\ totalDropped' = IF Full THEN totalDropped + 1 ELSE totalDropped
  /\ dropped' = IF Full THEN dropped \cup {Head(queue)} ELSE dropped
  /\ totalQueued' = totalQueued + 1
  /\ during' = [f \in Flushers |->
                  IF Flushing(f) THEN during[f] \cup {e} ELSE during[f]]

PublishAttack(c, e) ==
  /\ pub[c] = Idle
  /\ e \notin Offered
  /\ BeginPost(c, "attack", <<e>>)
  /\ UNCHANGED <<queue, totalQueued, totalDropped, totalDelivered, running,
                 flushTask, flush, loop, stopping, joining, up, outages, history>>

PublishBatch(c, es) ==
  /\ pub[c] = Idle
  /\ Members(es) \cap Offered = {}
  /\ BeginPost(c, "batch", es)
  /\ UNCHANGED <<queue, totalQueued, totalDropped, totalDelivered, running,
                 flushTask, flush, loop, stopping, joining, up, outages, history>>

GivesUp_OnceIngested(wire) == wire = "ingested"

\* httpx ends a POST with an error whether Corporeus has seen it or not.
GivesUp(wire) == wire # "none"

\* No POST of these events can end in a 200: httpx raises while it encodes
\* them, or Corporeus does not answer.
Fails(es) == ~up \/ es \cap Unsendable # {}

\* The POST of a single event returns 200.
PostOk(c) ==
  LET e == Head(pub[c].todo) IN
  /\ pub[c].wire = "ingested"
  /\ totalDelivered' = totalDelivered + 1
  /\ credited' = [credited EXCEPT ![e] = Often(@)]
  /\ acked' = acked \cup {e}
  /\ NextPost(c)
  /\ UNCHANGED <<queue, totalQueued, totalDropped, running, flushTask, flush,
                 loop, stopping, joining, up, outages, received, dropped, cleared,
                 during, overlapped>>

\* It is refused, answered by another status or times out, which a POST that
\* was ingested may do as well; or it raised before anything was sent.
PostFails(c) ==
  /\ GivesUp(pub[c].wire)
  /\ Fails({Head(pub[c].todo)})
  /\ Enqueue(Head(pub[c].todo))
  /\ NextPost(c)
  /\ UNCHANGED <<totalDelivered, running, flushTask, flush, loop, stopping, joining,
                 up, outages, received, credited, acked, cleared, overlapped>>

-----------------------------------------------------------------------------
(* flush_queue *)

Snapshot_First == SubSeq(queue, 1, 1)

\* events = list(self._queue)
Snapshot == queue

\* The batch POST starts.
BeginFlush(f) ==
  /\ flush' = [flush EXCEPT ![f] = [batch |-> Snapshot, wire |-> "sent"]]
  /\ during' = [during EXCEPT ![f] = {}]
  /\ overlapped' = (overlapped \/ \E g \in Flushers : Flushing(g))
  /\ UNCHANGED <<received, credited, acked, dropped, cleared>>

\* The events a 200 answers for, and the queue after it.
Confirmed_Queue(f) == queue
Confirmed(f) == flush[f].batch

QueueAfterOk_Kept == queue
QueueAfterOk == <<>>

\* The batch POST returns 200: the whole queue is cleared, as it is now.
FlushOk(f) ==
  LET batch == Confirmed(f) IN
  /\ flush[f].wire = "ingested"
  /\ queue' = QueueAfterOk
  /\ totalDelivered' = totalDelivered + Len(batch)
  /\ credited' = [e \in Events |->
                    IF e \in Members(batch) THEN Often(credited[e]) ELSE credited[e]]
  /\ cleared' = cleared \cup (Members(queue) \ Members(QueueAfterOk))
  /\ flush' = [flush EXCEPT ![f] = NoFlush]
  /\ during' = [during EXCEPT ![f] = {}]
  /\ UNCHANGED <<totalPublished, totalQueued, totalDropped, received, acked,
                 dropped, overlapped>>

\* Any other end of the POST leaves the queue to the next flush, also if one
\* event in it can never be sent.
FlushFails(f) ==
  /\ GivesUp(flush[f].wire)
  /\ Fails(Members(flush[f].batch))
  /\ flush' = [flush EXCEPT ![f] = NoFlush]
  /\ during' = [during EXCEPT ![f] = {}]
  /\ UNCHANGED <<queue, counters, received, credited, acked, dropped, cleared,
                 overlapped>>

FlushReturns(f) == FlushOk(f) \/ FlushFails(f)

FlushByHand(f) ==
  /\ ~Flushing(f)
  /\ queue # <<>>
  /\ BeginFlush(f)
  /\ UNCHANGED <<queue, counters, running, flushTask, pub, loop, stopping, joining,
                 up, outages>>

FlushByHandReturns(f) ==
  /\ FlushReturns(f)
  /\ UNCHANGED <<running, flushTask, pub, loop, stopping, joining, up, outages>>

-----------------------------------------------------------------------------
(* _auto_flush_loop *)

AtTop_RunsOnce == "done"

\* The test at the top of the loop.
AtTop == IF running THEN "sleeping" ELSE "done"

LoopStarts(l) ==
  /\ loop[l] = "created"
  /\ loop' = [loop EXCEPT ![l] = AtTop]
  /\ UNCHANGED <<queue, counters, running, flushTask, pub, flush, stopping, joining,
                 up, outages, history>>

\* The sleep is over; an empty queue is not flushed.
LoopWakes(l) ==
  /\ loop[l] = "sleeping"
  /\ IF queue = <<>>
     THEN loop' = [loop EXCEPT ![l] = AtTop] /\ UNCHANGED <<flush, history>>
     ELSE loop' = [loop EXCEPT ![l] = "flushing"] /\ BeginFlush(l)
  /\ UNCHANGED <<queue, counters, running, flushTask, pub, stopping, joining, up,
                 outages>>

LoopFlushReturns(l) ==
  /\ loop[l] = "flushing"
  /\ FlushReturns(l)
  /\ loop' = [loop EXCEPT ![l] = AtTop]
  /\ UNCHANGED <<running, flushTask, pub, stopping, joining, up, outages>>

AfterCancel_Swallowed == AtTop
AfterCancel == "done"

\* The CancelledError reaches the task at its await, also when that await's
\* result had just arrived; a POST in flight is abandoned.
LoopCancelled(l) ==
  /\ loop[l] = "cancelled"
  /\ loop' = [loop EXCEPT ![l] = AfterCancel]
  /\ flush' = [flush EXCEPT ![l] = NoFlush]
  /\ during' = [during EXCEPT ![l] = {}]
  /\ UNCHANGED <<queue, counters, running, flushTask, pub, stopping, joining, up,
                 outages, received, credited, acked, dropped, cleared, overlapped>>

-----------------------------------------------------------------------------
(* start and stop *)

\* Every start() makes a new task, whatever became of the one before.
Start(l) ==
  /\ loop[l] = "absent"
  /\ running' = TRUE
  /\ flushTask' = l
  /\ loop' = [loop EXCEPT ![l] = "created"]
  /\ UNCHANGED <<queue, counters, pub, flush, stopping, joining, up, outages, history>>

\* stop()'s final flush_queue(), or its return if there is nothing to flush.
FinalFlush ==
  IF queue = <<>>
  THEN stopping' = "no" /\ UNCHANGED <<flush, history>>
  ELSE stopping' = "flushing" /\ BeginFlush(Stopper)

StopBegins ==
  /\ stopping = "no"
  /\ running' = FALSE
  /\ IF flushTask = NoTask
     THEN FinalFlush /\ UNCHANGED loop
     ELSE /\ stopping' = "joining"
          /\ loop' = [loop EXCEPT ![flushTask] =
                        IF @ = "done" THEN "done" ELSE "cancelled"]
          /\ UNCHANGED <<flush, history>>
  /\ joining' = flushTask
  /\ UNCHANGED <<queue, counters, flushTask, pub, up, outages>>

Joined_Skipped == TRUE
Joined == loop[joining] = "done"

\* The cancelled task has ended.  A start() in the meantime has replaced
\* _flush_task by a new task, which is forgotten here.
StopJoined ==
  /\ stopping = "joining"
  /\ Joined
  /\ joining' = NoTask
  /\ flushTask' = NoTask
  /\ FinalFlush
  /\ UNCHANGED <<queue, counters, running, pub, loop, up, outages>>

StopFlushReturns ==
  /\ stopping = "flushing"
  /\ FlushReturns(Stopper)
  /\ stopping' = "no"
  /\ UNCHANGED <<running, flushTask, pub, loop, joining, up, outages>>

-----------------------------------------------------------------------------
(* Corporeus (external) *)

Ingest(es) ==
  received' = [e \in Events |-> IF e \in es THEN Often(received[e]) ELSE received[e]]

IngestPost(c) ==
  /\ pub[c].wire = "sent"
  /\ ~Fails({Head(pub[c].todo)})
  /\ pub' = [pub EXCEPT ![c].wire = "ingested"]
  /\ Ingest({Head(pub[c].todo)})
  /\ UNCHANGED <<queue, counters, running, flushTask, flush, loop, stopping, joining, up,
                 outages, credited, acked, dropped, cleared, during, overlapped>>

IngestBatch(f) ==
  /\ flush[f].wire = "sent"
  /\ ~Fails(Members(flush[f].batch))
  /\ flush' = [flush EXCEPT ![f].wire = "ingested"]
  /\ Ingest(Members(flush[f].batch))
  /\ UNCHANGED <<queue, counters, running, flushTask, pub, loop, stopping, joining, up,
                 outages, credited, acked, dropped, cleared, during, overlapped>>

GoesDown ==
  /\ up
  /\ outages < MaxOutages
  /\ up' = FALSE
  /\ outages' = outages + 1
  /\ UNCHANGED <<queue, counters, running, flushTask, pub, flush, loop,
                 stopping, joining, history>>

ComesUp ==
  /\ ~up
  /\ up' = TRUE
  /\ UNCHANGED <<queue, counters, running, flushTask, pub, flush, loop,
                 stopping, joining, outages, history>>

-----------------------------------------------------------------------------
PublishNext(c) ==
  \/ \E e \in Events : PublishAttack(c, e)
  \/ \E es \in Batches : PublishBatch(c, es)
  \/ PostOk(c)
  \/ PostFails(c)
  \/ IngestPost(c)

LoopNext(l) ==
  \/ LoopStarts(l)
  \/ LoopWakes(l)
  \/ LoopFlushReturns(l)
  \/ LoopCancelled(l)

Next ==
  \/ \E c \in Publishers : PublishNext(c)
  \/ \E f \in FlushCallers : FlushByHand(f) \/ FlushByHandReturns(f)
  \/ \E l \in Loops : LoopNext(l) \/ Start(l)
  \/ StopBegins
  \/ StopJoined
  \/ StopFlushReturns
  \/ \E f \in Flushers : IngestBatch(f)
  \/ GoesDown
  \/ ComesUp

Spec == Init /\ [][Next]_vars

\* httpx bounds every POST by a timeout, the event loop runs every task that
\* is ready and every timer fires; a Corporeus that is up answers.  Nobody
\* has to publish, flush by hand, start or stop.
Fairness ==
  /\ \A c \in Publishers :
       WF_vars(PostOk(c) \/ PostFails(c)) /\ WF_vars(IngestPost(c))
  /\ \A f \in FlushCallers : WF_vars(FlushByHandReturns(f))
  /\ \A l \in Loops : WF_vars(LoopNext(l))
  /\ \A f \in Flushers : WF_vars(IngestBatch(f))
  /\ WF_vars(StopJoined)
  /\ WF_vars(StopFlushReturns)

FairSpec == Spec /\ Fairness

-----------------------------------------------------------------------------
(* Properties *)

\* Types, and the bound the queue keeps: however publishers and flushes
\* interleave, no more than max_queue_size events wait.
TypeOK ==
  /\ queue \in Seq(Events) /\ Len(queue) <= MaxQueueSize
  /\ \A n \in {totalPublished, totalQueued, totalDropped, totalDelivered} : n \in Nat
  /\ running \in BOOLEAN /\ up \in BOOLEAN /\ overlapped \in BOOLEAN
  /\ flushTask \in Loops \cup {NoTask}
  /\ pub \in [Publishers -> [kind : {"idle", "attack", "batch"},
                             todo : Seq(Events),
                             wire : {"none", "sent", "ingested"}]]
  /\ flush \in [Flushers -> [batch : Seq(Events), wire : {"none", "sent", "ingested"}]]
  /\ loop \in [Loops ->
       {"absent", "created", "sleeping", "flushing", "cancelled", "done"}]
  /\ stopping \in {"no", "joining", "flushing"}
  /\ joining \in Loops \cup {NoTask}
  /\ outages \in 0..MaxOutages
  /\ received \in [Events -> 0..2] /\ credited \in [Events -> 0..2]
  /\ {acked, dropped, cleared} \subseteq SUBSET Events
  /\ during \in [Flushers -> SUBSET Events]

\* However calls, flushes and timeouts interleave, an event is in one place
\* only: still to be posted by one call, once in the queue, acknowledged by
\* its own POST, dropped, or cleared.  A retry never queues it again.
OneHome ==
  /\ \A j, k \in DOMAIN queue : queue[j] = queue[k] => j = k
  /\ \A c \in Publishers :
       Members(pub[c].todo) \cap (Members(queue) \cup acked \cup dropped \cup cleared) = {}
  /\ Members(queue) \cap (acked \cup dropped \cup cleared) = {}
  /\ acked \cap (dropped \cup cleared) = {}
  /\ dropped \cap cleared = {}

\* get_stats() adds up at every await: each event counted as published is
\* being posted or was delivered at once or queued, and each queued one is
\* still queued, was dropped or was cleared by a flush.
CountersBalance ==
  /\ totalPublished = totalQueued + Cardinality(acked)
                      + Cardinality({c \in Publishers : pub[c] # Idle})
  /\ totalQueued = Len(queue) + totalDropped + Cardinality(cleared)
  /\ totalDropped = Cardinality(dropped)

\* No event is counted in _total_delivered that Corporeus has not ingested.
NoFalseDelivery == \A e \in Events : credited[e] > 0 => received[e] > 0

\* As long as no two flushes have been in flight at once, no event is
\* counted as delivered twice.
CountedOnceUnlessOverlapped ==
  ~overlapped => \A e \in Events : credited[e] <= 1

\* Nothing a flush sent is lost by it: an event leaves the queue without
\* having been ingested only by being dropped, or by being cleared by a
\* flush that was already in flight when it was queued.
LossOnlyDuringFlush ==
  [][\A e \in Members(queue) \ Members(queue') :
       \/ received[e] > 0
       \/ e \in dropped'
       \/ \E f \in Flushers : e \in during[f]]_vars

\* stop() joins the loop it cancelled before its own flush: the abandoned
\* batch POST of that loop cannot clear the queue under the final flush.
FinalFlushAfterJoin ==
  stopping = "flushing" => \A l \in Loops : loop[l] # "cancelled"

\* A publisher that is running has a flush task that nobody has cancelled,
\* even when start() comes between the two halves of stop().
RunningHasLoop == running => \E l \in Loops : Alive(l)

\* The statistics can be trusted while posts, flushes and outages overlap.
StatsAreTrue == CountersBalance /\ NoFalseDelivery /\ CountedOnceUnlessOverlapped

\* So can the life cycle: the bound of the queue holds, and start() and stop()
\* leave a loop exactly to a publisher that is running.
LifecycleIsSound == TypeOK /\ FinalFlushAfterJoin /\ RunningHasLoop

\* What the module's docstring says of resilience: an event that could not be
\* delivered is queued, and dropping the oldest of a full queue is the only
\* way to lose one.
OnlyFullQueueLoses ==
  \A e \in Events : e \in cleared => received[e] > 0

\* Once Corporeus stays up, the publisher stays started and nothing that
\* cannot be sent is queued, the queue is eventually empty for good.  One
\* event that cannot be encoded keeps all others in the queue with it.
QueueDrains ==
  <>[](up /\ running /\ Members(queue) \cap Unsendable = {}) => <>[](queue = <<>>)

\* stop() returns, whatever the loop it cancels and Corporeus are doing.
StopReturns == stopping # "no" ~> stopping = "no"

\* Every publish call returns.
PublishReturns == \A c \in Publishers : pub[c] # Idle ~> pub[c] = Idle

\* No caller of the publisher waits for ever.
CallsReturn == StopReturns /\ PublishReturns
=============================================================================
