----------------------------- MODULE ThreatFeed -----------------------------
(***************************************************************************)
(* swarm/threat_feed.py, class ThreatFeed: publish/subscribe of threat     *)
(* updates by asyncio callbacks.                                           *)
(*                                                                         *)
(* publish() records the update and hands asyncio.gather one coroutine per *)
(* subscriber.  gather makes each a task; the event loop starts tasks in   *)
(* the order they were made.  A callback runs on its own, may publish      *)
(* itself and wait for that, and may be subscribed more than once.  The    *)
(* lock of publish() is held across no await: it is never contended.       *)
(***************************************************************************)
EXTENDS Integers, Sequences, FiniteSets, SequencesExt

CONSTANTS
  Callbacks,       \* the coroutine functions that get subscribed
  MaxHistory,      \* max_history
  MaxEvents,       \* bound: updates published in a behaviour
  MaxSubscribers,  \* bound: length of _subscribers
  Outside          \* a publisher that is not a callback

ASSUME FeedAssumption ==
  /\ MaxHistory \in Nat \ {0}
  /\ MaxEvents \in Nat
  /\ MaxSubscribers \in Nat

Events == 1 .. MaxEvents                  \* in the order they are published
Notices == Events \X (1 .. MaxSubscribers) \* <<event, place in its audience>>

VARIABLES
  subscribers,  \* _subscribers
  history,      \* _history, oldest first
  published,    \* _total_published, which is also the latest event
  served,       \* _total_subscribers_served
  loop,         \* the notices whose tasks the event loop has yet to start
  stage,        \* Notices -> where the task of _safe_notify is
  call,         \* Events -> where the publish() call is
  audience,     \* Events -> the subscribers gather was given
  parent        \* Events -> the notice whose callback publishes, or Outside

vars ==
  <<subscribers, history, published, served, loop, stage, call, audience, parent>>

Ended == {"served", "raised"}
Open == {"waiting", "cancelling"}

NoticesOf(e) == {e} \X DOMAIN audience[e]

Init ==
  /\ subscribers = <<>>
  /\ history = <<>>
  /\ published = 0
  /\ served = 0
  /\ loop = <<>>
  /\ stage = [n \in Notices |-> "none"]
  /\ call = [e \in Events |-> "none"]
  /\ audience = [e \in Events |-> <<>>]
  /\ parent = [e \in Events |-> Outside]

-----------------------------------------------------------------------------
(* A definition named X_Y is X with the slip Y in it; it is used only to    *)
(* confirm that a property notices the slip.                               *)

\* The callback waits for an update it publishes itself.
Publishing(n) == \E e \in Events : parent[e] = n /\ call[e] \in Open

Active(n) == stage[n] = "running" /\ ~Publishing(n)

\* deque(maxlen=max_history)
Recorded_Unbounded(e) == Append(history, e)
Recorded(e) ==
  IF Len(history) < MaxHistory THEN Append(history, e) ELSE Append(Tail(history), e)

\* The new tasks join the end of the loop's queue.
Scheduled_AtOnce(tasks) == tasks \o loop
Scheduled(tasks) == loop \o tasks

\* gather is done when each of its tasks is (return_exceptions=True).
Gathered_FirstError(e) ==
  \/ \A n \in NoticesOf(e) : stage[n] \in Ended
  \/ \E n \in NoticesOf(e) : stage[n] = "raised"
Gathered(e) == \A n \in NoticesOf(e) : stage[n] \in Ended

\* What becomes of a callback: _safe_notify counts it, or it raises (any
\* exception; a CancelledError, of its own or not, is no different here).
Outcomes_Retry == {"served", "queued"}  \* one that raised is to be retried
Outcomes == Ended

\* The calls that cancelling e's call cancels: e's own and, through gather
\* and the callbacks it runs, those they wait for.
Cancelled(e) ==
  LET reached[f \in Events] ==
        \/ f = e
        \/ /\ parent[f] # Outside
           /\ parent[f][1] < f
           /\ reached[parent[f][1]]
           /\ call[parent[f][1]] \in Open /\ stage[parent[f]] = "running"
  IN {f \in Events : reached[f] /\ call[f] = "waiting"}

-----------------------------------------------------------------------------
(* Operations *)

Subscribe(c) ==
  /\ Len(subscribers) < MaxSubscribers
  /\ subscribers' = Append(subscribers, c)
  /\ UNCHANGED <<history, published, served, loop, stage, call, audience, parent>>

\* Removes one registration of c, the oldest.
Unsubscribe(c) ==
  /\ \E k \in DOMAIN subscribers :
       /\ subscribers[k] = c
       /\ \A j \in 1 .. k - 1 : subscribers[j] # c
       /\ subscribers' = RemoveAt(subscribers, k)
  /\ UNCHANGED <<history, published, served, loop, stage, call, audience, parent>>

\* publish() up to the await of gather; by may be a callback that runs.
Publish(by) ==
  LET e == published + 1
      tasks == [k \in DOMAIN subscribers |-> <<e, k>>]
  IN
  /\ published < MaxEvents
  /\ by # Outside => Active(by)
  /\ history' = Recorded(e)
  /\ published' = e
  /\ audience' = [audience EXCEPT ![e] = subscribers]
  /\ parent' = [parent EXCEPT ![e] = by]
  /\ loop' = Scheduled(tasks)
  /\ stage' = [n \in Notices |->
                 IF n[1] = e /\ n[2] \in DOMAIN tasks THEN "queued" ELSE stage[n]]
  /\ call' = [call EXCEPT ![e] = IF tasks = <<>> THEN "returned" ELSE "waiting"]
  /\ UNCHANGED <<subscribers, served>>

\* _safe_notify starts its callback.  A task that was cancelled before it
\* started never does.
Begin ==
  /\ loop # <<>>
  /\ loop' = Tail(loop)
  /\ LET n == Head(loop) IN
       stage' = [stage EXCEPT ![n] =
                   IF call[n[1]] = "cancelling" THEN "raised" ELSE "running"]
  /\ UNCHANGED <<subscribers, history, published, served, call, audience, parent>>

\* A callback ends.  One that swallows its cancellation can still return.
Finish(n) ==
  /\ Active(n)
  /\ \E outcome \in Outcomes :
       /\ stage' = [stage EXCEPT ![n] = outcome]
       /\ served' = IF outcome = "served" THEN served + 1 ELSE served
  /\ UNCHANGED <<subscribers, history, published, loop, call, audience, parent>>

\* publish() resumes after gather: it logs the failures and returns.
Return(e) ==
  /\ call[e] \in Open
  /\ Gathered(e)
  /\ call' = [call EXCEPT ![e] = IF @ = "waiting" THEN "returned" ELSE "cancelled"]
  /\ UNCHANGED <<subscribers, history, published, served, loop, stage, audience, parent>>

\* The task that awaits publish(e) is cancelled; gather cancels its tasks.
Cancel(e) ==
  /\ call[e] = "waiting"
  /\ call' = [f \in Events |-> IF f \in Cancelled(e) THEN "cancelling" ELSE call[f]]
  /\ UNCHANGED <<subscribers, history, published, served, loop, stage, audience, parent>>

Next ==
  \/ \E c \in Callbacks : Subscribe(c) \/ Unsubscribe(c)
  \/ \E by \in Notices \cup {Outside} : Publish(by)
  \/ Begin
  \/ \E n \in Notices : Finish(n)
  \/ \E e \in Events : Return(e) \/ Cancel(e)

Spec == Init /\ [][Next]_vars

\* The event loop starts and resumes what is ready, and callbacks end.
Fairness ==
  /\ WF_vars(Begin)
  /\ \A n \in Notices : WF_vars(Finish(n))
  /\ \A e \in Events : WF_vars(Return(e))

FairSpec == Spec /\ Fairness

-----------------------------------------------------------------------------
(* Properties *)

\* Types, and that the rolling buffer keeps to max_history.
TypeOK ==
  /\ subscribers \in Seq(Callbacks) /\ Len(subscribers) <= MaxSubscribers
  /\ history \in Seq(Events) /\ Len(history) <= MaxHistory
  /\ published \in 0 .. MaxEvents
  /\ served \in Nat
  /\ loop \in Seq(Notices)
  /\ stage \in [Notices -> {"none", "queued", "running"} \cup Ended]
  /\ call \in [Events -> {"none", "returned", "cancelled"} \cup Open]
  /\ audience \in [Events -> Seq(Callbacks)]
  /\ parent \in [Events -> Notices \cup {Outside}]

\* Every subscriber begins the updates in the order of the history, also
\* when a callback publishes while others have not yet seen its own update:
\* an older update is never still to begin when a newer one has begun.
BeginInOrder ==
  \A n, m \in Notices :
    /\ n[1] < m[1]
    /\ stage[n] # "none" /\ stage[m] \notin {"none", "queued"}
    /\ audience[n[1]][n[2]] = audience[m[1]][m[2]]
    => stage[n] # "queued"

\* The history is bounded and subscribers follow its order.
OrderedAndBounded == TypeOK /\ BeginInOrder

\* e was published by a callback for f, or for one that f led to: e is in
\* every set that has f and all that is published for its members.
Under(e, f) ==
  \A S \in SUBSET Events :
    /\ f \in S
    /\ \A g \in Events : parent[g] # Outside /\ parent[g][1] \in S => g \in S
    => e \in S

\* When publish() is over, returned or cancelled, nothing it set off still
\* runs: neither its callbacks nor those of updates they published.
NothingOutlivesPublish ==
  \A f \in Events : call[f] \in {"returned", "cancelled"} =>
    \A e \in Events : Under(e, f) =>
      \A n \in NoticesOf(e) : stage[n] \in Ended

\* If callbacks end, every publish() ends, whatever they raise or publish.
PublishEnds ==
  \A e \in Events : call[e] = "waiting" ~> call[e] \in {"returned", "cancelled"}
=============================================================================
