-------------------------- MODULE ThreatFeedProofs --------------------------
(***************************************************************************)
(* Proofs about ThreatFeed for any callbacks and any bounds: the history   *)
(* keeps to its size, subscribers begin updates in its order, and when a   *)
(* publish is over nothing it set off still runs, whichever callbacks      *)
(* publish, raise or are cancelled meanwhile.                              *)
(***************************************************************************)
EXTENDS ThreatFeed, TLAPS

\* The event loop's queue holds the notices that wait, in order of events.
QueueAscends ==
  /\ \A j, k \in 1..Len(loop) : j < k => loop[j][1] <= loop[k][1]
  /\ \A k \in 1..Len(loop) : loop[k][1] <= published
  /\ \A n \in Notices : stage[n] = "queued" => \E k \in 1..Len(loop) : loop[k] = n

\* What has begun is no newer than what waits, and nothing has begun that was
\* not published.
BegunAreOldest ==
  \A n \in Notices : stage[n] \notin {"none", "queued"} =>
    /\ n[1] <= published
    /\ \A k \in 1..Len(loop) : n[1] <= loop[k][1]

\* The inductive invariant: BeginInOrder compares what a subscriber was given;
\* the loop orders all notices, whoever they are for.
OrderInv ==
  /\ TypeOK
  /\ QueueAscends
  /\ BegunAreOldest

-----------------------------------------------------------------------------
LEMMA RemoveAtType ==
  ASSUME NEW S, NEW s \in Seq(S), NEW k \in DOMAIN s
  PROVE  RemoveAt(s, k) \in Seq(S) /\ Len(RemoveAt(s, k)) = Len(s) - 1
<1>1. k \in 1..Len(s) /\ Len(s) \in Nat
  OBVIOUS
<1>2. /\ SubSeq(s, 1, k - 1) \in Seq(S) /\ Len(SubSeq(s, 1, k - 1)) = k - 1
      /\ SubSeq(s, k + 1, Len(s)) \in Seq(S)
      /\ Len(SubSeq(s, k + 1, Len(s))) = Len(s) - k
  BY <1>1
<1>3. ASSUME NEW a \in Seq(S), NEW b \in Seq(S)
      PROVE  a \o b \in Seq(S) /\ Len(a \o b) = Len(a) + Len(b)
  OBVIOUS
<1>4. RemoveAt(s, k) = SubSeq(s, 1, k - 1) \o SubSeq(s, k + 1, Len(s))
  BY DEF RemoveAt
<1>5. RemoveAt(s, k) \in Seq(S) /\ Len(RemoveAt(s, k)) = (k - 1) + (Len(s) - k)
  BY <1>2, <1>3, <1>4
<1>. QED BY <1>1, <1>5

LEMMA JoinProperties ==
  ASSUME NEW S, NEW a \in Seq(S), NEW b \in Seq(S)
  PROVE  /\ a \o b \in Seq(S) /\ Len(a \o b) = Len(a) + Len(b)
         /\ \A k \in 1..Len(a) : (a \o b)[k] = a[k]
         /\ \A k \in 1..Len(b) : (a \o b)[Len(a) + k] = b[k]
<1>1. Len(a) \in Nat /\ Len(b) \in Nat
  OBVIOUS
<1>2. ASSUME NEW k \in 1..Len(a) PROVE (a \o b)[k] = a[k]
  BY <1>1
<1>3. ASSUME NEW k \in 1..Len(b) PROVE (a \o b)[Len(a) + k] = b[k]
  BY <1>1
<1>. QED BY <1>1, <1>2, <1>3

LEMMA OrderInvInit == Init => OrderInv
<1>. SUFFICES ASSUME Init PROVE OrderInv
  OBVIOUS
<1>1. <<>> \in Seq(Callbacks) /\ <<>> \in Seq(Events) /\ <<>> \in Seq(Notices)
  OBVIOUS
<1>2. TypeOK
  BY <1>1, FeedAssumption DEF Init, TypeOK
<1>3. QueueAscends /\ BegunAreOldest
  BY DEF Init, QueueAscends, BegunAreOldest
<1>. QED BY <1>2, <1>3 DEF OrderInv

\* Steps that leave the loop alone and start nothing.
LEMMA NothingBegins ==
  ASSUME OrderInv, TypeOK', UNCHANGED <<loop, published>>,
         \A n \in Notices : /\ stage'[n] = "queued" => stage[n] = "queued"
                            /\ stage'[n] \notin {"none", "queued"} =>
                                 stage[n] \notin {"none", "queued"}
  PROVE  OrderInv'
BY DEF OrderInv, QueueAscends, BegunAreOldest

LEMMA SubscribersChange ==
  ASSUME OrderInv, NEW c \in Callbacks, Subscribe(c) \/ Unsubscribe(c)
  PROVE  OrderInv'
<1>1. UNCHANGED <<history, published, served, loop, stage, call, audience, parent>>
  BY DEF Subscribe, Unsubscribe
<1>2. subscribers' \in Seq(Callbacks) /\ Len(subscribers') <= MaxSubscribers
  <2>1. CASE Subscribe(c)
    BY <2>1, FeedAssumption DEF Subscribe, OrderInv, TypeOK
  <2>2. CASE Unsubscribe(c)
    <3>1. PICK k \in DOMAIN subscribers : subscribers' = RemoveAt(subscribers, k)
      BY <2>2 DEF Unsubscribe
    <3>2. /\ subscribers \in Seq(Callbacks) /\ Len(subscribers) <= MaxSubscribers
          /\ Len(subscribers) \in Nat
      BY DEF OrderInv, TypeOK
    <3>. QED BY <3>1, <3>2, RemoveAtType, FeedAssumption
  <2>. QED BY <2>1, <2>2
<1>3. TypeOK'
  BY <1>1, <1>2 DEF OrderInv, TypeOK
<1>. QED BY <1>1, <1>3, NothingBegins

LEMMA CallsMoveOn ==
  ASSUME OrderInv, NEW e \in Events, Return(e) \/ Cancel(e)
  PROVE  OrderInv'
<1>1. UNCHANGED <<subscribers, history, published, served, loop, stage, audience, parent>>
  BY DEF Return, Cancel
<1>2. call' \in [Events -> {"none", "returned", "cancelled"} \cup Open]
  BY DEF OrderInv, TypeOK, Return, Cancel, Open
<1>3. TypeOK'
  BY <1>1, <1>2 DEF OrderInv, TypeOK
<1>. QED BY <1>1, <1>3, NothingBegins

LEMMA FinishKeeps ==
  ASSUME OrderInv, NEW n \in Notices, Finish(n)
  PROVE  OrderInv'
<1>1. PICK outcome \in Ended :
        /\ stage' = [stage EXCEPT ![n] = outcome]
        /\ served' = IF outcome = "served" THEN served + 1 ELSE served
  BY DEF Finish, Outcomes
<1>2. stage[n] = "running"
  BY DEF Finish, Active
<1>3. UNCHANGED <<subscribers, history, published, loop, call, audience, parent>>
  BY DEF Finish
<1>4. served' \in Nat /\ stage' \in [Notices -> {"none", "queued", "running"} \cup Ended]
  BY <1>1 DEF OrderInv, TypeOK
<1>5. TypeOK'
  BY <1>3, <1>4 DEF OrderInv, TypeOK
<1>6. \A m \in Notices : /\ stage'[m] = "queued" => stage[m] = "queued"
                         /\ stage'[m] \notin {"none", "queued"} =>
                              stage[m] \notin {"none", "queued"}
  BY <1>1, <1>2 DEF OrderInv, TypeOK, Ended
<1>. QED BY <1>3, <1>5, <1>6, NothingBegins

LEMMA BeginKeeps ==
  ASSUME OrderInv, Begin
  PROVE  OrderInv'
<1>. DEFINE t == Tail(loop)
<1>1. loop \in Seq(Notices) /\ loop # <<>>
  BY DEF OrderInv, TypeOK, Begin
<1>2. PICK n \in Notices : n = loop[1] /\ n = Head(loop)
  BY <1>1
<1>3. /\ t \in Seq(Notices) /\ Len(loop) \in Nat \ {0} /\ Len(t) = Len(loop) - 1
      /\ \A k \in 1..Len(t) : t[k] = loop[k + 1]
  BY <1>1
<1>4. PICK s \in {"raised", "running"} : stage' = [stage EXCEPT ![n] = s]
  BY <1>2 DEF Begin
<1>5. loop' = t /\ UNCHANGED <<subscribers, history, published, served, call, audience, parent>>
  BY DEF Begin
<1>. HIDE DEF t
<1>6. \A k \in 1..Len(t) : k + 1 \in 1..Len(loop) /\ 1 < k + 1 /\ 1 \in 1..Len(loop)
  BY <1>3
<1>7. TypeOK'
  <2>1. stage' \in [Notices -> {"none", "queued", "running"} \cup Ended]
    BY <1>4 DEF OrderInv, TypeOK, Ended
  <2>. QED BY <1>3, <1>5, <2>1 DEF OrderInv, TypeOK
<1>8. QueueAscends'
  <2>1. ASSUME NEW j \in 1..Len(t), NEW k \in 1..Len(t), j < k
        PROVE  t[j][1] <= t[k][1]
    <3>1. j + 1 < k + 1
      BY <1>3, <2>1
    <3>2. loop[j + 1][1] <= loop[k + 1][1]
      BY <1>6, <3>1 DEF OrderInv, QueueAscends
    <3>. QED BY <1>3, <3>2
  <2>2. \A k \in 1..Len(t) : t[k][1] <= published
    BY <1>3, <1>6 DEF OrderInv, QueueAscends
  <2>3. ASSUME NEW m \in Notices, stage'[m] = "queued"
        PROVE  \E k \in 1..Len(t) : t[k] = m
    <3>1. m # n /\ stage[m] = "queued"
      BY <1>4, <2>3 DEF OrderInv, TypeOK
    <3>2. PICK k \in 1..Len(loop) : loop[k] = m
      BY <3>1 DEF OrderInv, QueueAscends
    <3>3. k # 1
      BY <1>2, <3>1, <3>2
    <3>4. k - 1 \in 1..Len(t) /\ (k - 1) + 1 = k
      BY <1>3, <3>3
    <3>5. t[k - 1] = m
      BY <1>3, <3>2, <3>4
    <3>. QED BY <3>4, <3>5
  <2>. QED BY <1>5, <2>1, <2>2, <2>3 DEF QueueAscends
<1>9. BegunAreOldest'
  <2>. SUFFICES ASSUME NEW m \in Notices, stage'[m] \notin {"none", "queued"}
                PROVE  m[1] <= published /\ \A k \in 1..Len(t) : m[1] <= t[k][1]
    BY <1>5 DEF BegunAreOldest
  <2>1. CASE m = n
    <3>1. n[1] <= published
      BY <1>2, <1>3 DEF OrderInv, QueueAscends
    <3>2. \A k \in 1..Len(t) : n[1] <= t[k][1]
      BY <1>2, <1>3, <1>6 DEF OrderInv, QueueAscends
    <3>. QED BY <2>1, <3>1, <3>2
  <2>2. CASE m # n
    <3>1. stage[m] \notin {"none", "queued"}
      BY <1>4, <2>2 DEF OrderInv, TypeOK
    <3>. QED BY <1>3, <1>6, <3>1 DEF OrderInv, BegunAreOldest
  <2>. QED BY <2>1, <2>2
<1>. QED BY <1>7, <1>8, <1>9 DEF OrderInv

\* The notices of a new event join the end of the loop, and it is the newest.
LEMMA PublishKeeps ==
  ASSUME OrderInv, NEW by \in Notices \cup {Outside}, Publish(by)
  PROVE  OrderInv'
<1>. DEFINE tasks == [k \in 1..Len(subscribers) |-> <<published + 1, k>>]
<1>1. PICK e \in Events : e = published + 1
  BY FeedAssumption DEF Publish, OrderInv, TypeOK, Events
<1>2. published \in Nat /\ e > published /\ Len(subscribers) \in 0..MaxSubscribers
      /\ subscribers \in Seq(Callbacks) /\ DOMAIN subscribers = 1..Len(subscribers)
  BY <1>1, FeedAssumption DEF OrderInv, TypeOK
<1>3. /\ tasks \in Seq(Notices) /\ Len(tasks) = Len(subscribers)
      /\ DOMAIN tasks = 1..Len(subscribers)
      /\ \A k \in 1..Len(tasks) : tasks[k] = <<e, k>> /\ tasks[k][1] = e
  <2>1. \A k \in 1..Len(subscribers) : <<published + 1, k>> \in Notices
    BY <1>1, <1>2, FeedAssumption DEF Notices
  <2>. QED BY <1>1, <1>2, <2>1
<1>4. /\ loop' = loop \o tasks
      /\ published' = e
      /\ stage' = [n \in Notices |->
                     IF n[1] = e /\ n[2] \in DOMAIN tasks THEN "queued" ELSE stage[n]]
      /\ history' = Recorded(e)
      /\ audience' = [audience EXCEPT ![e] = subscribers]
      /\ parent' = [parent EXCEPT ![e] = by]
      /\ call' = [call EXCEPT ![e] = IF tasks = <<>> THEN "returned" ELSE "waiting"]
      /\ UNCHANGED <<subscribers, served>>
  BY <1>1, <1>2 DEF Publish, Scheduled
<1>. HIDE DEF tasks
<1>5. /\ loop \in Seq(Notices) /\ loop' \in Seq(Notices)
      /\ Len(loop) \in Nat /\ Len(loop') = Len(loop) + Len(tasks)
      /\ \A k \in 1..Len(loop) : loop'[k] = loop[k]
      /\ \A k \in 1..Len(tasks) : loop'[Len(loop) + k] = tasks[k]
  <2>1. loop \in Seq(Notices) /\ Len(loop) \in Nat
    BY DEF OrderInv, TypeOK
  <2>2. tasks \in Seq(Notices)
    BY <1>3
  <2>3. /\ loop \o tasks \in Seq(Notices) /\ Len(loop \o tasks) = Len(loop) + Len(tasks)
        /\ \A k \in 1..Len(loop) : (loop \o tasks)[k] = loop[k]
        /\ \A k \in 1..Len(tasks) : (loop \o tasks)[Len(loop) + k] = tasks[k]
    BY <2>1, <2>2, JoinProperties
  <2>. QED BY <1>4, <2>1, <2>3
<1>6. \A k \in 1..Len(loop') : k \in 1..Len(loop) \/
        (k \notin 1..Len(loop) /\ k - Len(loop) \in 1..Len(tasks) /\ loop'[k][1] = e)
  <2>. SUFFICES ASSUME NEW k \in 1..Len(loop'), k \notin 1..Len(loop)
                PROVE  k - Len(loop) \in 1..Len(tasks) /\ loop'[k][1] = e
    OBVIOUS
  <2>1. k - Len(loop) \in 1..Len(tasks) /\ Len(loop) + (k - Len(loop)) = k
    BY <1>3, <1>5
  <2>2. loop'[k] = tasks[k - Len(loop)]
    BY <1>5, <2>1
  <2>. QED BY <1>3, <2>1, <2>2
<1>7. TypeOK'
  <2>1. history' \in Seq(Events) /\ Len(history') <= MaxHistory
    BY <1>4, FeedAssumption DEF OrderInv, TypeOK, Recorded
  <2>2. stage' \in [Notices -> {"none", "queued", "running"} \cup Ended]
    BY <1>4 DEF OrderInv, TypeOK
  <2>3. call' \in [Events -> {"none", "returned", "cancelled"} \cup Open]
    BY <1>4 DEF OrderInv, TypeOK, Open
  <2>4. /\ audience' \in [Events -> Seq(Callbacks)]
        /\ parent' \in [Events -> Notices \cup {Outside}]
    BY <1>2, <1>4 DEF OrderInv, TypeOK
  <2>5. published' \in 0..MaxEvents
    BY <1>4, FeedAssumption DEF Events
  <2>. QED
    BY <1>4, <1>5, <2>1, <2>2, <2>3, <2>4, <2>5 DEF OrderInv, TypeOK
<1>8. \A k \in 1..Len(loop') : loop'[k][1] <= e /\ (k \in 1..Len(loop) => loop[k][1] <= published)
  <2>. SUFFICES ASSUME NEW k \in 1..Len(loop')
                PROVE  loop'[k][1] <= e /\ (k \in 1..Len(loop) => loop[k][1] <= published)
    OBVIOUS
  <2>1. CASE k \in 1..Len(loop)
    <3>1. loop[k] \in Notices /\ loop[k][1] <= published
      BY <1>5, <2>1 DEF OrderInv, QueueAscends
    <3>2. loop[k][1] \in Int
      BY <3>1, FeedAssumption DEF Notices, Events
    <3>. QED BY <1>1, <1>2, <1>5, <2>1, <3>1, <3>2
  <2>2. CASE k \notin 1..Len(loop)
    BY <1>1, <1>2, <1>6, <2>2
  <2>. QED BY <2>1, <2>2
<1>9. QueueAscends'
  <2>1. ASSUME NEW j \in 1..Len(loop'), NEW k \in 1..Len(loop'), j < k
        PROVE  loop'[j][1] <= loop'[k][1]
    <3>1. CASE k \in 1..Len(loop)
      <4>1. j \in 1..Len(loop)
        BY <1>5, <2>1, <3>1
      <4>. QED BY <1>5, <2>1, <3>1, <4>1 DEF OrderInv, QueueAscends
    <3>2. CASE k \notin 1..Len(loop)
      BY <1>6, <1>8, <3>2
    <3>. QED BY <3>1, <3>2
  <2>2. ASSUME NEW m \in Notices, stage'[m] = "queued"
        PROVE  \E k \in 1..Len(loop') : loop'[k] = m
    <3>1. CASE m[1] = e /\ m[2] \in DOMAIN tasks
      <4>1. m[2] \in 1..Len(tasks) /\ m = <<e, m[2]>>
        BY <1>3, <3>1 DEF Notices
      <4>2. Len(loop) + m[2] \in 1..Len(loop')
        BY <1>3, <1>5, <4>1
      <4>3. loop'[Len(loop) + m[2]] = <<e, m[2]>>
        BY <1>3, <1>5, <4>1
      <4>. QED BY <4>1, <4>2, <4>3
    <3>2. CASE stage[m] = "queued"
      <4>1. PICK k \in 1..Len(loop) : loop[k] = m
        BY <3>2 DEF OrderInv, QueueAscends
      <4>2. k \in 1..Len(loop')
        BY <1>3, <1>5
      <4>. QED BY <1>5, <4>1, <4>2
    <3>. QED BY <1>4, <2>2, <3>1, <3>2
  <2>. QED BY <1>4, <1>8, <2>1, <2>2 DEF QueueAscends
<1>10. BegunAreOldest'
  <2>. SUFFICES ASSUME NEW m \in Notices, stage'[m] \notin {"none", "queued"}
                PROVE  m[1] <= e /\ \A k \in 1..Len(loop') : m[1] <= loop'[k][1]
    BY <1>4 DEF BegunAreOldest
  <2>1. stage[m] \notin {"none", "queued"}
    BY <1>4
  <2>2. /\ m[1] <= published /\ m[1] \in Int
        /\ \A k \in 1..Len(loop) : m[1] <= loop[k][1]
    BY <2>1, FeedAssumption DEF OrderInv, BegunAreOldest, Notices, Events
  <2>3. m[1] <= e
    BY <1>1, <1>2, <2>2
  <2>. QED BY <1>5, <1>6, <2>2, <2>3
<1>. QED BY <1>7, <1>9, <1>10 DEF OrderInv

LEMMA OrderInvNext == OrderInv /\ [Next]_vars => OrderInv'
<1>. SUFFICES ASSUME OrderInv, [Next]_vars PROVE OrderInv'
  OBVIOUS
<1>1. CASE UNCHANGED vars
  BY <1>1 DEF vars, OrderInv, TypeOK, QueueAscends, BegunAreOldest
<1>. QED
  BY <1>1, SubscribersChange, PublishKeeps, BeginKeeps, FinishKeeps, CallsMoveOn DEF Next

LEMMA OrderInvariant == Spec => []OrderInv
BY OrderInvInit, OrderInvNext, PTL DEF Spec

-----------------------------------------------------------------------------
\* The history never outgrows max_history, and every subscriber begins the
\* updates in its order, also those that callbacks publish while others have
\* not begun their own (swarm/threat_feed.py publish and _safe_notify).
THEOREM FeedInOrder == Spec => []OrderedAndBounded
<1>1. OrderInv => BeginInOrder
  <2>. SUFFICES ASSUME OrderInv, NEW n \in Notices, NEW m \in Notices,
                       n[1] < m[1], stage[m] \notin {"none", "queued"},
                       stage[n] = "queued"
                PROVE  FALSE
    BY DEF BeginInOrder
  <2>1. PICK k \in 1..Len(loop) : loop[k] = n
    BY DEF OrderInv, QueueAscends
  <2>2. m[1] <= n[1]
    BY <2>1 DEF OrderInv, BegunAreOldest
  <2>3. m[1] \in Int /\ n[1] \in Int
    BY FeedAssumption DEF Notices, Events
  <2>. QED BY <2>2, <2>3
<1>2. OrderInv => OrderedAndBounded
  BY <1>1 DEF OrderInv, OrderedAndBounded
<1>. QED BY <1>2, OrderInvariant, PTL

-----------------------------------------------------------------------------
(* The tree of nested publishes. *)

Over(e) == call[e] \in {"returned", "cancelled"}

\* The loop holds notices that wait, each once.
LoopWaits ==
  /\ \A k \in 1..Len(loop) : stage[loop[k]] = "queued"
  /\ \A j, k \in 1..Len(loop) : loop[j] = loop[k] => j = k

\* A notice that exists is one of the audience of its event.
NoticesPlaced ==
  \A n \in Notices : stage[n] # "none" =>
    n[1] <= published /\ n[2] \in DOMAIN audience[n[1]]

AudiencesFit == \A e \in Events : NoticesOf(e) \subseteq Notices

\* An event has a call, and may have a parent, once it is published.
EventsCome ==
  \A e \in Events :
    /\ e <= published => call[e] # "none"
    /\ parent[e] # Outside => e <= published

ParentsBegan ==
  \A e \in Events : parent[e] # Outside => stage[parent[e]] \notin {"none", "queued"}

\* A callback that has ended waits for nothing: what it published is over.
ChildrenFirst ==
  \A e \in Events : parent[e] # Outside /\ stage[parent[e]] \in Ended => Over(e)

SettledWhenOver ==
  \A e \in Events : Over(e) => \A n \in NoticesOf(e) : stage[n] \in Ended

\* The inductive invariant: NothingOutlivesPublish spans a whole tree, these
\* speak of one event and its parent, and of what the loop still holds.
TreeInv ==
  /\ LoopWaits
  /\ NoticesPlaced
  /\ AudiencesFit
  /\ EventsCome
  /\ ParentsBegan
  /\ ChildrenFirst
  /\ SettledWhenOver

LEMMA TreeInvInit == Init => TreeInv
<1>. SUFFICES ASSUME Init PROVE TreeInv
  OBVIOUS
<1>1. LoopWaits
  BY DEF Init, LoopWaits
<1>2. published = 0 /\ \A e \in Events : ~(e <= published)
  BY FeedAssumption DEF Init, Events
<1>. QED
  BY <1>1, <1>2 DEF Init, TreeInv, NoticesPlaced, AudiencesFit, EventsCome, ParentsBegan,
     ChildrenFirst, SettledWhenOver, Over, NoticesOf

\* What a step does not touch of the tree.
LEMMA TreeUntouched ==
  ASSUME TreeInv, UNCHANGED <<published, loop, stage, call, audience, parent>>
  PROVE  TreeInv'
BY DEF TreeInv, LoopWaits, NoticesPlaced, AudiencesFit, EventsCome, ParentsBegan,
       ChildrenFirst, SettledWhenOver, Over, NoticesOf

LEMMA TreeBegin ==
  ASSUME TypeOK, TreeInv, Begin
  PROVE  TreeInv'
<1>. DEFINE t == Tail(loop)
<1>1. loop \in Seq(Notices) /\ loop # <<>>
  BY DEF TypeOK, Begin
<1>2. PICK n \in Notices : n = loop[1] /\ n = Head(loop)
  BY <1>1
<1>3. /\ Len(loop) \in Nat \ {0} /\ Len(t) = Len(loop) - 1
      /\ \A k \in 1..Len(t) : t[k] = loop[k + 1]
  BY <1>1
<1>4. PICK s \in {"raised", "running"} : stage' = [stage EXCEPT ![n] = s]
  BY <1>2 DEF Begin
<1>5. loop' = t /\ UNCHANGED <<published, call, audience, parent>>
  BY DEF Begin
<1>. HIDE DEF t
<1>6. \A k \in 1..Len(t) : k + 1 \in 1..Len(loop) /\ k + 1 # 1 /\ 1 \in 1..Len(loop)
  BY <1>3
<1>7. stage \in [Notices -> {"none", "queued", "running"} \cup Ended]
  BY DEF TypeOK
<1>8. stage[n] = "queued"
  BY <1>2, <1>3 DEF TreeInv, LoopWaits
<1>9. \A k \in 1..Len(t) : t[k] = loop[k + 1] /\ loop[k + 1] # n
  BY <1>2, <1>3, <1>6 DEF TreeInv, LoopWaits
<1>10. LoopWaits'
  <2>1. \A k \in 1..Len(t) : t[k] \in Notices
    BY <1>1, <1>3, <1>6
  <2>2. \A k \in 1..Len(t) : stage'[t[k]] = "queued"
    BY <1>4, <1>6, <1>7, <1>9, <2>1 DEF TreeInv, LoopWaits
  <2>3. ASSUME NEW j \in 1..Len(t), NEW k \in 1..Len(t), t[j] = t[k] PROVE j = k
    <3>1. j + 1 = k + 1
      BY <1>6, <1>9, <2>3 DEF TreeInv, LoopWaits
    <3>. QED BY <3>1
  <2>. QED BY <1>5, <2>2, <2>3 DEF LoopWaits
<1>11. NoticesPlaced' /\ AudiencesFit' /\ EventsCome'
  BY <1>4, <1>5, <1>7, <1>8 DEF TreeInv, NoticesPlaced, AudiencesFit, EventsCome, NoticesOf
<1>12. \A e \in Events : parent[e] # Outside => parent[e] # n /\ parent[e] \in Notices
  BY <1>8 DEF TreeInv, ParentsBegan, TypeOK
<1>13. ParentsBegan' /\ ChildrenFirst'
  BY <1>4, <1>5, <1>7, <1>12 DEF TreeInv, ParentsBegan, ChildrenFirst, Over
<1>14. SettledWhenOver'
  <2>. SUFFICES ASSUME NEW e \in Events, Over(e), NEW m \in NoticesOf(e)
                PROVE  stage'[m] \in Ended
    BY <1>5 DEF SettledWhenOver, Over, NoticesOf
  <2>1. stage[m] \in Ended
    BY DEF TreeInv, SettledWhenOver
  <2>2. m # n
    BY <1>8, <2>1 DEF Ended
  <2>. QED BY <1>4, <2>1, <2>2
<1>. QED BY <1>10, <1>11, <1>13, <1>14 DEF TreeInv

LEMMA TreeFinish ==
  ASSUME TypeOK, TreeInv, NEW n \in Notices, Finish(n)
  PROVE  TreeInv'
<1>1. PICK outcome \in Ended : stage' = [stage EXCEPT ![n] = outcome]
  BY DEF Finish, Outcomes
<1>2. stage[n] = "running" /\ \A e \in Events : parent[e] = n => call[e] \notin Open
  BY DEF Finish, Active, Publishing
<1>3. UNCHANGED <<published, loop, call, audience, parent>>
  BY DEF Finish
<1>4. /\ stage \in [Notices -> {"none", "queued", "running"} \cup Ended]
      /\ call \in [Events -> {"none", "returned", "cancelled"} \cup Open]
  BY DEF TypeOK
<1>5. LoopWaits'
  <2>1. \A k \in 1..Len(loop) : loop[k] # n
    BY <1>2 DEF TreeInv, LoopWaits
  <2>. QED BY <1>1, <1>3, <2>1 DEF TreeInv, LoopWaits
<1>6. NoticesPlaced' /\ AudiencesFit' /\ EventsCome'
  BY <1>1, <1>2, <1>3, <1>4 DEF TreeInv, NoticesPlaced, AudiencesFit, EventsCome, NoticesOf
<1>7. ParentsBegan'
  BY <1>1, <1>3, <1>4 DEF TreeInv, ParentsBegan, TypeOK, Ended
<1>8. ChildrenFirst'
  <2>. SUFFICES ASSUME NEW e \in Events, parent[e] # Outside, stage'[parent[e]] \in Ended
                PROVE  Over(e)
    BY <1>3 DEF ChildrenFirst, Over
  <2>1. CASE parent[e] = n
    <3>1. call[e] # "none"
      BY DEF TreeInv, EventsCome
    <3>. QED BY <1>2, <1>4, <2>1, <3>1 DEF Over
  <2>2. CASE parent[e] # n
    BY <1>1, <1>4, <2>2 DEF TreeInv, ChildrenFirst, TypeOK
  <2>. QED BY <2>1, <2>2
<1>9. SettledWhenOver'
  <2>. SUFFICES ASSUME NEW e \in Events, Over(e), NEW m \in NoticesOf(e)
                PROVE  stage'[m] \in Ended
    BY <1>3 DEF SettledWhenOver, Over, NoticesOf
  <2>1. stage[m] \in Ended
    BY DEF TreeInv, SettledWhenOver
  <2>. QED BY <1>1, <1>2, <2>1 DEF Ended
<1>. QED BY <1>5, <1>6, <1>7, <1>8, <1>9 DEF TreeInv

LEMMA TreeReturn ==
  ASSUME TypeOK, TreeInv, NEW e \in Events, Return(e)
  PROVE  TreeInv'
<1>1. UNCHANGED <<published, loop, stage, audience, parent>>
  BY DEF Return
<1>2. PICK c \in {"returned", "cancelled"} : call' = [call EXCEPT ![e] = c]
  BY DEF Return
<1>3. call \in [Events -> {"none", "returned", "cancelled"} \cup Open]
  BY DEF TypeOK
<1>4. \A n \in NoticesOf(e) : stage[n] \in Ended
  BY DEF Return, Gathered
<1>5. LoopWaits' /\ NoticesPlaced' /\ AudiencesFit' /\ ParentsBegan'
  BY <1>1 DEF TreeInv, LoopWaits, NoticesPlaced, AudiencesFit, ParentsBegan, NoticesOf
<1>6. EventsCome' /\ ChildrenFirst'
  BY <1>1, <1>2, <1>3 DEF TreeInv, EventsCome, ChildrenFirst, Over
<1>7. SettledWhenOver'
  <2>1. \A f \in Events : NoticesOf(f)' = NoticesOf(f) /\ (Over(f)' => f = e \/ Over(f))
    BY <1>1, <1>2, <1>3 DEF NoticesOf, Over
  <2>. QED BY <1>1, <1>4, <2>1 DEF TreeInv, SettledWhenOver
<1>. QED BY <1>5, <1>6, <1>7 DEF TreeInv

\* A cancellation reaches calls that wait, and ends none.
LEMMA TreeCancel ==
  ASSUME TypeOK, TreeInv, NEW e \in Events, Cancel(e)
  PROVE  TreeInv'
<1>1. UNCHANGED <<published, loop, stage, audience, parent>>
  BY DEF Cancel
<1>2. \A f \in Cancelled(e) : call[f] = "waiting"
  BY DEF Cancelled
<1>3. \A f \in Events : /\ call'[f] = "none" <=> call[f] = "none"
                        /\ Over(f)' <=> Over(f)
  BY <1>2 DEF Cancel, Over
<1>4. LoopWaits' /\ NoticesPlaced' /\ AudiencesFit' /\ ParentsBegan'
  BY <1>1 DEF TreeInv, LoopWaits, NoticesPlaced, AudiencesFit, ParentsBegan, NoticesOf
<1>5. EventsCome' /\ ChildrenFirst'
  BY <1>1, <1>3 DEF TreeInv, EventsCome, ChildrenFirst
<1>6. SettledWhenOver'
  <2>1. \A f \in Events : NoticesOf(f)' = NoticesOf(f)
    BY <1>1 DEF NoticesOf
  <2>. QED BY <1>1, <1>3, <2>1 DEF TreeInv, SettledWhenOver
<1>. QED BY <1>4, <1>5, <1>6 DEF TreeInv

LEMMA TreePublish ==
  ASSUME OrderInv, TreeInv, NEW by \in Notices \cup {Outside}, Publish(by)
  PROVE  TreeInv'
<1>. DEFINE tasks == [k \in 1..Len(subscribers) |-> <<published + 1, k>>]
<1>1. PICK e \in Events : e = published + 1
  BY FeedAssumption DEF Publish, OrderInv, TypeOK, Events
<1>2. /\ published \in Nat /\ Len(subscribers) \in 0..MaxSubscribers
      /\ subscribers \in Seq(Callbacks) /\ DOMAIN subscribers = 1..Len(subscribers)
      /\ e \in Nat /\ ~(e <= published)
  BY <1>1, FeedAssumption DEF OrderInv, TypeOK
<1>3. /\ tasks \in Seq(Notices) /\ Len(tasks) = Len(subscribers)
      /\ DOMAIN tasks = 1..Len(subscribers)
      /\ \A k \in 1..Len(tasks) : tasks[k] = <<e, k>>
  <2>1. \A k \in 1..Len(subscribers) : <<published + 1, k>> \in Notices
    BY <1>1, <1>2, FeedAssumption DEF Notices
  <2>. QED BY <1>1, <1>2, <2>1
<1>4. /\ loop' = loop \o tasks
      /\ published' = e
      /\ stage' = [n \in Notices |->
                     IF n[1] = e /\ n[2] \in DOMAIN tasks THEN "queued" ELSE stage[n]]
      /\ audience' = [audience EXCEPT ![e] = subscribers]
      /\ parent' = [parent EXCEPT ![e] = by]
      /\ call' = [call EXCEPT ![e] = IF tasks = <<>> THEN "returned" ELSE "waiting"]
      /\ by # Outside => stage[by] = "running"
  BY <1>1, <1>2 DEF Publish, Scheduled, Active
<1>5. tasks = <<>> => DOMAIN subscribers = {}
  BY <1>2, <1>3
<1>. HIDE DEF tasks
<1>6. /\ loop \in Seq(Notices) /\ Len(loop) \in Nat
      /\ stage \in [Notices -> {"none", "queued", "running"} \cup Ended]
      /\ call \in [Events -> {"none", "returned", "cancelled"} \cup Open]
      /\ audience \in [Events -> Seq(Callbacks)]
      /\ parent \in [Events -> Notices \cup {Outside}]
  BY DEF OrderInv, TypeOK
<1>7. /\ Len(loop') = Len(loop) + Len(tasks)
      /\ \A k \in 1..Len(loop) : loop'[k] = loop[k]
      /\ \A k \in 1..Len(tasks) : loop'[Len(loop) + k] = tasks[k]
  <2>1. tasks \in Seq(Notices)
    BY <1>3
  <2>. QED BY <1>4, <1>6, <2>1, JoinProperties
\* Nothing of e existed before.
<1>8. \A n \in Notices : n[1] = e => stage[n] = "none"
  BY <1>2 DEF TreeInv, NoticesPlaced
<1>9. parent[e] = Outside
  BY <1>2 DEF TreeInv, EventsCome
<1>10. \A n \in Notices : stage[n] # "none" => n[1] # e /\ stage'[n] = stage[n]
  BY <1>4, <1>8
<1>11. LoopWaits'
  <2>1. \A k \in 1..Len(loop) : loop[k] \in Notices /\ stage[loop[k]] = "queued"
    BY <1>6 DEF TreeInv, LoopWaits
  <2>2. \A k \in 1..Len(loop) : stage'[loop[k]] = "queued" /\ loop[k][1] # e
    BY <1>10, <2>1
  <2>3. \A k \in 1..Len(tasks) : stage'[tasks[k]] = "queued" /\ tasks[k][1] = e
    <3>1. \A k \in 1..Len(tasks) : <<e, k>> \in Notices
      BY <1>2, <1>3, FeedAssumption DEF Notices
    <3>. QED BY <1>3, <1>4, <3>1
  <2>4. Len(tasks) \in Nat
    BY <1>2, <1>3
  <2>5. ASSUME NEW k \in 1..Len(loop'), k \notin 1..Len(loop)
        PROVE  k - Len(loop) \in 1..Len(tasks) /\ loop'[k] = tasks[k - Len(loop)]
    <3>1. k - Len(loop) \in 1..Len(tasks) /\ Len(loop) + (k - Len(loop)) = k
      BY <1>6, <1>7, <2>4, <2>5
    <3>. QED BY <1>7, <3>1
  <2>6. \A k \in 1..Len(loop') : stage'[loop'[k]] = "queued"
    BY <1>7, <2>2, <2>3, <2>5
  <2>7. ASSUME NEW j \in 1..Len(loop'), NEW k \in 1..Len(loop'), loop'[j] = loop'[k]
        PROVE  j = k
    <3>1. CASE j \in 1..Len(loop) /\ k \in 1..Len(loop)
      BY <1>7, <2>7, <3>1 DEF TreeInv, LoopWaits
    <3>2. CASE j \notin 1..Len(loop) /\ k \notin 1..Len(loop)
      <4>1. /\ j - Len(loop) \in 1..Len(tasks) /\ k - Len(loop) \in 1..Len(tasks)
            /\ tasks[j - Len(loop)] = tasks[k - Len(loop)]
        BY <2>5, <2>7, <3>2
      <4>2. j - Len(loop) = k - Len(loop)
        BY <1>3, <4>1
      <4>. QED BY <1>6, <4>2
    <3>3. CASE (j \in 1..Len(loop)) # (k \in 1..Len(loop))
      BY <1>7, <2>2, <2>3, <2>5, <2>7, <3>3
    <3>. QED BY <3>1, <3>2, <3>3
  <2>. QED BY <2>6, <2>7 DEF LoopWaits
<1>12. NoticesPlaced'
  <2>. SUFFICES ASSUME NEW n \in Notices, stage'[n] # "none"
                PROVE  n[1] <= e /\ n[2] \in DOMAIN audience'[n[1]]
    BY <1>4 DEF NoticesPlaced
  <2>1. CASE n[1] = e /\ n[2] \in DOMAIN tasks
    BY <1>2, <1>3, <1>4, <1>6, <2>1
  <2>2. CASE ~(n[1] = e /\ n[2] \in DOMAIN tasks)
    <3>1. stage[n] # "none" /\ n[1] # e /\ n[1] \in Events
      BY <1>4, <1>10, <2>2 DEF Notices
    <3>2. n[1] <= published /\ n[2] \in DOMAIN audience[n[1]]
      BY <3>1 DEF TreeInv, NoticesPlaced
    <3>3. n[1] <= e
      BY <1>1, <1>2, <3>1, <3>2, FeedAssumption DEF Events
    <3>. QED BY <1>4, <1>6, <3>1, <3>2, <3>3
  <2>. QED BY <2>1, <2>2
<1>13. EventsCome'
  <2>1. \A f \in Events : f <= e => f = e \/ f <= published
    BY <1>1, <1>2, FeedAssumption DEF Events
  <2>2. \A f \in Events : f <= published => f <= e
    BY <1>1, <1>2, FeedAssumption DEF Events
  <2>. QED BY <1>2, <1>4, <1>6, <2>1, <2>2 DEF TreeInv, EventsCome
<1>14. \A n \in Notices : stage[n] \notin {"none", "queued"} => stage'[n] = stage[n]
  BY <1>10
<1>15. ParentsBegan'
  BY <1>4, <1>6, <1>14 DEF TreeInv, ParentsBegan
<1>16. ChildrenFirst'
  <2>. SUFFICES ASSUME NEW f \in Events, parent'[f] # Outside, stage'[parent'[f]] \in Ended
                PROVE  Over(f)'
    BY DEF ChildrenFirst
  <2>1. CASE f = e
    <3>1. stage'[by] = "running"
      BY <1>4, <1>6, <1>14, <2>1
    <3>. QED BY <1>4, <1>6, <2>1, <3>1 DEF Ended
  <2>2. CASE f # e
    <3>1. parent'[f] = parent[f] /\ call'[f] = call[f]
      BY <1>4, <1>6, <2>2
    <3>2. stage'[parent[f]] = stage[parent[f]]
      BY <1>6, <1>14, <3>1 DEF TreeInv, ParentsBegan
    <3>. QED BY <3>1, <3>2 DEF TreeInv, ChildrenFirst, Over
  <2>. QED BY <2>1, <2>2
<1>17. AudiencesFit'
  <2>. SUFFICES ASSUME NEW f \in Events PROVE NoticesOf(f)' \subseteq Notices
    BY DEF AudiencesFit
  <2>1. CASE f = e
    <3>1. audience'[f] = subscribers
      BY <1>4, <1>6, <2>1
    <3>2. {f} \X (1..Len(subscribers)) \subseteq Notices
      BY <1>2, FeedAssumption DEF Notices
    <3>. QED BY <1>2, <3>1, <3>2 DEF NoticesOf
  <2>2. CASE f # e
    <3>1. NoticesOf(f)' = NoticesOf(f)
      BY <1>4, <1>6, <2>2 DEF NoticesOf
    <3>. QED BY <3>1 DEF TreeInv, AudiencesFit
  <2>. QED BY <2>1, <2>2
<1>18. SettledWhenOver'
  <2>. SUFFICES ASSUME NEW f \in Events, Over(f)', NEW n \in NoticesOf(f)'
                PROVE  stage'[n] \in Ended
    BY DEF SettledWhenOver
  <2>1. CASE f = e
    <3>1. tasks = <<>>
      BY <1>4, <1>6, <2>1 DEF Over
    <3>2. NoticesOf(f)' = {}
      BY <1>4, <1>5, <1>6, <2>1, <3>1 DEF NoticesOf
    <3>. QED BY <3>2
  <2>2. CASE f # e
    <3>1. Over(f) /\ n \in NoticesOf(f)
      BY <1>4, <1>6, <2>2 DEF Over, NoticesOf
    <3>2. stage[n] \in Ended
      BY <3>1 DEF TreeInv, SettledWhenOver
    <3>3. n \in Notices
      BY <3>1 DEF TreeInv, AudiencesFit
    <3>. QED BY <1>10, <3>2, <3>3 DEF Ended
  <2>. QED BY <2>1, <2>2
<1>. QED BY <1>11, <1>12, <1>13, <1>15, <1>16, <1>17, <1>18 DEF TreeInv

LEMMA TreeInvNext == OrderInv /\ TreeInv /\ [Next]_vars => TreeInv'
<1>. SUFFICES ASSUME OrderInv, TreeInv, [Next]_vars PROVE TreeInv'
  OBVIOUS
<1>1. TypeOK
  BY DEF OrderInv
<1>2. CASE UNCHANGED vars
  BY <1>2, TreeUntouched DEF vars
<1>3. ASSUME NEW c \in Callbacks, Subscribe(c) \/ Unsubscribe(c) PROVE TreeInv'
  BY <1>3, TreeUntouched DEF Subscribe, Unsubscribe
<1>. QED
  BY <1>1, <1>2, <1>3, TreePublish, TreeBegin, TreeFinish, TreeReturn, TreeCancel DEF Next

\* When a publish is over, so is every publish its callbacks made, and theirs.
LEMMA OverIsInherited ==
  ASSUME TypeOK, TreeInv, NEW f \in Events, Over(f), NEW e \in Events, Under(e, f)
  PROVE  Over(e)
<1>. DEFINE S == {g \in Events : Over(g)}
<1>1. ASSUME NEW g \in Events, parent[g] # Outside, parent[g][1] \in S
      PROVE  g \in S
  <2>1. parent[g] \in Notices /\ stage[parent[g]] # "none"
    BY <1>1 DEF TypeOK, TreeInv, ParentsBegan
  <2>2. parent[g] \in NoticesOf(parent[g][1])
    BY <2>1 DEF TreeInv, NoticesPlaced, NoticesOf, Notices
  <2>3. stage[parent[g]] \in Ended
    BY <1>1, <2>2 DEF TreeInv, SettledWhenOver
  <2>. QED BY <1>1, <2>3 DEF TreeInv, ChildrenFirst
<1>2. f \in S /\ S \in SUBSET Events
  OBVIOUS
<1>3. e \in S
  BY <1>1, <1>2 DEF Under
<1>. QED BY <1>3

\* When publish() is over, returned or cancelled, nothing it set off still
\* runs, however deep callbacks have nested their own publishes
\* (swarm/threat_feed.py publish: gather and _safe_notify).
THEOREM FeedNothingOutlives == Spec => []NothingOutlivesPublish
<1>1. OrderInv /\ TreeInv => NothingOutlivesPublish
  <2>. SUFFICES ASSUME OrderInv, TreeInv, NEW f \in Events, Over(f),
                       NEW e \in Events, Under(e, f)
                PROVE  \A n \in NoticesOf(e) : stage[n] \in Ended
    BY DEF NothingOutlivesPublish, Over
  <2>1. Over(e)
    BY OverIsInherited DEF OrderInv
  <2>. QED BY <2>1 DEF TreeInv, SettledWhenOver
<1>. QED BY <1>1, TreeInvInit, TreeInvNext, OrderInvariant, PTL DEF Spec

=============================================================================
