------------------------ MODULE FeedPublisherProofs ------------------------
(***************************************************************************)
(* Proofs about FeedPublisher for any events, tasks and queue size: an     *)
(* event has one home, the life cycle is sound, a flush loses nothing but  *)
(* what was queued behind its back, and the statistics are true.           *)
(***************************************************************************)
EXTENDS FeedPublisher, FiniteSetTheorems, TLAPS

Injective(s) == \A j, k \in 1..Len(s) : s[j] = s[k] => j = k

\* A call is idle or has an event to post.
CallsProper ==
  \A c \in Publishers :
    IF pub[c].wire = "none" THEN pub[c] = Idle ELSE pub[c].todo # <<>>

\* No two calls, and no call twice, are to post the same event.
TodoApart ==
  /\ \A c \in Publishers : Injective(pub[c].todo)
  /\ \A c, d \in Publishers : c # d => Members(pub[c].todo) \cap Members(pub[d].todo) = {}

Homes == CallsProper /\ TodoApart /\ OneHome

\* What is in the queue was sent by a flush in flight or came after it, and
\* what a flush that is ingested sent was received.
FlushesKnow ==
  \A f \in Flushers :
    /\ Flushing(f) => Members(queue) \subseteq Members(flush[f].batch) \cup during[f]
    /\ flush[f].wire = "ingested" => \A e \in Members(flush[f].batch) : received[e] > 0

\* Only the loop stop() waits for is cancelled.
CancelledIsJoined ==
  \A l \in Loops : loop[l] = "cancelled" => stopping = "joining" /\ joining = l

PublisherInv ==
  /\ TypeOK
  /\ Homes
  /\ FlushesKnow
  /\ CancelledIsJoined
  /\ RunningHasLoop

-----------------------------------------------------------------------------
(* Sequences *)

LEMMA MembersType ==
  ASSUME NEW S, NEW s \in Seq(S)
  PROVE  Members(s) \in SUBSET S /\ Members(s) = {s[k] : k \in 1..Len(s)}
BY DEF Members

LEMMA NoMembers == Members(<<>>) = {} /\ Injective(<<>>)
BY DEF Members, Injective

LEMMA TailMembers ==
  ASSUME NEW S, NEW s \in Seq(S), s # <<>>
  PROVE  /\ Tail(s) \in Seq(S) /\ Head(s) \in S /\ Len(Tail(s)) = Len(s) - 1
         /\ Members(s) = {Head(s)} \cup Members(Tail(s))
         /\ Injective(s) => Injective(Tail(s)) /\ Head(s) \notin Members(Tail(s))
<1>. DEFINE t == Tail(s)
<1>1. /\ t \in Seq(S) /\ Head(s) \in S /\ Head(s) = s[1]
      /\ Len(s) \in Nat \ {0} /\ Len(t) = Len(s) - 1
      /\ \A k \in 1..Len(t) : t[k] = s[k + 1]
  OBVIOUS
<1>. HIDE DEF t
<1>2. 1 \in 1..Len(s) /\ \A k \in 1..Len(t) : k + 1 \in 1..Len(s) /\ k + 1 # 1
  BY <1>1
<1>3. ASSUME NEW k \in 1..Len(s) PROVE s[k] = Head(s) \/ s[k] \in Members(t)
  <2>1. CASE k = 1
    BY <1>1, <2>1
  <2>2. CASE k # 1
    <3>1. k - 1 \in 1..Len(t) /\ (k - 1) + 1 = k
      BY <1>1, <2>2
    <3>2. t[k - 1] = s[k]
      BY <1>1, <3>1
    <3>. QED BY <1>1, <3>1, <3>2, MembersType
  <2>. QED BY <2>1, <2>2
<1>4. \A x : x \in Members(t) => \E k \in 1..Len(t) : x = s[k + 1]
  BY <1>1, MembersType
<1>5. Members(s) = {Head(s)} \cup Members(t)
  BY <1>1, <1>2, <1>3, <1>4, MembersType
<1>6. ASSUME Injective(s) PROVE Injective(t) /\ Head(s) \notin Members(t)
  <2>1. ASSUME NEW j \in 1..Len(t), NEW k \in 1..Len(t), t[j] = t[k] PROVE j = k
    <3>1. j + 1 = k + 1
      BY <1>1, <1>2, <1>6, <2>1 DEF Injective
    <3>. QED BY <3>1
  <2>2. Head(s) \notin Members(t)
    BY <1>1, <1>2, <1>4, <1>6 DEF Injective
  <2>. QED BY <2>1, <2>2 DEF Injective
<1>. QED BY <1>1, <1>5, <1>6 DEF t

LEMMA AppendMembers ==
  ASSUME NEW S, NEW s \in Seq(S), NEW e \in S
  PROVE  /\ Append(s, e) \in Seq(S) /\ Len(Append(s, e)) = Len(s) + 1
         /\ Members(Append(s, e)) = Members(s) \cup {e}
         /\ Injective(s) /\ e \notin Members(s) => Injective(Append(s, e))
<1>. DEFINE t == Append(s, e)
<1>1. /\ t \in Seq(S) /\ Len(s) \in Nat /\ Len(t) = Len(s) + 1
      /\ \A k \in 1..Len(s) : t[k] = s[k]
      /\ t[Len(s) + 1] = e
  OBVIOUS
<1>. HIDE DEF t
<1>2. \A k \in 1..Len(t) : k \in 1..Len(s) \/ k = Len(s) + 1
  BY <1>1
<1>3. (\A k \in 1..Len(s) : k \in 1..Len(t)) /\ Len(s) + 1 \in 1..Len(t)
  BY <1>1
<1>4. Members(t) = Members(s) \cup {e}
  BY <1>1, <1>2, <1>3, MembersType
<1>5. ASSUME Injective(s), e \notin Members(s) PROVE Injective(t)
  <2>1. \A k \in 1..Len(s) : s[k] # e
    BY <1>5, MembersType
  <2>. QED BY <1>1, <1>2, <1>5, <2>1 DEF Injective
<1>. QED BY <1>1, <1>4, <1>5 DEF t

LEMMA OftenType == \A n \in 0..2 : Often(n) \in 0..2
BY DEF Often

-----------------------------------------------------------------------------
(* What the parts of a step do. *)

Posts == [kind : {"idle", "attack", "batch"}, todo : Seq(Events),
          wire : {"none", "sent", "ingested"}]
Flushes == [batch : Seq(Events), wire : {"none", "sent", "ingested"}]

\* At most the oldest event makes room for a new one.
LEMMA EnqueueDoes ==
  ASSUME TypeOK, NEW e \in Events, Enqueue(e), Injective(queue), e \notin Members(queue)
  PROVE  /\ queue' \in Seq(Events) /\ Len(queue') <= MaxQueueSize
         /\ totalDropped' \in Nat /\ totalQueued' \in Nat
         /\ during' \in [Flushers -> SUBSET Events]
         /\ Injective(queue')
         /\ \E gone \in SUBSET Members(queue) :
              /\ dropped' = dropped \cup gone
              /\ Members(queue') = (Members(queue) \ gone) \cup {e}
<1>. DEFINE rest == IF Full THEN Tail(queue) ELSE queue
            gone == IF Full THEN {Head(queue)} ELSE {}
<1>1. /\ queue \in Seq(Events) /\ Len(queue) \in Nat /\ Len(queue) <= MaxQueueSize
      /\ MaxQueueSize \in Nat \ {0} /\ dropped \in SUBSET Events
  BY PublisherAssumption DEF TypeOK
<1>2. totalDropped' \in Nat /\ totalQueued' \in Nat /\ during' \in [Flushers -> SUBSET Events]
  BY DEF TypeOK, Enqueue
<1>3. /\ rest \in Seq(Events) /\ Len(rest) < MaxQueueSize /\ Injective(rest)
      /\ gone \in SUBSET Members(queue) /\ Members(rest) = Members(queue) \ gone
  <2>1. CASE Full
    <3>1. queue # <<>>
      BY <1>1, <2>1 DEF Full
    <3>2. /\ Tail(queue) \in Seq(Events) /\ Len(Tail(queue)) = Len(queue) - 1
          /\ Members(queue) = {Head(queue)} \cup Members(Tail(queue))
          /\ Injective(Tail(queue)) /\ Head(queue) \notin Members(Tail(queue))
      BY <1>1, <3>1, TailMembers
    <3>. QED BY <1>1, <2>1, <3>2
  <2>2. CASE ~Full
    BY <1>1, <2>2 DEF Full
  <2>. QED BY <2>1, <2>2
<1>4. queue' = Append(rest, e)
  BY <1>1, <1>3 DEF Enqueue, Pushed
<1>5. dropped' = dropped \cup gone
  BY DEF Enqueue
<1>. HIDE DEF rest, gone
<1>6. /\ queue' \in Seq(Events) /\ Len(queue') = Len(rest) + 1
      /\ Members(queue') = Members(rest) \cup {e}
      /\ Injective(queue')
  BY <1>3, <1>4, AppendMembers
<1>7. Len(queue') <= MaxQueueSize
  BY <1>1, <1>3, <1>6
<1>. QED BY <1>2, <1>3, <1>5, <1>6, <1>7

\* A call goes on with the rest of its events, or is idle again.
LEMMA NextPostDoes ==
  ASSUME TypeOK, NEW c \in Publishers, pub[c].todo # <<>>, NextPost(c)
  PROVE  /\ pub' \in [Publishers -> Posts] /\ totalPublished' \in Nat
         /\ \A d \in Publishers \ {c} : pub'[d] = pub[d]
         /\ pub'[c].todo = Tail(pub[c].todo)
         /\ IF pub'[c].wire = "none" THEN pub'[c] = Idle ELSE pub'[c].todo # <<>>
<1>1. pub \in [Publishers -> Posts] /\ totalPublished \in Nat
  BY DEF TypeOK, Posts
<1>2. Tail(pub[c].todo) \in Seq(Events)
  BY <1>1 DEF Posts
<1>3. CASE Tail(pub[c].todo) = <<>>
  <2>1. Idle \in Posts
    BY DEF Idle, Posts
  <2>2. pub' = [pub EXCEPT ![c] = Idle] /\ UNCHANGED totalPublished
    BY <1>3 DEF NextPost
  <2>. QED BY <1>1, <1>3, <2>1, <2>2 DEF Idle
<1>4. CASE Tail(pub[c].todo) # <<>>
  <2>. DEFINE next == [kind |-> pub[c].kind, todo |-> Tail(pub[c].todo), wire |-> "sent"]
  <2>1. next \in Posts
    BY <1>1, <1>2 DEF Posts
  <2>2. pub' = [pub EXCEPT ![c] = next] /\ totalPublished' = totalPublished + 1
    BY <1>4 DEF NextPost, BeginPost
  <2>. QED BY <1>1, <1>4, <2>1, <2>2
<1>. QED BY <1>3, <1>4

LEMMA BeginFlushDoes ==
  ASSUME TypeOK, NEW f \in Flushers, BeginFlush(f)
  PROVE  /\ flush' = [flush EXCEPT ![f] = [batch |-> queue, wire |-> "sent"]]
         /\ during' = [during EXCEPT ![f] = {}]
         /\ flush' \in [Flushers -> Flushes]
         /\ during' \in [Flushers -> SUBSET Events]
         /\ overlapped' \in BOOLEAN
         /\ UNCHANGED <<received, credited, acked, dropped, cleared>>
BY DEF TypeOK, BeginFlush, Snapshot, Flushes

LEMMA FlushReturnDoes ==
  ASSUME TypeOK, NEW f \in Flushers, FlushReturns(f)
  PROVE  /\ flush' = [flush EXCEPT ![f] = NoFlush]
         /\ during' = [during EXCEPT ![f] = {}]
         /\ flush' \in [Flushers -> Flushes]
         /\ during' \in [Flushers -> SUBSET Events]
         /\ totalDelivered' \in Nat /\ credited' \in [Events -> 0..2]
         /\ UNCHANGED <<totalPublished, totalQueued, totalDropped, received, acked,
                        dropped, overlapped>>
         /\ \/ UNCHANGED <<queue, cleared>>
            \/ /\ flush[f].wire = "ingested"
               /\ queue' = <<>> /\ cleared' = cleared \cup Members(queue)
<1>1. NoFlush \in Flushes
  BY DEF NoFlush, Flushes
<1>2. flush \in [Flushers -> Flushes] /\ during \in [Flushers -> SUBSET Events]
  BY DEF TypeOK, Flushes
<1>3. flush' = [flush EXCEPT ![f] = NoFlush] /\ during' = [during EXCEPT ![f] = {}]
  BY DEF FlushReturns, FlushOk, FlushFails
<1>4. CASE FlushFails(f)
  BY <1>1, <1>2, <1>3, <1>4 DEF FlushFails, counters, TypeOK
<1>5. CASE FlushOk(f)
  <2>1. totalDelivered' \in Nat
    BY <1>2, <1>5 DEF FlushOk, Confirmed, TypeOK, Flushes
  <2>2. credited' \in [Events -> 0..2]
    BY <1>5 DEF FlushOk, Confirmed, TypeOK, Often
  <2>3. queue' = <<>> /\ cleared' = cleared \cup Members(queue)
    BY <1>5, NoMembers DEF FlushOk, QueueAfterOk
  <2>. QED BY <1>1, <1>2, <1>3, <1>5, <2>1, <2>2, <2>3 DEF FlushOk
<1>. QED BY <1>4, <1>5 DEF FlushReturns

LEMMA BatchesAre ==
  ASSUME NEW es \in Batches
  PROVE  es \in Seq(Events) /\ es # <<>> /\ Injective(es)
<1>1. PICK n \in 1..MaxBatch : es \in [1..n -> Events]
  BY DEF Batches
<1>2. n \in Nat \ {0} /\ DOMAIN es = 1..n
  BY <1>1, PublisherAssumption
<1>3. es \in Seq(Events) /\ Len(es) = n
  BY <1>1, <1>2
<1>4. Injective(es)
  BY <1>2, <1>3 DEF Batches, Injective
<1>. QED BY <1>2, <1>3, <1>4

\* A new call: its events are nowhere yet.
LEMMA PublishKeepsHomes ==
  ASSUME TypeOK, Homes, NEW c \in Publishers,
         NEW es \in Seq(Events), es # <<>>, Injective(es), Members(es) \cap Offered = {},
         NEW kind \in {"attack", "batch"}, BeginPost(c, kind, es), pub[c] = Idle,
         UNCHANGED <<queue, acked, dropped, cleared>>
  PROVE  pub' \in [Publishers -> Posts] /\ totalPublished' \in Nat /\ Homes'
<1>. DEFINE new == [kind |-> kind, todo |-> es, wire |-> "sent"]
<1>1. pub \in [Publishers -> Posts] /\ totalPublished \in Nat
  BY DEF TypeOK, Posts
<1>2. pub' = [pub EXCEPT ![c] = new] /\ totalPublished' = totalPublished + 1
  BY DEF BeginPost
<1>3. new \in Posts
  BY DEF Posts
<1>4. /\ pub' \in [Publishers -> Posts] /\ totalPublished' \in Nat
      /\ pub'[c].todo = es /\ pub'[c].wire = "sent"
      /\ \A d \in Publishers \ {c} : pub'[d] = pub[d]
  BY <1>1, <1>2, <1>3
<1>5. /\ \A d \in Publishers : Members(es) \cap Members(pub[d].todo) = {}
      /\ Members(es) \cap (acked \cup dropped \cup cleared \cup Members(queue)) = {}
  <2>1. Members(es) \in SUBSET Events
    BY MembersType
  <2>. QED BY <2>1 DEF Offered
<1>6. CallsProper'
  BY <1>4 DEF Homes, CallsProper
<1>7. TodoApart'
  BY <1>4, <1>5 DEF Homes, TodoApart
<1>8. Members(queue') = Members(queue) /\ UNCHANGED <<acked, dropped, cleared>>
  OBVIOUS
<1>9. OneHome'
  <2>1. \A d \in Publishers :
          Members(pub'[d].todo) \cap (Members(queue) \cup acked \cup dropped \cup cleared) = {}
    BY <1>4, <1>5 DEF Homes, OneHome
  <2>. QED BY <1>8, <2>1 DEF Homes, OneHome
<1>. QED BY <1>4, <1>6, <1>7, <1>9 DEF Homes

\* The first event of a call is acknowledged or queued, and is its no more.
LEMMA PostKeepsHomes ==
  ASSUME TypeOK, Homes, NEW c \in Publishers, PostOk(c) \/ PostFails(c)
  PROVE  /\ TypeOK' /\ Homes'
<1>. DEFINE s == pub[c].todo
<1>1. /\ pub \in [Publishers -> Posts] /\ s \in Seq(Events) /\ s # <<>>
  BY DEF TypeOK, Posts, Homes, CallsProper, PostOk, PostFails, GivesUp
<1>2. PICK e \in Events : e = Head(s)
  BY <1>1
<1>3. /\ Tail(s) \in Seq(Events)
      /\ Members(s) = {e} \cup Members(Tail(s))
      /\ Injective(Tail(s)) /\ e \notin Members(Tail(s))
  BY <1>1, <1>2, TailMembers DEF Homes, TodoApart
<1>4. /\ pub' \in [Publishers -> Posts] /\ totalPublished' \in Nat
      /\ \A d \in Publishers \ {c} : pub'[d] = pub[d]
      /\ pub'[c].todo = Tail(s)
      /\ IF pub'[c].wire = "none" THEN pub'[c] = Idle ELSE pub'[c].todo # <<>>
  BY <1>1, NextPostDoes DEF PostOk, PostFails
<1>. HIDE DEF s
<1>5. CallsProper' /\ TodoApart'
  <2>1. CallsProper'
    BY <1>4 DEF Homes, CallsProper
  <2>2. \A d \in Publishers \ {c} : Members(pub[d].todo) \cap Members(s) = {}
    BY DEF Homes, TodoApart, s
  <2>. QED BY <1>3, <1>4, <2>1, <2>2 DEF Homes, TodoApart
<1>6. /\ \A d \in Publishers : e \notin Members(pub'[d].todo)
      /\ \A d \in Publishers : Members(pub'[d].todo) \subseteq Members(pub[d].todo)
      /\ e \notin Members(queue) \cup acked \cup dropped \cup cleared
  <2>1. e \in Members(pub[c].todo)
    BY <1>3 DEF s
  <2>2. \A d \in Publishers \ {c} : e \notin Members(pub[d].todo)
    BY <2>1 DEF Homes, TodoApart
  <2>3. Members(pub'[c].todo) \subseteq Members(pub[c].todo) /\ e \notin Members(pub'[c].todo)
    BY <1>3, <1>4 DEF s
  <2>4. e \notin Members(queue) \cup acked \cup dropped \cup cleared
    BY <2>1 DEF Homes, OneHome
  <2>. QED BY <1>4, <2>2, <2>3, <2>4
<1>7. CASE PostOk(c)
  <2>1. /\ totalDelivered' \in Nat /\ credited' \in [Events -> 0..2]
        /\ acked' = acked \cup {e}
        /\ UNCHANGED <<queue, totalQueued, totalDropped, running, flushTask, flush,
                 loop, stopping, joining, up, outages, received, dropped, cleared,
                 during, overlapped>>
    <3>1. Often(credited[e]) \in 0..2
      BY OftenType DEF TypeOK
    <3>2. credited' = [credited EXCEPT ![e] = Often(credited[e])]
      BY <1>2, <1>7 DEF PostOk, s
    <3>3. credited' \in [Events -> 0..2]
      BY <3>1, <3>2 DEF TypeOK
    <3>4. totalDelivered' \in Nat
      BY <1>7 DEF PostOk, TypeOK
    <3>. QED BY <1>2, <1>7, <3>3, <3>4 DEF PostOk, s
  <2>2. TypeOK'
    BY <1>2, <1>4, <2>1 DEF TypeOK, Posts
  <2>3. Members(queue') = Members(queue) /\ UNCHANGED <<dropped, cleared>>
    BY <2>1
  <2>4. OneHome'
    BY <1>6, <2>1, <2>3 DEF Homes, OneHome
  <2>. QED BY <1>5, <2>2, <2>4 DEF Homes
<1>8. CASE PostFails(c)
  <2>1. Enqueue(e)
    BY <1>2, <1>8 DEF PostFails, s
  <2>2. UNCHANGED <<totalDelivered, running, flushTask, flush, loop, stopping, joining,
                 up, outages, received, credited, acked, cleared, overlapped>>
    BY <1>8 DEF PostFails
  <2>3. queue \in Seq(Events) /\ DOMAIN queue = 1..Len(queue)
    BY DEF TypeOK
  <2>4. Injective(queue)
    BY <2>3 DEF Homes, OneHome, Injective
  <2>5. /\ queue' \in Seq(Events) /\ Len(queue') <= MaxQueueSize
        /\ totalDropped' \in Nat /\ totalQueued' \in Nat
        /\ during' \in [Flushers -> SUBSET Events]
        /\ Injective(queue')
        /\ \E gone \in SUBSET Members(queue) :
              /\ dropped' = dropped \cup gone
              /\ Members(queue') = (Members(queue) \ gone) \cup {e}
    BY <1>6, <2>1, <2>4, EnqueueDoes
  <2>6. PICK gone \in SUBSET Members(queue) :
          /\ dropped' = dropped \cup gone
          /\ Members(queue') = (Members(queue) \ gone) \cup {e}
    BY <2>5
  <2>7. Members(queue) \in SUBSET Events
    BY <2>3, MembersType
  <2>8. TypeOK'
    <3>1. dropped' \in SUBSET Events
      BY <2>6, <2>7 DEF TypeOK
    <3>. QED BY <1>4, <2>2, <2>5, <3>1 DEF TypeOK, Posts
  <2>9. OneHome'
    <3>1. \A j, k \in DOMAIN queue' : queue'[j] = queue'[k] => j = k
      BY <2>5 DEF Injective
    <3>. QED BY <1>6, <2>2, <2>6, <3>1 DEF Homes, OneHome
  <2>. QED BY <1>5, <2>8, <2>9 DEF Homes
<1>. QED BY <1>7, <1>8

LEMMA HomesStay ==
  ASSUME Homes, UNCHANGED <<queue, pub, acked, dropped, cleared>>
  PROVE  Homes'
<1>1. CallsProper' /\ TodoApart'
  BY DEF Homes, CallsProper, TodoApart
<1>2. Members(queue') = Members(queue)
  OBVIOUS
<1>3. OneHome'
  BY <1>2 DEF Homes, OneHome
<1>. QED BY <1>1, <1>3 DEF Homes

\* What a flush clears is cleared and nothing else.
LEMMA FlushReturnKeepsHomes ==
  ASSUME TypeOK, Homes, NEW f \in Flushers, FlushReturns(f), UNCHANGED pub
  PROVE  Homes'
<1>1. /\ UNCHANGED <<pub, acked, dropped>>
      /\ \/ UNCHANGED <<queue, cleared>>
         \/ queue' = <<>> /\ cleared' = cleared \cup Members(queue)
  BY FlushReturnDoes
<1>2. CASE UNCHANGED <<queue, cleared>>
  BY <1>1, <1>2, HomesStay
<1>3. CASE queue' = <<>> /\ cleared' = cleared \cup Members(queue)
  <2>1. Members(queue') = {} /\ \A j \in DOMAIN queue' : FALSE
    BY <1>3, NoMembers
  <2>2. CallsProper' /\ TodoApart'
    BY <1>1 DEF Homes, CallsProper, TodoApart
  <2>3. OneHome'
    BY <1>1, <1>3, <2>1 DEF Homes, OneHome
  <2>. QED BY <2>2, <2>3 DEF Homes
<1>. QED BY <1>1, <1>2, <1>3

LEMMA IngestDoes ==
  ASSUME TypeOK, NEW es, Ingest(es)
  PROVE  /\ received' \in [Events -> 0..2]
         /\ \A e \in Events : received[e] > 0 \/ e \in es => received'[e] > 0
<1>1. received \in [Events -> 0..2]
  BY DEF TypeOK
<1>2. \A n \in 0..2 : Often(n) \in 0..2 /\ Often(n) > 0
  BY DEF Often
<1>3. /\ DOMAIN received' = Events
      /\ received' = [e \in Events |-> received'[e]]
      /\ \A e \in Events :
           received'[e] = IF e \in es THEN Often(received[e]) ELSE received[e]
  BY DEF Ingest
<1>4. ASSUME NEW e \in Events
      PROVE  /\ received'[e] \in 0..2
             /\ received[e] > 0 \/ e \in es => received'[e] > 0
  <2>1. received[e] \in 0..2
    BY <1>1
  <2>. QED BY <1>2, <1>3, <2>1
<1>5. received' \in [Events -> 0..2]
  BY <1>3, <1>4
<1>. QED BY <1>4, <1>5

-----------------------------------------------------------------------------
(* A step of a publish call. *)

LEMMA PublishKeeps ==
  ASSUME TypeOK, Homes, NEW c \in Publishers, PublishNext(c)
  PROVE  TypeOK' /\ Homes'
<1>1. CASE \E e \in Events : PublishAttack(c, e)
  <2>1. PICK e \in Events : PublishAttack(c, e)
    BY <1>1
  <2>2. /\ <<e>> \in Seq(Events) /\ <<e>> # <<>> /\ Len(<<e>>) = 1 /\ <<e>>[1] = e
    OBVIOUS
  <2>3. Injective(<<e>>) /\ Members(<<e>>) = {e}
    <3>1. Members(<<e>>) = {<<e>>[k] : k \in 1..Len(<<e>>)}
      BY <2>2, MembersType
    <3>2. 1..Len(<<e>>) = {1}
      BY <2>2
    <3>3. Members(<<e>>) = {e}
      BY <2>2, <3>1, <3>2, Zenon
    <3>4. Injective(<<e>>)
      BY <3>2, Zenon DEF Injective
    <3>. QED BY <3>3, <3>4
  <2>4. /\ BeginPost(c, "attack", <<e>>) /\ pub[c] = Idle
        /\ Members(<<e>>) \cap Offered = {}
        /\ UNCHANGED <<queue, acked, dropped, cleared>>
    BY <2>1, <2>3 DEF PublishAttack, history
  <2>5. pub' \in [Publishers -> Posts] /\ totalPublished' \in Nat /\ Homes'
    BY <2>2, <2>3, <2>4, PublishKeepsHomes
  <2>. QED BY <2>1, <2>5 DEF TypeOK, Posts, PublishAttack, history
<1>2. CASE \E es \in Batches : PublishBatch(c, es)
  <2>1. PICK es \in Batches : PublishBatch(c, es)
    BY <1>2
  <2>2. es \in Seq(Events) /\ es # <<>> /\ Injective(es)
    BY BatchesAre
  <2>3. /\ BeginPost(c, "batch", es) /\ pub[c] = Idle
        /\ Members(es) \cap Offered = {}
        /\ UNCHANGED <<queue, acked, dropped, cleared>>
    BY <2>1 DEF PublishBatch, history
  <2>4. pub' \in [Publishers -> Posts] /\ totalPublished' \in Nat /\ Homes'
    BY <2>2, <2>3, PublishKeepsHomes
  <2>. QED BY <2>1, <2>4 DEF TypeOK, Posts, PublishBatch, history
<1>3. CASE PostOk(c) \/ PostFails(c)
  BY <1>3, PostKeepsHomes
<1>4. CASE IngestPost(c)
  <2>1. /\ pub \in [Publishers -> Posts]
        /\ pub' = [pub EXCEPT ![c].wire = "ingested"]
        /\ pub[c].wire = "sent"
    BY <1>4 DEF TypeOK, Posts, IngestPost
  <2>2. /\ pub' \in [Publishers -> Posts]
        /\ \A d \in Publishers : pub'[d].todo = pub[d].todo
        /\ \A d \in Publishers \ {c} : pub'[d] = pub[d]
        /\ pub'[c].wire = "ingested"
    BY <2>1 DEF Posts
  <2>3. received' \in [Events -> 0..2]
    BY <1>4, IngestDoes DEF IngestPost
  <2>4. TypeOK'
    BY <1>4, <2>2, <2>3 DEF TypeOK, Posts, IngestPost, counters
  <2>5. CallsProper'
    BY <2>1, <2>2 DEF Homes, CallsProper
  <2>6. TodoApart'
    BY <2>2 DEF Homes, TodoApart
  <2>7. UNCHANGED <<queue, acked, dropped, cleared>>
    BY <1>4 DEF IngestPost
  <2>8. Members(queue') = Members(queue)
    BY <2>7
  <2>9. OneHome'
    BY <2>2, <2>7, <2>8 DEF Homes, OneHome
  <2>. QED BY <2>4, <2>5, <2>6, <2>9 DEF Homes
<1>. QED BY <1>1, <1>2, <1>3, <1>4 DEF PublishNext

-----------------------------------------------------------------------------
(* A step of a flush, of the loop or of stop(). *)

LEMMA AtTopType == AtTop \in {"sleeping", "done"}
BY DEF AtTop

LEMMA FinalFlushDoes ==
  ASSUME TypeOK, FinalFlush
  PROVE  /\ stopping' \in {"no", "flushing"}
         /\ flush' \in [Flushers -> Flushes]
         /\ during' \in [Flushers -> SUBSET Events]
         /\ overlapped' \in BOOLEAN
         /\ UNCHANGED <<received, credited, acked, dropped, cleared>>
<1>1. CASE queue = <<>>
  BY <1>1 DEF FinalFlush, history, TypeOK, Flushes
<1>2. CASE queue # <<>>
  <2>1. Stopper \in Flushers /\ BeginFlush(Stopper) /\ stopping' = "flushing"
    BY <1>2 DEF FinalFlush, Flushers
  <2>. QED BY <2>1, BeginFlushDoes
<1>. QED BY <1>1, <1>2

\* The end of a POST, whoever's it is, given what its caller leaves alone.
LEMMA ReturnKeeps ==
  ASSUME TypeOK, Homes, NEW f \in Flushers, FlushReturns(f),
         UNCHANGED <<running, flushTask, pub, joining, up, outages>>,
         loop' \in [Loops ->
           {"absent", "created", "sleeping", "flushing", "cancelled", "done"}],
         stopping' \in {"no", "joining", "flushing"}
  PROVE  TypeOK' /\ Homes'
<1>1. Homes'
  BY FlushReturnKeepsHomes
<1>2. /\ flush' \in [Flushers -> Flushes]
      /\ during' \in [Flushers -> SUBSET Events]
      /\ totalDelivered' \in Nat /\ credited' \in [Events -> 0..2]
      /\ UNCHANGED <<totalPublished, totalQueued, totalDropped, received, acked,
                     dropped, overlapped>>
      /\ \/ UNCHANGED <<queue, cleared>>
         \/ queue' = <<>> /\ cleared' = cleared \cup Members(queue)
  BY FlushReturnDoes
<1>3. /\ queue' \in Seq(Events) /\ Len(queue') <= MaxQueueSize
      /\ cleared' \in SUBSET Events
  <2>1. queue \in Seq(Events) /\ Len(queue) <= MaxQueueSize /\ cleared \in SUBSET Events
    BY DEF TypeOK
  <2>2. Members(queue) \in SUBSET Events
    BY <2>1, MembersType
  <2>3. <<>> \in Seq(Events) /\ Len(<<>>) <= MaxQueueSize
    BY PublisherAssumption
  <2>. QED BY <1>2, <2>1, <2>2, <2>3
<1>4. TypeOK'
  BY <1>2, <1>3 DEF TypeOK, Flushes
<1>. QED BY <1>1, <1>4

LEMMA FlushesKeep ==
  ASSUME TypeOK, Homes, NEW f \in FlushCallers, FlushByHand(f) \/ FlushByHandReturns(f)
  PROVE  TypeOK' /\ Homes'
<1>1. f \in Flushers
  BY DEF Flushers
<1>2. CASE FlushByHand(f)
  <2>1. BeginFlush(f)
    BY <1>2 DEF FlushByHand
  <2>2. /\ flush' \in [Flushers -> Flushes]
        /\ during' \in [Flushers -> SUBSET Events]
        /\ overlapped' \in BOOLEAN
        /\ UNCHANGED <<received, credited, acked, dropped, cleared>>
    BY <1>1, <2>1, BeginFlushDoes
  <2>3. TypeOK'
    BY <1>2, <2>2 DEF TypeOK, Flushes, FlushByHand, counters
  <2>. QED BY <1>2, <2>2, <2>3, HomesStay DEF FlushByHand
<1>3. CASE FlushByHandReturns(f)
  BY <1>1, <1>3, ReturnKeeps DEF FlushByHandReturns, TypeOK
<1>. QED BY <1>2, <1>3

LEMMA LoopKeeps ==
  ASSUME TypeOK, Homes, NEW l \in Loops, LoopNext(l) \/ Start(l)
  PROVE  TypeOK' /\ Homes'
<1>1. l \in Flushers
  BY DEF Flushers
<1>2. CASE LoopStarts(l)
  <2>1. TypeOK'
    BY <1>2, AtTopType DEF LoopStarts, TypeOK, counters, history
  <2>. QED BY <1>2, <2>1, HomesStay DEF LoopStarts, history
<1>3. CASE LoopWakes(l)
  <2>1. /\ flush' \in [Flushers -> Flushes]
        /\ during' \in [Flushers -> SUBSET Events]
        /\ overlapped' \in BOOLEAN
        /\ UNCHANGED <<received, credited, acked, dropped, cleared>>
    <3>1. CASE queue = <<>>
      BY <1>3, <3>1 DEF LoopWakes, history, TypeOK, Flushes
    <3>2. CASE queue # <<>>
      <4>1. BeginFlush(l)
        BY <1>3, <3>2 DEF LoopWakes
      <4>. QED BY <1>1, <4>1, BeginFlushDoes
    <3>. QED BY <3>1, <3>2
  <2>2. loop' \in [Loops ->
          {"absent", "created", "sleeping", "flushing", "cancelled", "done"}]
    BY <1>3, AtTopType DEF LoopWakes, TypeOK
  <2>3. TypeOK'
    BY <1>3, <2>1, <2>2 DEF TypeOK, Flushes, LoopWakes, counters
  <2>. QED BY <1>3, <2>1, <2>3, HomesStay DEF LoopWakes
<1>4. CASE LoopFlushReturns(l)
  BY <1>1, <1>4, ReturnKeeps, AtTopType DEF LoopFlushReturns, TypeOK
<1>5. CASE LoopCancelled(l)
  <2>1. NoFlush \in Flushes
    BY DEF NoFlush, Flushes
  <2>2. /\ flush' \in [Flushers -> Flushes]
        /\ during' \in [Flushers -> SUBSET Events]
        /\ loop' \in [Loops ->
             {"absent", "created", "sleeping", "flushing", "cancelled", "done"}]
    BY <1>5, <2>1 DEF LoopCancelled, AfterCancel, TypeOK, Flushes
  <2>3. TypeOK'
    BY <1>5, <2>2 DEF LoopCancelled, TypeOK, Flushes, counters
  <2>. QED BY <1>5, <2>3, HomesStay DEF LoopCancelled
<1>6. CASE Start(l)
  <2>1. TypeOK'
    BY <1>6 DEF Start, TypeOK, counters, history
  <2>. QED BY <1>6, <2>1, HomesStay DEF Start, history
<1>. QED BY <1>2, <1>3, <1>4, <1>5, <1>6 DEF LoopNext

LEMMA StopKeeps ==
  ASSUME TypeOK, Homes, StopBegins \/ StopJoined \/ StopFlushReturns
  PROVE  TypeOK' /\ Homes'
<1>1. CASE StopBegins
  <2>1. /\ flush' \in [Flushers -> Flushes]
        /\ during' \in [Flushers -> SUBSET Events]
        /\ overlapped' \in BOOLEAN
        /\ stopping' \in {"no", "joining", "flushing"}
        /\ loop' \in [Loops ->
             {"absent", "created", "sleeping", "flushing", "cancelled", "done"}]
        /\ UNCHANGED <<received, credited, acked, dropped, cleared>>
    <3>1. CASE flushTask = NoTask
      <4>1. FinalFlush /\ UNCHANGED loop
        BY <1>1, <3>1 DEF StopBegins
      <4>. QED BY <4>1, FinalFlushDoes DEF TypeOK
    <3>2. CASE flushTask # NoTask
      BY <1>1, <3>2 DEF StopBegins, TypeOK, Flushes, history
    <3>. QED BY <3>1, <3>2
  <2>2. TypeOK'
    BY <1>1, <2>1 DEF StopBegins, TypeOK, Flushes, counters
  <2>. QED BY <1>1, <2>1, <2>2, HomesStay DEF StopBegins
<1>2. CASE StopJoined
  <2>1. FinalFlush
    BY <1>2 DEF StopJoined
  <2>2. /\ stopping' \in {"no", "flushing"}
        /\ flush' \in [Flushers -> Flushes]
        /\ during' \in [Flushers -> SUBSET Events]
        /\ overlapped' \in BOOLEAN
        /\ UNCHANGED <<received, credited, acked, dropped, cleared>>
    BY <2>1, FinalFlushDoes
  <2>3. TypeOK'
    BY <1>2, <2>2 DEF StopJoined, TypeOK, Flushes, counters
  <2>. QED BY <1>2, <2>2, <2>3, HomesStay DEF StopJoined
<1>3. CASE StopFlushReturns
  <2>1. Stopper \in Flushers
    BY DEF Flushers
  <2>. QED BY <1>3, <2>1, ReturnKeeps DEF StopFlushReturns, TypeOK
<1>. QED BY <1>1, <1>2, <1>3

LEMMA WorldKeeps ==
  ASSUME TypeOK, Homes, (\E f \in Flushers : IngestBatch(f)) \/ GoesDown \/ ComesUp
  PROVE  TypeOK' /\ Homes'
<1>1. CASE \E f \in Flushers : IngestBatch(f)
  <2>1. PICK f \in Flushers : IngestBatch(f)
    BY <1>1
  <2>2. received' \in [Events -> 0..2]
    BY <2>1, IngestDoes DEF IngestBatch
  <2>3. flush' \in [Flushers -> Flushes]
    BY <2>1 DEF IngestBatch, TypeOK, Flushes
  <2>4. TypeOK'
    BY <2>1, <2>2, <2>3 DEF IngestBatch, TypeOK, Flushes, counters
  <2>. QED BY <2>1, <2>4, HomesStay DEF IngestBatch
<1>2. CASE GoesDown
  <2>1. outages' \in 0..MaxOutages
    BY <1>2, PublisherAssumption DEF GoesDown, TypeOK
  <2>2. TypeOK'
    BY <1>2, <2>1 DEF GoesDown, TypeOK, counters, history
  <2>. QED BY <1>2, <2>2, HomesStay DEF GoesDown, history
<1>3. CASE ComesUp
  <2>1. TypeOK'
    BY <1>3 DEF ComesUp, TypeOK, counters, history
  <2>. QED BY <1>3, <2>1, HomesStay DEF ComesUp, history
<1>. QED BY <1>1, <1>2, <1>3

LEMMA StepKeepsHomes ==
  ASSUME TypeOK, Homes, Next
  PROVE  TypeOK' /\ Homes'
BY PublishKeeps, FlushesKeep, LoopKeeps, StopKeeps, WorldKeeps DEF Next

-----------------------------------------------------------------------------
(* What a flush in flight knows of the queue. *)

LEMMA KnowStay ==
  ASSUME TypeOK, FlushesKnow, UNCHANGED <<queue, flush, during>>,
         \A e \in Events : received[e] > 0 => received'[e] > 0
  PROVE  FlushesKnow'
<1>1. ASSUME NEW f \in Flushers
      PROVE  /\ Flushing(f)' => Members(queue') \subseteq Members(flush'[f].batch) \cup during'[f]
             /\ flush'[f].wire = "ingested" =>
                  \A e \in Members(flush'[f].batch) : received'[e] > 0
  <2>1. Members(flush[f].batch) \in SUBSET Events
    BY MembersType DEF TypeOK
  <2>2. flush'[f] = flush[f] /\ Members(queue') = Members(queue) /\ during'[f] = during[f]
    OBVIOUS
  <2>. QED BY <2>1, <2>2 DEF FlushesKnow, Flushing
<1>. QED BY <1>1 DEF FlushesKnow

LEMMA KnowBegin ==
  ASSUME TypeOK, FlushesKnow, NEW g \in Flushers, BeginFlush(g), UNCHANGED queue
  PROVE  FlushesKnow'
<1>1. /\ flush' = [flush EXCEPT ![g] = [batch |-> queue, wire |-> "sent"]]
      /\ during' = [during EXCEPT ![g] = {}]
      /\ received' = received
  BY BeginFlushDoes
<1>2. flush \in [Flushers -> Flushes] /\ during \in [Flushers -> SUBSET Events]
  BY DEF TypeOK, Flushes
<1>3. /\ flush'[g].batch = queue /\ flush'[g].wire = "sent"
      /\ \A f \in Flushers \ {g} : flush'[f] = flush[f] /\ during'[f] = during[f]
      /\ Members(queue') = Members(queue)
  BY <1>1, <1>2
<1>. QED BY <1>1, <1>3 DEF FlushesKnow, Flushing

LEMMA KnowEnd ==
  ASSUME TypeOK, FlushesKnow, NEW g \in Flushers,
         flush' = [flush EXCEPT ![g] = NoFlush],
         during' = [during EXCEPT ![g] = {}],
         Members(queue') \subseteq Members(queue), UNCHANGED received
  PROVE  FlushesKnow'
<1>1. flush \in [Flushers -> Flushes] /\ during \in [Flushers -> SUBSET Events]
  BY DEF TypeOK, Flushes
<1>2. /\ flush'[g].wire = "none"
      /\ \A f \in Flushers \ {g} : flush'[f] = flush[f] /\ during'[f] = during[f]
  BY <1>1 DEF NoFlush
<1>. QED BY <1>2 DEF FlushesKnow, Flushing

LEMMA KnowReturn ==
  ASSUME TypeOK, FlushesKnow, NEW g \in Flushers, FlushReturns(g)
  PROVE  FlushesKnow'
<1>1. /\ flush' = [flush EXCEPT ![g] = NoFlush] /\ during' = [during EXCEPT ![g] = {}]
      /\ UNCHANGED received
      /\ UNCHANGED queue \/ queue' = <<>>
  BY FlushReturnDoes
<1>2. Members(queue') \subseteq Members(queue)
  BY <1>1, NoMembers
<1>. QED BY <1>1, <1>2, KnowEnd

LEMMA KnowFinal ==
  ASSUME TypeOK, FlushesKnow, FinalFlush, UNCHANGED queue
  PROVE  FlushesKnow'
<1>1. CASE queue = <<>>
  BY <1>1, KnowStay DEF FinalFlush, history
<1>2. CASE queue # <<>>
  BY <1>2, KnowBegin DEF FinalFlush, Flushers
<1>. QED BY <1>1, <1>2

\* What an event that could not be posted does to the queue.
LEMMA PostFailsDoes ==
  ASSUME TypeOK, Homes, NEW c \in Publishers, PostFails(c)
  PROVE  \E e \in Events :
           /\ during' = [f \in Flushers |->
                           IF Flushing(f) THEN during[f] \cup {e} ELSE during[f]]
           /\ UNCHANGED <<flush, received>>
           /\ \E gone \in SUBSET Members(queue) :
                /\ dropped' = dropped \cup gone
                /\ Members(queue') = (Members(queue) \ gone) \cup {e}
<1>. DEFINE s == pub[c].todo
<1>1. s \in Seq(Events) /\ s # <<>>
  BY DEF TypeOK, Posts, Homes, CallsProper, PostFails, GivesUp
<1>2. PICK e \in Events : e = Head(s)
  BY <1>1
<1>3. e \in Members(s)
  BY <1>1, <1>2, TailMembers
<1>4. e \notin Members(queue)
  BY <1>3 DEF Homes, OneHome
<1>5. Injective(queue)
  <2>1. DOMAIN queue = 1..Len(queue)
    BY DEF TypeOK
  <2>. QED BY <2>1 DEF Homes, OneHome, Injective
<1>6. Enqueue(e) /\ UNCHANGED <<flush, received>>
  BY <1>2 DEF PostFails
<1>7. during' = [f \in Flushers |->
                   IF Flushing(f) THEN during[f] \cup {e} ELSE during[f]]
  BY <1>6 DEF Enqueue
<1>8. \E gone \in SUBSET Members(queue) :
        /\ dropped' = dropped \cup gone
        /\ Members(queue') = (Members(queue) \ gone) \cup {e}
  BY <1>4, <1>5, <1>6, EnqueueDoes
<1>. QED BY <1>6, <1>7, <1>8

LEMMA KnowPublish ==
  ASSUME TypeOK, Homes, FlushesKnow, NEW c \in Publishers, PublishNext(c)
  PROVE  FlushesKnow'
<1>1. CASE PostFails(c)
  <2>1. PICK e \in Events :
          /\ during' = [f \in Flushers |->
                          IF Flushing(f) THEN during[f] \cup {e} ELSE during[f]]
          /\ UNCHANGED <<flush, received>>
          /\ \E gone \in SUBSET Members(queue) :
               /\ dropped' = dropped \cup gone
               /\ Members(queue') = (Members(queue) \ gone) \cup {e}
    BY <1>1, PostFailsDoes
  <2>2. Members(queue') \subseteq Members(queue) \cup {e}
    BY <2>1
  <2>3. \A f \in Flushers : Flushing(f) => during'[f] = during[f] \cup {e}
    BY <2>1
  <2>. QED BY <2>1, <2>2, <2>3 DEF FlushesKnow, Flushing
<1>2. CASE IngestPost(c)
  <2>1. \A e \in Events : received[e] > 0 => received'[e] > 0
    BY <1>2, IngestDoes DEF IngestPost
  <2>. QED BY <1>2, <2>1, KnowStay DEF IngestPost
<1>3. CASE PostOk(c)
  BY <1>3, KnowStay DEF PostOk
<1>4. CASE \/ \E e \in Events : PublishAttack(c, e)
           \/ \E es \in Batches : PublishBatch(c, es)
  <2>1. UNCHANGED <<queue, flush, during, received>>
    BY <1>4 DEF PublishAttack, PublishBatch, history
  <2>. QED BY <2>1, KnowStay
<1>. QED BY <1>1, <1>2, <1>3, <1>4 DEF PublishNext

LEMMA KnowIngest ==
  ASSUME TypeOK, FlushesKnow, NEW g \in Flushers, IngestBatch(g)
  PROVE  FlushesKnow'
<1>1. flush \in [Flushers -> Flushes]
  BY DEF TypeOK, Flushes
<1>2. /\ flush' = [flush EXCEPT ![g].wire = "ingested"] /\ flush[g].wire = "sent"
      /\ Ingest(Members(flush[g].batch))
      /\ UNCHANGED <<queue, during>>
  BY DEF IngestBatch
<1>3. /\ flush'[g].batch = flush[g].batch /\ flush'[g].wire = "ingested"
      /\ \A f \in Flushers \ {g} : flush'[f] = flush[f]
      /\ Members(queue') = Members(queue)
  BY <1>1, <1>2 DEF Flushes
<1>4. \A f \in Flushers : Members(flush[f].batch) \in SUBSET Events
  BY <1>1, MembersType DEF Flushes
<1>5. \A e \in Events : received[e] > 0 \/ e \in Members(flush[g].batch) => received'[e] > 0
  BY <1>2, IngestDoes
<1>6. ASSUME NEW f \in Flushers
      PROVE  /\ Flushing(f)' => Members(queue') \subseteq Members(flush'[f].batch) \cup during'[f]
             /\ flush'[f].wire = "ingested" =>
                  \A e \in Members(flush'[f].batch) : received'[e] > 0
  <2>1. CASE f = g
    BY <1>2, <1>3, <1>4, <1>5, <2>1 DEF FlushesKnow, Flushing
  <2>2. CASE f # g
    BY <1>2, <1>3, <1>4, <1>5, <2>2 DEF FlushesKnow, Flushing
  <2>. QED BY <2>1, <2>2
<1>. QED BY <1>6 DEF FlushesKnow

LEMMA StepKeepsFlushes ==
  ASSUME TypeOK, Homes, FlushesKnow, Next
  PROVE  FlushesKnow'
<1>1. CASE \E c \in Publishers : PublishNext(c)
  BY <1>1, KnowPublish
<1>2. CASE \E f \in FlushCallers : FlushByHand(f) \/ FlushByHandReturns(f)
  BY <1>2, KnowBegin, KnowReturn DEF FlushByHand, FlushByHandReturns, Flushers
<1>3. ASSUME NEW l \in Loops, LoopNext(l) \/ Start(l) PROVE FlushesKnow'
  <2>1. l \in Flushers
    BY DEF Flushers
  <2>2. CASE LoopStarts(l) \/ Start(l)
    BY <2>2, KnowStay DEF LoopStarts, Start, history
  <2>3. CASE LoopWakes(l)
    <3>1. CASE queue = <<>>
      BY <2>3, <3>1, KnowStay DEF LoopWakes, history
    <3>2. CASE queue # <<>>
      BY <2>1, <2>3, <3>2, KnowBegin DEF LoopWakes
    <3>. QED BY <3>1, <3>2
  <2>4. CASE LoopFlushReturns(l)
    BY <2>1, <2>4, KnowReturn DEF LoopFlushReturns
  <2>5. CASE LoopCancelled(l)
    BY <2>1, <2>5, KnowEnd DEF LoopCancelled
  <2>. QED BY <1>3, <2>2, <2>3, <2>4, <2>5 DEF LoopNext
<1>4. CASE StopBegins
  <2>1. CASE flushTask = NoTask
    BY <1>4, <2>1, KnowFinal DEF StopBegins
  <2>2. CASE flushTask # NoTask
    BY <1>4, <2>2, KnowStay DEF StopBegins, history
  <2>. QED BY <2>1, <2>2
<1>5. CASE StopJoined
  BY <1>5, KnowFinal DEF StopJoined
<1>6. CASE StopFlushReturns
  BY <1>6, KnowReturn DEF StopFlushReturns, Flushers
<1>7. CASE \E f \in Flushers : IngestBatch(f)
  BY <1>7, KnowIngest
<1>8. CASE GoesDown \/ ComesUp
  BY <1>8, KnowStay DEF GoesDown, ComesUp, history
<1>. QED BY <1>1, <1>2, <1>3, <1>4, <1>5, <1>6, <1>7, <1>8 DEF Next

-----------------------------------------------------------------------------
(* The loop, start() and stop(). *)

LEMMA StepKeepsLoops ==
  ASSUME TypeOK, CancelledIsJoined, RunningHasLoop, Next
  PROVE  CancelledIsJoined' /\ RunningHasLoop'
<1>1. CASE UNCHANGED <<loop, stopping, joining, running>>
  BY <1>1 DEF CancelledIsJoined, RunningHasLoop, Alive
<1>2. ASSUME NEW l \in Loops, LoopNext(l)
      PROVE  CancelledIsJoined' /\ RunningHasLoop'
  <2>1. /\ UNCHANGED <<stopping, joining, running>>
        /\ \/ loop' = [loop EXCEPT ![l] = AtTop]
           \/ loop' = [loop EXCEPT ![l] = "flushing"]
           \/ loop[l] = "cancelled" /\ loop' = [loop EXCEPT ![l] = "done"]
    BY <1>2 DEF LoopNext, LoopStarts, LoopWakes, LoopFlushReturns, LoopCancelled, AfterCancel
  <2>2. \A m \in Loops \ {l} : loop'[m] = loop[m]
    BY <2>1 DEF TypeOK
  <2>3. /\ loop'[l] # "cancelled"
        /\ running => Alive(l)' \/ loop[l] = "cancelled"
    BY <2>1, AtTopType DEF TypeOK, Alive, AtTop
  <2>4. CancelledIsJoined'
    BY <2>1, <2>2, <2>3 DEF CancelledIsJoined
  <2>5. RunningHasLoop'
    <3>1. CASE Alive(l)'
      BY <3>1 DEF RunningHasLoop
    <3>2. CASE running /\ loop[l] = "cancelled"
      <4>1. PICK m \in Loops : Alive(m)
        BY <3>2 DEF RunningHasLoop
      <4>2. m # l
        BY <3>2, <4>1 DEF Alive
      <4>. QED BY <2>2, <4>1, <4>2 DEF RunningHasLoop, Alive
    <3>. QED BY <2>1, <2>3, <3>1, <3>2 DEF RunningHasLoop
  <2>. QED BY <2>4, <2>5
<1>3. ASSUME NEW l \in Loops, Start(l)
      PROVE  CancelledIsJoined' /\ RunningHasLoop'
  <2>1. /\ loop'[l] = "created"
        /\ \A m \in Loops \ {l} : loop'[m] = loop[m]
        /\ UNCHANGED <<stopping, joining>>
    BY <1>3 DEF Start, TypeOK
  <2>. QED BY <2>1 DEF CancelledIsJoined, RunningHasLoop, Alive
<1>4. CASE StopBegins
  <2>1. ~running' /\ joining' = flushTask /\ \A l \in Loops : loop[l] # "cancelled"
    BY <1>4 DEF StopBegins, CancelledIsJoined
  <2>2. CASE flushTask = NoTask
    BY <1>4, <2>1, <2>2 DEF StopBegins, CancelledIsJoined, RunningHasLoop
  <2>3. CASE flushTask # NoTask
    <3>1. stopping' = "joining" /\ \A l \in Loops \ {flushTask} : loop'[l] = loop[l]
      BY <1>4, <2>3 DEF StopBegins, TypeOK
    <3>. QED BY <2>1, <3>1 DEF CancelledIsJoined, RunningHasLoop
  <2>. QED BY <2>2, <2>3
<1>5. CASE StopJoined
  <2>1. UNCHANGED <<loop, running>> /\ \A l \in Loops : loop[l] # "cancelled"
    BY <1>5 DEF StopJoined, Joined, CancelledIsJoined
  <2>. QED BY <2>1 DEF CancelledIsJoined, RunningHasLoop, Alive
<1>6. CASE StopFlushReturns
  <2>1. UNCHANGED <<loop, running>> /\ \A l \in Loops : loop[l] # "cancelled"
    BY <1>6 DEF StopFlushReturns, CancelledIsJoined
  <2>. QED BY <2>1 DEF CancelledIsJoined, RunningHasLoop, Alive
<1>7. CASE \/ \E c \in Publishers : PublishNext(c)
           \/ \E f \in FlushCallers : FlushByHand(f) \/ FlushByHandReturns(f)
           \/ \E f \in Flushers : IngestBatch(f)
           \/ GoesDown \/ ComesUp
  <2>1. UNCHANGED <<loop, stopping, joining, running>>
    BY <1>7 DEF PublishNext, PublishAttack, PublishBatch, PostOk, PostFails, IngestPost,
         FlushByHand, FlushByHandReturns, IngestBatch, GoesDown, ComesUp
  <2>. QED BY <1>1, <2>1
<1>. QED BY <1>2, <1>3, <1>4, <1>5, <1>6, <1>7 DEF Next

-----------------------------------------------------------------------------
(* What leaves the queue. *)

LEMMA ReturnLosesOnlyLate ==
  ASSUME TypeOK, FlushesKnow, NEW f \in Flushers, FlushReturns(f),
         NEW e \in Members(queue) \ Members(queue')
  PROVE  received[e] > 0 \/ \E g \in Flushers : e \in during[g]
<1>1. flush[f].wire = "ingested"
  BY FlushReturnDoes
<1>2. e \in Members(flush[f].batch) \cup during[f]
  BY <1>1 DEF FlushesKnow, Flushing
<1>. QED BY <1>1, <1>2 DEF FlushesKnow

LEMMA StepLosesOnlyLate ==
  ASSUME TypeOK, Homes, FlushesKnow, Next, NEW e \in Members(queue) \ Members(queue')
  PROVE  \/ received[e] > 0
         \/ e \in dropped'
         \/ \E f \in Flushers : e \in during[f]
<1>1. queue' # queue
  OBVIOUS
<1>2. CASE \E c \in Publishers : PublishNext(c)
  <2>1. PICK c \in Publishers : PublishNext(c)
    BY <1>2
  <2>2. PostFails(c)
    BY <1>1, <2>1 DEF PublishNext, PublishAttack, PublishBatch, PostOk, IngestPost
  <2>. QED BY <2>2, PostFailsDoes
<1>3. CASE \E f \in FlushCallers : FlushByHand(f) \/ FlushByHandReturns(f)
  BY <1>1, <1>3, ReturnLosesOnlyLate DEF FlushByHand, FlushByHandReturns, Flushers
<1>4. CASE \E l \in Loops : LoopNext(l) \/ Start(l)
  BY <1>1, <1>4, ReturnLosesOnlyLate
  DEF LoopNext, LoopStarts, LoopWakes, LoopFlushReturns, LoopCancelled, Start, Flushers
<1>5. CASE StopFlushReturns
  BY <1>5, ReturnLosesOnlyLate DEF StopFlushReturns, Flushers
<1>6. CASE \/ StopBegins \/ StopJoined \/ GoesDown \/ ComesUp
           \/ \E f \in Flushers : IngestBatch(f)
  BY <1>1, <1>6 DEF StopBegins, StopJoined, GoesDown, ComesUp, IngestBatch
<1>. QED BY <1>2, <1>3, <1>4, <1>5, <1>6 DEF Next

-----------------------------------------------------------------------------
(* The theorems *)

LEMMA PublisherStarts == Init => PublisherInv
<1>. SUFFICES ASSUME Init PROVE PublisherInv
  OBVIOUS
<1>1. TypeOK
  <2>1. queue \in Seq(Events) /\ Len(queue) <= MaxQueueSize
    BY PublisherAssumption DEF Init
  <2>2. pub \in [Publishers -> Posts] /\ flush \in [Flushers -> Flushes]
    BY DEF Init, Idle, NoFlush, Posts, Flushes
  <2>3. outages \in 0..MaxOutages
    BY PublisherAssumption DEF Init
  <2>4. /\ \A n \in {totalPublished, totalQueued, totalDropped, totalDelivered} : n \in Nat
        /\ flushTask \in Loops \cup {NoTask} /\ joining \in Loops \cup {NoTask}
        /\ stopping \in {"no", "joining", "flushing"}
    BY DEF Init
  <2>5. running \in BOOLEAN /\ up \in BOOLEAN /\ overlapped \in BOOLEAN
    BY Zenon DEF Init
  <2>6. /\ loop \in [Loops ->
             {"absent", "created", "sleeping", "flushing", "cancelled", "done"}]
        /\ received \in [Events -> 0..2] /\ credited \in [Events -> 0..2]
        /\ during \in [Flushers -> SUBSET Events]
    BY DEF Init
  <2>7. {acked, dropped, cleared} \subseteq SUBSET Events
    BY DEF Init
  <2>. QED BY <2>1, <2>2, <2>3, <2>4, <2>5, <2>6, <2>7 DEF TypeOK, Posts, Flushes
<1>2. Homes
  <2>1. \A c \in Publishers : pub[c] = Idle /\ pub[c].todo = <<>> /\ pub[c].wire = "none"
    BY DEF Init, Idle
  <2>2. \A c \in Publishers : Members(pub[c].todo) = {} /\ Injective(pub[c].todo)
    BY <2>1, NoMembers
  <2>3. Members(queue) = {} /\ DOMAIN queue = {}
    BY NoMembers DEF Init
  <2>4. CallsProper /\ TodoApart
    BY <2>1, <2>2 DEF CallsProper, TodoApart
  <2>5. OneHome
    BY <2>2, <2>3 DEF Init, OneHome
  <2>. QED BY <2>4, <2>5 DEF Homes
<1>3. FlushesKnow
  BY DEF Init, FlushesKnow, Flushing, NoFlush
<1>4. CancelledIsJoined /\ RunningHasLoop
  BY DEF Init, CancelledIsJoined, RunningHasLoop
<1>. QED BY <1>1, <1>2, <1>3, <1>4 DEF PublisherInv

LEMMA PublisherGoesOn == PublisherInv /\ [Next]_vars => PublisherInv'
<1>. SUFFICES ASSUME PublisherInv, [Next]_vars PROVE PublisherInv'
  OBVIOUS
<1>1. CASE Next
  BY <1>1, StepKeepsHomes, StepKeepsFlushes, StepKeepsLoops DEF PublisherInv
<1>2. CASE UNCHANGED vars
  <2>1. TypeOK'
    BY <1>2 DEF PublisherInv, vars, counters, history, TypeOK
  <2>2. Homes'
    BY <1>2, HomesStay DEF PublisherInv, vars, history
  <2>3. FlushesKnow'
    BY <1>2, KnowStay DEF PublisherInv, vars, history
  <2>4. CancelledIsJoined' /\ RunningHasLoop'
    BY <1>2 DEF PublisherInv, vars, CancelledIsJoined, RunningHasLoop, Alive
  <2>. QED BY <2>1, <2>2, <2>3, <2>4 DEF PublisherInv
<1>. QED BY <1>1, <1>2

LEMMA PublisherAlways == Spec => []PublisherInv
BY PublisherStarts, PublisherGoesOn, PTL DEF Spec

\* However publish calls, flushes, time-outs, start() and stop() interleave,
\* an event is to be posted by one call, once in the queue, acknowledged,
\* dropped or cleared, and never in two of these places.
THEOREM PublisherOneHome == Spec => []OneHome
<1>1. PublisherInv => OneHome
  BY DEF PublisherInv, Homes
<1>. QED BY <1>1, PublisherAlways, PTL

\* The queue keeps its bound, a publisher that is running has a loop nobody
\* has cancelled, and stop() flushes only after the loop it cancelled ended.
THEOREM PublisherLifecycle == Spec => []LifecycleIsSound
<1>1. PublisherInv => LifecycleIsSound
  <2>1. CancelledIsJoined => FinalFlushAfterJoin
    BY DEF CancelledIsJoined, FinalFlushAfterJoin
  <2>. QED BY <2>1 DEF PublisherInv, LifecycleIsSound
<1>. QED BY <1>1, PublisherAlways, PTL

\* An event that leaves the queue was ingested, was dropped, or was queued
\* while a flush was in flight: a flush loses nothing that it sent.
THEOREM PublisherLosesOnlyLate == Spec => LossOnlyDuringFlush
<1>. DEFINE Accounted == \A e \in Members(queue) \ Members(queue') :
                           \/ received[e] > 0
                           \/ e \in dropped'
                           \/ \E f \in Flushers : e \in during[f]
<1>1. PublisherInv /\ [Next]_vars => [Accounted]_vars
  BY StepLosesOnlyLate DEF PublisherInv
<1>. QED BY <1>1, PublisherAlways, PTL DEF Spec, LossOnlyDuringFlush

-----------------------------------------------------------------------------
(* The statistics.  Their inductive invariant adds to StatsAreTrue what is  *)
(* counted (finite sets), what a POST in flight knows of Corporeus, and     *)
(* where the events of a batch in flight are.                               *)

Busy == {c \in Publishers : pub[c] # Idle}

Balance ==
  /\ IsFiniteSet(Busy)
  /\ IsFiniteSet(acked) /\ IsFiniteSet(dropped) /\ IsFiniteSet(cleared)
  /\ CountersBalance

PostsHonest ==
  \A c \in Publishers : pub[c].wire = "ingested" => received[Head(pub[c].todo)] > 0

\* An event of a batch in flight still waits, or has been settled meanwhile;
\* no call is to post it.
BatchesPlaced ==
  \A f \in Flushers : Flushing(f) =>
    Members(flush[f].batch) \subseteq Members(queue) \cup dropped \cup cleared

\* Until flushes overlap, an event that was counted is settled and in no
\* batch in flight: nothing will count it again.
CreditedAreSettled ==
  ~overlapped =>
    /\ \A f, g \in Flushers : Flushing(f) /\ Flushing(g) => f = g
    /\ \A e \in Events : credited[e] > 0 =>
         /\ credited[e] = 1
         /\ e \in acked \cup dropped \cup cleared
         /\ \A f \in Flushers : Flushing(f) => e \notin Members(flush[f].batch)

StatsInv ==
  Balance /\ PostsHonest /\ NoFalseDelivery /\ BatchesPlaced /\ CreditedAreSettled

LEMMA InjectiveCardinality ==
  ASSUME NEW S, NEW s \in Seq(S), Injective(s)
  PROVE  IsFiniteSet(Members(s)) /\ Cardinality(Members(s)) = Len(s)
<1>1. Len(s) \in Nat /\ Members(s) = {s[k] : k \in 1..Len(s)}
  BY MembersType
<1>. DEFINE b == [k \in 1..Len(s) |-> s[k]]
<1>2. b \in [1..Len(s) -> Members(s)]
  BY <1>1
<1>3. \A j, k \in 1..Len(s) : b[j] = b[k] => j = k
  BY DEF Injective
<1>4. \A x \in Members(s) : \E k \in 1..Len(s) : b[k] = x
  BY <1>1
<1>. HIDE DEF b
<1>5. ExistsBijection(1..Len(s), Members(s))
  <2>1. b \in Bijection(1..Len(s), Members(s))
    BY <1>2, <1>3, <1>4, Zenon DEF Bijection, Injection, Surjection, IsInjective
  <2>. QED BY <2>1, Zenon DEF ExistsBijection
<1>. QED BY <1>1, <1>5, FS_CountingElements, FS_NatBijection

-----------------------------------------------------------------------------
(* What a step is to the statistics. *)

Starts(c) ==
  /\ pub[c] = Idle
  /\ pub'[c] # Idle /\ pub'[c].wire = "sent"
  /\ \A d \in Publishers \ {c} : pub'[d] = pub[d]
  /\ totalPublished' = totalPublished + 1
  /\ UNCHANGED <<queue, totalQueued, totalDropped, flush, history>>

\* The end of a POST, abandoned with its task or answered.
Ends(f) ==
  /\ flush' = [flush EXCEPT ![f] = NoFlush]
  /\ UNCHANGED <<queue, counters, pub, received, credited, acked, dropped, cleared,
                 overlapped>>

Quiet ==
  UNCHANGED <<queue, counters, pub, flush, received, credited, acked, dropped,
              cleared, overlapped>>

StatsStep ==
  \/ \E c \in Publishers : Starts(c) \/ PostOk(c) \/ PostFails(c) \/ IngestPost(c)
  \/ \E f \in Flushers :
       \/ BeginFlush(f) /\ UNCHANGED <<queue, counters, pub>>
       \/ FlushOk(f) /\ UNCHANGED pub
       \/ Ends(f)
       \/ IngestBatch(f)
  \/ Quiet

LEMMA FlushReturnIs ==
  ASSUME NEW f \in Flushers, FlushReturns(f), UNCHANGED pub
  PROVE  StatsStep
BY DEF FlushReturns, FlushFails, Ends, StatsStep

LEMMA FinalFlushIs ==
  ASSUME FinalFlush, UNCHANGED <<queue, counters, pub>>
  PROVE  StatsStep
<1>1. Stopper \in Flushers
  BY DEF Flushers
<1>2. CASE queue = <<>>
  BY <1>2 DEF FinalFlush, StatsStep, Quiet, history
<1>3. CASE queue # <<>>
  BY <1>1, <1>3 DEF FinalFlush, StatsStep
<1>. QED BY <1>2, <1>3

LEMMA PublishIs ==
  ASSUME TypeOK, NEW c \in Publishers, PublishNext(c)
  PROVE  StatsStep
<1>1. ASSUME NEW kind, NEW es, BeginPost(c, kind, es)
      PROVE  /\ pub'[c] # Idle /\ pub'[c].wire = "sent"
             /\ \A d \in Publishers \ {c} : pub'[d] = pub[d]
             /\ totalPublished' = totalPublished + 1
  <2>. DEFINE new == [kind |-> kind, todo |-> es, wire |-> "sent"]
  <2>1. pub' = [pub EXCEPT ![c] = new] /\ totalPublished' = totalPublished + 1
    BY <1>1 DEF BeginPost
  <2>2. new.wire = "sent" /\ Idle.wire = "none"
    BY DEF Idle
  <2>. HIDE DEF new
  <2>3. DOMAIN pub = Publishers
    BY DEF TypeOK
  <2>. QED BY <2>1, <2>2, <2>3
<1>2. CASE \/ \E e \in Events : PublishAttack(c, e)
           \/ \E es \in Batches : PublishBatch(c, es)
  <2>1. PICK kind \in {"attack", "batch"}, es \in Batches \cup {<<e>> : e \in Events} :
          /\ pub[c] = Idle
          /\ BeginPost(c, kind, es)
          /\ UNCHANGED <<queue, totalQueued, totalDropped, flush, history>>
    BY <1>2 DEF PublishAttack, PublishBatch
  <2>2. Starts(c)
    BY <1>1, <2>1 DEF Starts
  <2>. QED BY <2>2 DEF StatsStep
<1>. QED BY <1>2 DEF PublishNext, StatsStep

LEMMA StepIsOne ==
  ASSUME TypeOK, [Next]_vars
  PROVE  StatsStep
<1>1. CASE UNCHANGED vars
  BY <1>1 DEF vars, history, StatsStep, Quiet
<1>2. ASSUME NEW f \in FlushCallers, FlushByHand(f) \/ FlushByHandReturns(f)
      PROVE  StatsStep
  BY <1>2, FlushReturnIs DEF FlushByHand, FlushByHandReturns, StatsStep, Flushers
<1>3. ASSUME NEW l \in Loops, LoopNext(l) \/ Start(l)
      PROVE  StatsStep
  <2>1. l \in Flushers
    BY DEF Flushers
  <2>2. CASE LoopStarts(l) \/ Start(l)
    BY <2>2 DEF LoopStarts, Start, StatsStep, Quiet, history
  <2>3. CASE LoopWakes(l)
    BY <2>1, <2>3 DEF LoopWakes, StatsStep, Quiet, history
  <2>4. CASE LoopFlushReturns(l)
    BY <2>1, <2>4, FlushReturnIs DEF LoopFlushReturns
  <2>5. CASE LoopCancelled(l)
    BY <2>1, <2>5 DEF LoopCancelled, Ends, StatsStep
  <2>. QED BY <1>3, <2>2, <2>3, <2>4, <2>5 DEF LoopNext
<1>4. CASE StopBegins
  BY <1>4, FinalFlushIs DEF StopBegins, StatsStep, Quiet, history
<1>5. CASE StopJoined
  BY <1>5, FinalFlushIs DEF StopJoined
<1>6. CASE StopFlushReturns
  BY <1>6, FlushReturnIs DEF StopFlushReturns, Flushers
<1>7. CASE GoesDown \/ ComesUp
  BY <1>7 DEF GoesDown, ComesUp, StatsStep, Quiet, history
<1>8. CASE \E f \in Flushers : IngestBatch(f)
  BY <1>8 DEF StatsStep
<1>. QED BY <1>1, <1>2, <1>3, <1>4, <1>5, <1>6, <1>7, <1>8, PublishIs DEF Next

-----------------------------------------------------------------------------
(* The counters add up. *)

LEMMA BalanceStays ==
  ASSUME Balance, Busy' = Busy,
         UNCHANGED <<queue, totalPublished, totalQueued, totalDropped, acked,
                     dropped, cleared>>
  PROVE  Balance'
<1>1. CountersBalance'
  BY DEF Balance, CountersBalance, Busy
<1>. QED BY <1>1 DEF Balance

\* The call that begins is one more published, and one more being posted.
LEMMA StartsBalances ==
  ASSUME TypeOK, Balance, NEW c \in Publishers, Starts(c)
  PROVE  Balance'
<1>1. c \notin Busy /\ Busy' = Busy \cup {c}
  BY DEF Starts, Busy
<1>2. IsFiniteSet(Busy') /\ Cardinality(Busy') = Cardinality(Busy) + 1
  BY <1>1, FS_AddElement DEF Balance
<1>3. /\ Cardinality(Busy) \in Nat /\ Cardinality(acked) \in Nat
      /\ totalPublished \in Nat /\ totalQueued \in Nat
  BY FS_CardinalityType DEF Balance, TypeOK
<1>4. /\ totalPublished' = totalPublished + 1
      /\ UNCHANGED <<queue, totalQueued, totalDropped, acked, dropped, cleared>>
  BY DEF Starts, history
<1>5. CountersBalance'
  BY <1>2, <1>3, <1>4 DEF Balance, CountersBalance, Busy
<1>. QED BY <1>2, <1>4, <1>5 DEF Balance

\* A call that is done with an event ends or publishes its next one.
LEMMA BusyAfterPost ==
  ASSUME TypeOK, Balance, NEW c \in Publishers, pub[c].wire # "none", NextPost(c)
  PROVE  /\ IsFiniteSet(Busy')
         /\ \/ /\ totalPublished' = totalPublished
               /\ Cardinality(Busy') = Cardinality(Busy) - 1
            \/ /\ totalPublished' = totalPublished + 1
               /\ Cardinality(Busy') = Cardinality(Busy)
<1>1. pub \in [Publishers -> Posts] /\ c \in Busy
  BY DEF TypeOK, Posts, Busy, Idle
<1>2. CASE Tail(pub[c].todo) = <<>>
  <2>1. pub' = [pub EXCEPT ![c] = Idle] /\ totalPublished' = totalPublished
    BY <1>2 DEF NextPost
  <2>2. Busy' = Busy \ {c}
    BY <1>1, <2>1 DEF Busy
  <2>. QED BY <1>1, <2>1, <2>2, FS_RemoveElement DEF Balance
<1>3. CASE Tail(pub[c].todo) # <<>>
  <2>. DEFINE next == [kind |-> pub[c].kind, todo |-> Tail(pub[c].todo), wire |-> "sent"]
  <2>1. pub' = [pub EXCEPT ![c] = next] /\ totalPublished' = totalPublished + 1
    BY <1>3 DEF NextPost, BeginPost
  <2>2. next # Idle
    BY DEF Idle
  <2>. HIDE DEF next
  <2>3. Busy' = Busy
    BY <1>1, <2>1, <2>2 DEF Busy
  <2>. QED BY <2>1, <2>3 DEF Balance
<1>. QED BY <1>2, <1>3

LEMMA PostOkBalances ==
  ASSUME TypeOK, Homes, Balance, NEW c \in Publishers, PostOk(c)
  PROVE  Balance'
<1>. DEFINE e == Head(pub[c].todo)
<1>1. pub[c].wire = "ingested" /\ pub[c].todo \in Seq(Events) /\ pub[c].todo # <<>>
  BY DEF PostOk, TypeOK, Homes, CallsProper
<1>2. e \notin acked
  <2>1. e \in Members(pub[c].todo)
    BY <1>1, TailMembers
  <2>. QED BY <2>1 DEF Homes, OneHome
<1>3. /\ acked' = acked \cup {e}
      /\ UNCHANGED <<queue, totalQueued, totalDropped, dropped, cleared>>
  BY DEF PostOk
<1>. HIDE DEF e
<1>4. IsFiniteSet(acked') /\ Cardinality(acked') = Cardinality(acked) + 1
  BY <1>2, <1>3, FS_AddElement DEF Balance
<1>5. /\ IsFiniteSet(Busy')
      /\ \/ /\ totalPublished' = totalPublished
            /\ Cardinality(Busy') = Cardinality(Busy) - 1
         \/ /\ totalPublished' = totalPublished + 1
            /\ Cardinality(Busy') = Cardinality(Busy)
  BY <1>1, BusyAfterPost DEF PostOk
<1>6. /\ Cardinality(Busy) \in Nat /\ Cardinality(acked) \in Nat
      /\ totalPublished \in Nat /\ totalQueued \in Nat
  BY FS_CardinalityType DEF Balance, TypeOK
<1>7. CountersBalance'
  <2>1. totalPublished = totalQueued + Cardinality(acked) + Cardinality(Busy)
    BY DEF Balance, CountersBalance, Busy
  <2>2. totalPublished' = totalQueued' + Cardinality(acked') + Cardinality(Busy')
    BY <1>3, <1>4, <1>5, <1>6, <2>1
  <2>. QED BY <1>3, <2>2 DEF Balance, CountersBalance, Busy
<1>. QED BY <1>3, <1>4, <1>5, <1>7 DEF Balance

\* An event that is queued takes a free place or that of the one dropped.
LEMMA EnqueueBalances ==
  ASSUME TypeOK, Balance, NEW e \in Events, Enqueue(e),
         Members(queue) \cap dropped = {}
  PROVE  /\ IsFiniteSet(dropped') /\ totalDropped' = Cardinality(dropped')
         /\ totalQueued' = totalQueued + 1
         /\ Len(queue') + totalDropped' = Len(queue) + totalDropped + 1
<1>1. /\ queue \in Seq(Events) /\ Len(queue) \in Nat /\ Len(queue) <= MaxQueueSize
      /\ MaxQueueSize \in Nat \ {0}
      /\ totalDropped \in Nat /\ IsFiniteSet(dropped) /\ totalDropped = Cardinality(dropped)
  BY PublisherAssumption DEF TypeOK, Balance, CountersBalance
<1>2. CASE Full
  <2>1. queue # <<>>
    BY <1>1, <1>2 DEF Full
  <2>2. /\ Tail(queue) \in Seq(Events) /\ Len(Tail(queue)) = Len(queue) - 1
        /\ Head(queue) \in Members(queue)
    BY <1>1, <2>1, TailMembers
  <2>3. /\ queue' = Append(Tail(queue), e)
        /\ totalDropped' = totalDropped + 1
        /\ dropped' = dropped \cup {Head(queue)}
        /\ totalQueued' = totalQueued + 1
    <3>1. Len(Tail(queue)) < MaxQueueSize
      BY <1>1, <2>2
    <3>. QED BY <1>2, <3>1, Zenon DEF Enqueue, Pushed
  <2>4. IsFiniteSet(dropped') /\ Cardinality(dropped') = Cardinality(dropped) + 1
    <3>1. PICK d : d = Head(queue)
      OBVIOUS
    <3>2. d \notin dropped
      BY <2>2, <3>1
    <3>3. dropped' = dropped \cup {d}
      BY <2>3, <3>1
    <3>4. /\ IsFiniteSet(dropped \cup {d})
          /\ Cardinality(dropped \cup {d}) = Cardinality(dropped) + 1
      BY <1>1, <3>2, FS_AddElement
    <3>. QED BY <3>3, <3>4, Zenon
  <2>5. Len(queue') = Len(queue)
    BY <1>1, <2>2, <2>3, AppendMembers
  <2>6. totalDropped' = Cardinality(dropped')
    <3>1. totalDropped = Cardinality(dropped)
      BY <1>1
    <3>. QED BY <2>3, <2>4, <3>1, Zenon
  <2>7. Len(queue') + totalDropped' = Len(queue) + totalDropped + 1
    <3>1. totalDropped' = totalDropped + 1 /\ Len(queue) \in Nat /\ totalDropped \in Nat
      BY <1>1, <2>3
    <3>2. Len(queue) + (totalDropped + 1) = Len(queue) + totalDropped + 1
      BY <3>1
    <3>. QED BY <2>5, <3>1, <3>2, Zenon
  <2>. QED BY <2>3, <2>4, <2>6, <2>7
<1>3. CASE ~Full
  <2>1. /\ queue' = Append(queue, e)
        /\ UNCHANGED <<totalDropped, dropped>>
        /\ totalQueued' = totalQueued + 1
    BY <1>1, <1>3 DEF Enqueue, Pushed, Full
  <2>2. Len(queue') = Len(queue) + 1
    BY <1>1, <2>1, AppendMembers
  <2>. QED BY <1>1, <2>1, <2>2
<1>. QED BY <1>2, <1>3

LEMMA PostFailsBalances ==
  ASSUME TypeOK, Homes, Balance, NEW c \in Publishers, PostFails(c)
  PROVE  Balance'
<1>1. pub[c].wire # "none" /\ pub[c].todo \in Seq(Events) /\ pub[c].todo # <<>>
  BY DEF PostFails, GivesUp, TypeOK, Homes, CallsProper
<1>2. Head(pub[c].todo) \in Events
  BY <1>1
<1>3. Enqueue(Head(pub[c].todo)) /\ UNCHANGED <<acked, cleared>>
  BY DEF PostFails
<1>4. Members(queue) \cap dropped = {}
  BY DEF Homes, OneHome
<1>5. /\ IsFiniteSet(dropped') /\ totalDropped' = Cardinality(dropped')
      /\ totalQueued' = totalQueued + 1
      /\ Len(queue') + totalDropped' = Len(queue) + totalDropped + 1
  BY <1>2, <1>3, <1>4, EnqueueBalances
<1>6. /\ IsFiniteSet(Busy')
      /\ \/ /\ totalPublished' = totalPublished
            /\ Cardinality(Busy') = Cardinality(Busy) - 1
         \/ /\ totalPublished' = totalPublished + 1
            /\ Cardinality(Busy') = Cardinality(Busy)
  BY <1>1, BusyAfterPost DEF PostFails
<1>7. /\ Cardinality(Busy) \in Nat /\ Cardinality(acked) \in Nat
      /\ Cardinality(cleared) \in Nat
      /\ totalPublished \in Nat /\ totalQueued \in Nat /\ totalDropped \in Nat
      /\ Len(queue) \in Nat
  BY FS_CardinalityType DEF Balance, TypeOK
<1>8. CountersBalance'
  <2>1. /\ totalPublished = totalQueued + Cardinality(acked) + Cardinality(Busy)
        /\ totalQueued = Len(queue) + totalDropped + Cardinality(cleared)
    BY DEF Balance, CountersBalance, Busy
  <2>2. totalPublished' = totalQueued' + Cardinality(acked') + Cardinality(Busy')
    <3>1. Cardinality(acked') = Cardinality(acked) /\ totalQueued' = totalQueued + 1
      BY <1>3, <1>5
    <3>2. CASE /\ totalPublished' = totalPublished
               /\ Cardinality(Busy') = Cardinality(Busy) - 1
      BY <1>7, <2>1, <3>1, <3>2
    <3>3. CASE /\ totalPublished' = totalPublished + 1
               /\ Cardinality(Busy') = Cardinality(Busy)
      <4>1. totalPublished + 1
              = (totalQueued + 1) + Cardinality(acked) + Cardinality(Busy)
        BY <1>7, <2>1
      <4>. QED BY <3>1, <3>3, <4>1, Zenon
    <3>. QED BY <1>6, <3>2, <3>3
  <2>3. totalQueued' = (Len(queue') + totalDropped') + Cardinality(cleared')
    BY <1>3, <1>5, <1>7, <2>1
  <2>. QED BY <1>5, <2>2, <2>3 DEF CountersBalance, Busy
<1>. QED BY <1>3, <1>5, <1>6, <1>8 DEF Balance

\* Clearing the queue moves as many events as it held to the cleared ones.
LEMMA FlushOkBalances ==
  ASSUME TypeOK, Homes, Balance, NEW f \in Flushers, FlushOk(f), UNCHANGED pub
  PROVE  Balance'
<1>1. /\ queue' = <<>> /\ cleared' = cleared \cup Members(queue)
      /\ UNCHANGED <<totalPublished, totalQueued, totalDropped, acked, dropped>>
  BY NoMembers DEF FlushOk, QueueAfterOk
<1>2. Members(queue) \cap cleared = {}
  BY DEF Homes, OneHome
<1>3. IsFiniteSet(Members(queue)) /\ Cardinality(Members(queue)) = Len(queue)
  <2>1. queue \in Seq(Events) /\ DOMAIN queue = 1..Len(queue)
    BY DEF TypeOK
  <2>. QED BY <2>1, InjectiveCardinality DEF Homes, OneHome, Injective
<1>4. /\ IsFiniteSet(cleared')
      /\ Cardinality(cleared') = Cardinality(cleared) + Len(queue)
  <2>1. cleared \cap Members(queue) = {} /\ Cardinality({}) = 0
    BY <1>2, FS_EmptySet
  <2>2. /\ IsFiniteSet(cleared \cup Members(queue))
        /\ Cardinality(cleared \cup Members(queue))
             = Cardinality(cleared) + Cardinality(Members(queue))
               - Cardinality(cleared \cap Members(queue))
    BY <1>3, FS_Union DEF Balance
  <2>3. Cardinality(cleared) \in Nat /\ Len(queue) \in Nat
    BY FS_CardinalityType DEF Balance, TypeOK
  <2>4. Cardinality(cleared \cap Members(queue)) = 0
    BY <2>1
  <2>. QED BY <1>1, <1>3, <2>2, <2>3, <2>4
<1>5. Busy' = Busy /\ Len(queue') = 0
  BY <1>1 DEF Busy
<1>6. Cardinality(cleared) \in Nat /\ Len(queue) \in Nat /\ totalDropped \in Nat
  BY FS_CardinalityType DEF Balance, TypeOK
<1>7. CountersBalance'
  <2>1. /\ totalPublished = totalQueued + Cardinality(acked) + Cardinality(Busy)
        /\ totalQueued = Len(queue) + totalDropped + Cardinality(cleared)
        /\ totalDropped = Cardinality(dropped)
    BY DEF Balance, CountersBalance, Busy
  <2>2. totalQueued' = Len(queue') + totalDropped' + Cardinality(cleared')
    BY <1>1, <1>4, <1>5, <1>6, <2>1
  <2>. QED BY <1>1, <1>5, <2>1, <2>2 DEF CountersBalance, Busy
<1>. QED BY <1>1, <1>4, <1>5, <1>7 DEF Balance

LEMMA StepBalances ==
  ASSUME TypeOK, Homes, Balance, StatsStep
  PROVE  Balance'
<1>1. ASSUME NEW c \in Publishers, IngestPost(c) PROVE Balance'
  <2>1. /\ pub' = [pub EXCEPT ![c].wire = "ingested"]
        /\ pub[c].wire = "sent"
        /\ UNCHANGED <<queue, counters, acked, dropped, cleared>>
    BY <1>1 DEF IngestPost
  <2>2. pub \in [Publishers -> Posts]
    BY DEF TypeOK, Posts
  <2>3. pub[c] # Idle /\ pub'[c] # Idle /\ \A d \in Publishers \ {c} : pub'[d] = pub[d]
    BY <2>1, <2>2 DEF Idle, Posts
  <2>4. Busy' = Busy
    BY <2>3 DEF Busy
  <2>. QED BY <2>1, <2>4, BalanceStays DEF counters
<1>2. ASSUME NEW f \in Flushers,
             \/ BeginFlush(f) /\ UNCHANGED <<queue, counters, pub>>
             \/ Ends(f)
             \/ IngestBatch(f)
      PROVE  Balance'
  <2>1. UNCHANGED <<queue, counters, pub, acked, dropped, cleared>>
    BY <1>2 DEF BeginFlush, Ends, IngestBatch
  <2>. QED BY <2>1, BalanceStays DEF counters, Busy
<1>3. CASE Quiet
  BY <1>3, BalanceStays DEF Quiet, counters, Busy
<1>. QED
  BY <1>1, <1>2, <1>3, StartsBalances, PostOkBalances, PostFailsBalances,
     FlushOkBalances DEF StatsStep

-----------------------------------------------------------------------------
(* Nothing is counted as delivered that Corporeus has not ingested. *)

LEMMA ReceivedGrows ==
  ASSUME TypeOK, StatsStep
  PROVE  \A e \in Events : received[e] > 0 => received'[e] > 0
<1>1. CASE UNCHANGED received
  BY <1>1
<1>2. ASSUME NEW es, Ingest(es)
      PROVE  \A e \in Events : received[e] > 0 => received'[e] > 0
  BY <1>2, IngestDoes
<1>. QED
  BY <1>1, <1>2 DEF StatsStep, Starts, history, PostOk, PostFails, IngestPost,
     BeginFlush, FlushOk, Ends, IngestBatch, Quiet

LEMMA StepKeepsHonest ==
  ASSUME TypeOK, Homes, PostsHonest, StatsStep
  PROVE  PostsHonest'
<1>1. \A e \in Events : received[e] > 0 => received'[e] > 0
  BY ReceivedGrows
<1>2. pub \in [Publishers -> Posts]
      /\ \A c \in Publishers : pub[c].wire # "none" => Head(pub[c].todo) \in Events
  BY DEF TypeOK, Posts, Homes, CallsProper
<1>3. ASSUME NEW c \in Publishers, Starts(c) \/ PostOk(c) \/ PostFails(c)
      PROVE  PostsHonest'
  <2>1. \A d \in Publishers \ {c} : pub'[d] = pub[d]
    BY <1>2, <1>3 DEF Starts, PostOk, PostFails, NextPost, BeginPost
  <2>2. pub'[c].wire # "ingested"
    <3>1. CASE Starts(c)
      BY <3>1 DEF Starts
    <3>2. CASE NextPost(c)
      BY <1>2, <3>2 DEF NextPost, BeginPost, Idle
    <3>. QED BY <1>3, <3>1, <3>2 DEF PostOk, PostFails
  <2>. QED BY <1>1, <1>2, <2>1, <2>2 DEF PostsHonest
<1>4. ASSUME NEW c \in Publishers, IngestPost(c)
      PROVE  PostsHonest'
  <2>1. /\ pub' = [pub EXCEPT ![c].wire = "ingested"] /\ pub[c].wire = "sent"
        /\ Ingest({Head(pub[c].todo)})
    BY <1>4 DEF IngestPost
  <2>2. /\ \A d \in Publishers \ {c} : pub'[d] = pub[d]
        /\ pub'[c].todo = pub[c].todo
    BY <1>2, <2>1 DEF Posts
  <2>3. received'[Head(pub[c].todo)] > 0
    BY <1>2, <2>1, IngestDoes
  <2>. QED BY <1>1, <1>2, <2>2, <2>3 DEF PostsHonest
<1>5. CASE UNCHANGED pub
  BY <1>1, <1>2, <1>5 DEF PostsHonest
<1>. QED
  BY <1>3, <1>4, <1>5 DEF StatsStep, Ends, IngestBatch, Quiet

LEMMA StepCreditsReceived ==
  ASSUME TypeOK, Homes, FlushesKnow, PostsHonest, NoFalseDelivery, StatsStep
  PROVE  NoFalseDelivery'
<1>1. \A e \in Events : received[e] > 0 => received'[e] > 0
  BY ReceivedGrows
<1>2. ASSUME NEW c \in Publishers, PostOk(c)
      PROVE  NoFalseDelivery'
  <2>1. /\ received[Head(pub[c].todo)] > 0
        /\ credited' = [credited EXCEPT ![Head(pub[c].todo)] = Often(@)]
    BY <1>2 DEF PostOk, PostsHonest
  <2>2. \A e \in Events \ {Head(pub[c].todo)} : credited'[e] = credited[e]
    BY <2>1 DEF TypeOK
  <2>. QED BY <1>1, <2>1, <2>2 DEF NoFalseDelivery
<1>3. ASSUME NEW f \in Flushers, FlushOk(f)
      PROVE  NoFalseDelivery'
  <2>1. \A e \in Members(flush[f].batch) : received[e] > 0
    BY <1>3 DEF FlushOk, FlushesKnow
  <2>2. \A e \in Events \ Members(flush[f].batch) : credited'[e] = credited[e]
    BY <1>3 DEF FlushOk, Confirmed
  <2>. QED BY <1>1, <2>1, <2>2 DEF NoFalseDelivery
<1>4. CASE UNCHANGED credited
  BY <1>1, <1>4 DEF NoFalseDelivery
<1>. QED
  BY <1>2, <1>3, <1>4 DEF StatsStep, Starts, history, PostFails, IngestPost,
     BeginFlush, Ends, IngestBatch, Quiet

-----------------------------------------------------------------------------
(* Nothing is counted twice unless flushes overlap. *)

\* What a flush that is confirmed, abandoned or failed leaves in flight.
LEMMA OthersFly ==
  ASSUME TypeOK, NEW f \in Flushers, flush' = [flush EXCEPT ![f] = NoFlush]
  PROVE  /\ ~ Flushing(f)'
         /\ \A g \in Flushers : Flushing(g)' => Flushing(g) /\ flush'[g] = flush[g]
BY DEF TypeOK, Flushing, NoFlush

LEMMA IngestedBatch ==
  ASSUME TypeOK, NEW f \in Flushers, IngestBatch(f)
  PROVE  \A g \in Flushers : /\ Flushing(g)' = Flushing(g)
                             /\ flush'[g].batch = flush[g].batch
<1>1. /\ flush' = [flush EXCEPT ![f].wire = "ingested"] /\ flush[f].wire = "sent"
      /\ flush \in [Flushers -> Flushes]
  BY DEF IngestBatch, TypeOK, Flushes
<1>2. \A g \in Flushers \ {f} : flush'[g] = flush[g]
  BY <1>1
<1>3. flush'[f].batch = flush[f].batch /\ flush'[f].wire = "ingested"
  BY <1>1 DEF Flushes
<1>. QED BY <1>1, <1>2, <1>3 DEF Flushing

LEMMA StepKeepsPlaced ==
  ASSUME TypeOK, Homes, BatchesPlaced, StatsStep
  PROVE  BatchesPlaced'
<1>1. ASSUME NEW c \in Publishers, PostFails(c) PROVE BatchesPlaced'
  <2>1. PICK e \in Events :
          /\ UNCHANGED flush
          /\ \E gone \in SUBSET Members(queue) :
               /\ dropped' = dropped \cup gone
               /\ Members(queue') = (Members(queue) \ gone) \cup {e}
    BY <1>1, PostFailsDoes
  <2>2. cleared' = cleared
    BY <1>1 DEF PostFails
  <2>. QED BY <2>1, <2>2 DEF BatchesPlaced, Flushing
<1>2. ASSUME NEW f \in Flushers, BeginFlush(f), UNCHANGED queue PROVE BatchesPlaced'
  <2>1. /\ flush' = [flush EXCEPT ![f] = [batch |-> queue, wire |-> "sent"]]
        /\ UNCHANGED <<dropped, cleared>>
    BY <1>2, BeginFlushDoes
  <2>2. /\ flush'[f].batch = queue /\ \A g \in Flushers \ {f} : flush'[g] = flush[g]
        /\ Members(queue') = Members(queue)
    BY <1>2, <2>1 DEF TypeOK
  <2>. QED BY <2>1, <2>2 DEF BatchesPlaced, Flushing
<1>3. ASSUME NEW f \in Flushers, FlushOk(f) PROVE BatchesPlaced'
  <2>1. /\ flush' = [flush EXCEPT ![f] = NoFlush]
        /\ Members(queue') = {} /\ cleared' = cleared \cup Members(queue)
        /\ dropped' = dropped
    BY <1>3, NoMembers DEF FlushOk, QueueAfterOk
  <2>. QED BY <2>1, OthersFly DEF BatchesPlaced
<1>4. ASSUME NEW f \in Flushers, Ends(f) PROVE BatchesPlaced'
  <2>1. /\ flush' = [flush EXCEPT ![f] = NoFlush]
        /\ Members(queue') = Members(queue) /\ UNCHANGED <<dropped, cleared>>
    BY <1>4 DEF Ends
  <2>. QED BY <2>1, OthersFly DEF BatchesPlaced
<1>5. ASSUME NEW f \in Flushers, IngestBatch(f) PROVE BatchesPlaced'
  <2>1. Members(queue') = Members(queue) /\ UNCHANGED <<dropped, cleared>>
    BY <1>5 DEF IngestBatch
  <2>. QED BY <1>5, <2>1, IngestedBatch DEF BatchesPlaced
<1>6. CASE UNCHANGED <<queue, flush, dropped, cleared>>
  <2>1. Members(queue') = Members(queue)
    BY <1>6
  <2>. QED BY <1>6, <2>1 DEF BatchesPlaced, Flushing
<1>. QED
  BY <1>1, <1>2, <1>3, <1>4, <1>5, <1>6
  DEF StatsStep, Starts, history, PostOk, IngestPost, Quiet

\* A POST of its own credits an event nobody has yet credited.
LEMMA PostOkCreditsOnce ==
  ASSUME TypeOK, Homes, BatchesPlaced, CreditedAreSettled, NEW c \in Publishers, PostOk(c)
  PROVE  CreditedAreSettled'
<1>. SUFFICES ASSUME ~ overlapped, NEW e \in Events, credited'[e] > 0
     PROVE  /\ credited'[e] = 1
            /\ e \in acked' \cup dropped' \cup cleared'
            /\ \A f \in Flushers : Flushing(f) => e \notin Members(flush[f].batch)
  BY DEF CreditedAreSettled, PostOk, Flushing
<1>1. PICK h \in Events : h = Head(pub[c].todo) /\ h \in Members(pub[c].todo)
  <2>1. pub[c].todo \in Seq(Events) /\ pub[c].todo # <<>>
    BY DEF PostOk, TypeOK, Homes, CallsProper
  <2>. QED BY <2>1, TailMembers
<1>2. h \notin acked \cup dropped \cup cleared \cup Members(queue)
  BY <1>1 DEF Homes, OneHome
<1>3. /\ credited' = [credited EXCEPT ![h] = Often(@)]
      /\ acked' = acked \cup {h} /\ UNCHANGED <<dropped, cleared>>
  BY <1>1 DEF PostOk
<1>4. CASE e = h
  <2>1. credited[h] = 0
    BY <1>2 DEF TypeOK, CreditedAreSettled
  <2>2. credited'[h] = 1
    BY <1>3, <2>1 DEF TypeOK, Often
  <2>. QED BY <1>2, <1>3, <1>4, <2>2 DEF BatchesPlaced
<1>5. CASE e # h
  BY <1>3, <1>5 DEF TypeOK, CreditedAreSettled
<1>. QED BY <1>4, <1>5

\* The only flush in flight credits its batch, which it or the full queue
\* has settled by then.
LEMMA FlushOkCreditsOnce ==
  ASSUME TypeOK, BatchesPlaced, CreditedAreSettled, NEW f \in Flushers, FlushOk(f)
  PROVE  CreditedAreSettled'
<1>. SUFFICES ASSUME ~ overlapped PROVE CreditedAreSettled'
  BY DEF CreditedAreSettled, FlushOk
<1>1. /\ flush' = [flush EXCEPT ![f] = NoFlush] /\ flush[f].wire = "ingested"
      /\ cleared' = cleared \cup Members(queue)
      /\ UNCHANGED <<acked, dropped>>
      /\ \A e \in Events : credited'[e] = IF e \in Members(flush[f].batch)
                                          THEN Often(credited[e]) ELSE credited[e]
  BY NoMembers DEF FlushOk, QueueAfterOk, Confirmed
<1>2. \A g \in Flushers : ~ Flushing(g)'
  BY <1>1, OthersFly DEF CreditedAreSettled, Flushing
<1>3. ASSUME NEW e \in Events, credited'[e] > 0
      PROVE  credited'[e] = 1 /\ e \in acked' \cup dropped' \cup cleared'
  <2>1. CASE e \in Members(flush[f].batch)
    <3>1. credited[e] = 0
      <4>1. ~ credited[e] > 0
        BY <1>1, <2>1 DEF CreditedAreSettled, Flushing
      <4>2. credited[e] \in 0..2
        BY DEF TypeOK
      <4>. QED BY <4>1, <4>2
    <3>2. credited'[e] = 1
      BY <1>1, <2>1, <3>1 DEF Often
    <3>. QED BY <1>1, <2>1, <3>2 DEF BatchesPlaced, Flushing
  <2>2. CASE e \notin Members(flush[f].batch)
    BY <1>1, <1>3, <2>2 DEF CreditedAreSettled
  <2>. QED BY <2>1, <2>2
<1>. QED BY <1>2, <1>3 DEF CreditedAreSettled

LEMMA StepCreditsOnce ==
  ASSUME TypeOK, Homes, BatchesPlaced, CreditedAreSettled, StatsStep
  PROVE  CreditedAreSettled'
<1>1. ASSUME NEW c \in Publishers, PostFails(c) PROVE CreditedAreSettled'
  <2>1. \E gone \in SUBSET Members(queue) : dropped' = dropped \cup gone
    BY <1>1, PostFailsDoes
  <2>2. UNCHANGED <<flush, credited, acked, cleared, overlapped>>
    BY <1>1 DEF PostFails
  <2>. QED BY <2>1, <2>2 DEF CreditedAreSettled, Flushing
<1>2. ASSUME NEW f \in Flushers, BeginFlush(f) PROVE CreditedAreSettled'
  <2>. SUFFICES ASSUME ~ overlapped' PROVE CreditedAreSettled'
    BY DEF CreditedAreSettled
  <2>1. ~ overlapped /\ \A g \in Flushers : ~ Flushing(g)
    BY <1>2 DEF BeginFlush
  <2>2. /\ flush' = [flush EXCEPT ![f] = [batch |-> queue, wire |-> "sent"]]
        /\ UNCHANGED <<credited, acked, dropped, cleared>>
    BY <1>2, BeginFlushDoes
  <2>3. flush'[f].batch = queue /\ \A g \in Flushers \ {f} : flush'[g] = flush[g]
    BY <2>2 DEF TypeOK
  <2>4. Members(queue) \cap (acked \cup dropped \cup cleared) = {}
    BY DEF Homes, OneHome
  <2>. QED BY <2>1, <2>2, <2>3, <2>4 DEF CreditedAreSettled, Flushing
<1>3. ASSUME NEW f \in Flushers, Ends(f) PROVE CreditedAreSettled'
  <2>1. /\ flush' = [flush EXCEPT ![f] = NoFlush]
        /\ UNCHANGED <<credited, acked, dropped, cleared, overlapped>>
    BY <1>3 DEF Ends
  <2>. QED BY <2>1, OthersFly DEF CreditedAreSettled
<1>4. ASSUME NEW f \in Flushers, IngestBatch(f) PROVE CreditedAreSettled'
  <2>1. UNCHANGED <<credited, acked, dropped, cleared, overlapped>>
    BY <1>4 DEF IngestBatch
  <2>. QED BY <1>4, <2>1, IngestedBatch DEF CreditedAreSettled
<1>5. CASE UNCHANGED <<flush, credited, acked, dropped, cleared, overlapped>>
  BY <1>5 DEF CreditedAreSettled, Flushing
<1>. QED
  BY <1>1, <1>2, <1>3, <1>4, <1>5, PostOkCreditsOnce, FlushOkCreditsOnce
  DEF StatsStep, Starts, history, IngestPost, Quiet

LEMMA StatsStart == Init => StatsInv
<1>. SUFFICES ASSUME Init PROVE StatsInv
  OBVIOUS
<1>1. Busy = {}
  BY DEF Init, Busy
<1>2. Balance
  <2>1. Cardinality(Busy) = 0 /\ IsFiniteSet(Busy)
    BY <1>1, FS_EmptySet
  <2>2. CountersBalance
    BY <2>1, FS_EmptySet DEF Init, CountersBalance, Busy
  <2>. QED BY <2>1, <2>2, FS_EmptySet DEF Init, Balance
<1>3. PostsHonest /\ NoFalseDelivery
  BY DEF Init, PostsHonest, NoFalseDelivery, Idle
<1>4. BatchesPlaced /\ CreditedAreSettled
  BY DEF Init, BatchesPlaced, CreditedAreSettled, Flushing, NoFlush
<1>. QED BY <1>2, <1>3, <1>4 DEF StatsInv

LEMMA StatsAlways == Spec => []StatsInv
<1>1. PublisherInv /\ StatsInv /\ [Next]_vars => StatsInv'
  <2>. SUFFICES ASSUME PublisherInv, StatsInv, [Next]_vars PROVE StatsInv'
    OBVIOUS
  <2>. QED
    BY StepIsOne, StepBalances, StepKeepsHonest, StepCreditsReceived, StepKeepsPlaced,
       StepCreditsOnce DEF PublisherInv, StatsInv
<1>. QED BY <1>1, StatsStart, PublisherAlways, PTL DEF Spec

\* get_stats() adds up at every await for any number of calls, flushes and
\* outages, nothing counts as delivered that Corporeus did not ingest, and
\* nothing counts twice until two flushes have been in flight at once.
THEOREM PublisherStatsAreTrue == Spec => []StatsAreTrue
<1>1. PublisherInv /\ StatsInv => StatsAreTrue
  <2>1. ASSUME PublisherInv, CreditedAreSettled, ~ overlapped, NEW e \in Events
        PROVE  credited[e] <= 1
    <3>1. credited[e] \in 0..2
      BY <2>1 DEF PublisherInv, TypeOK
    <3>2. credited[e] > 0 => credited[e] = 1
      BY <2>1 DEF CreditedAreSettled
    <3>. QED BY <3>1, <3>2
  <2>. QED BY <2>1 DEF StatsInv, Balance, StatsAreTrue, CountedOnceUnlessOverlapped
<1>. QED BY <1>1, PublisherAlways, StatsAlways, PTL
=============================================================================
