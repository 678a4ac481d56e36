----------------------------- MODULE AttackFeed -----------------------------
(***************************************************************************)
(* api/websocket.py, classes ConnectionManager and AttackFeedManager: a    *)
(* handler task per WebSocket client, broadcasts to the subscribers of the *)
(* "attacks" channel, and a buffer of recent events for newcomers.         *)
(*                                                                         *)
(* All tasks share one event loop and give it up only while they send to   *)
(* or receive from a client; the manager's lock is held across no await.   *)
(* Events are numbered in the order broadcast_event buffers them.          *)
(***************************************************************************)
EXTENDS Integers, Sequences

CONSTANTS
  Clients,     \* connection ids, drawn afresh for each connection
  MaxEvents,   \* bound: calls of broadcast_event while running
  BufferSize,  \* _buffer_size
  ReplaySize,  \* the 50 in handle_websocket
  NoClient     \* no send in progress

ASSUME FeedAssumption ==
  /\ MaxEvents \in Nat
  /\ ReplaySize \in Nat \ {0}
  /\ BufferSize \in Nat /\ 2 * ReplaySize <= BufferSize
  /\ NoClient \notin Clients

Events == 1..MaxEvents

VARIABLES
  running,      \* _running
  connections,  \* the keys of _connections
  subscribers,  \* _channels["attacks"]
  buffer,       \* _event_buffer
  handler,      \* Clients -> where its handle_websocket is
  replay,       \* Clients -> buffered events it still has to send
  cast,         \* Events -> the broadcast: whom it sends to, whom it will
  link,         \* Clients -> does a send succeed
  (* The program keeps none of these. *)
  published,    \* how many events were broadcast
  sent,         \* Clients -> Events -> times sent (many = 2)
  due           \* Clients -> events it should see: the replay, and all
                \* that were broadcast while it was subscribed

vars == <<running, connections, subscribers, buffer, handler, replay, cast,
          link, published, sent, due>>

Idle == [to |-> NoClient, todo |-> {}]

Init ==
  /\ running = FALSE
  /\ connections = {}
  /\ subscribers = {}
  /\ buffer = <<>>
  /\ handler = [c \in Clients |-> "absent"]
  /\ replay = [c \in Clients |-> <<>>]
  /\ cast = [e \in Events |-> Idle]
  /\ link = [c \in Clients |-> "up"]
  /\ published = 0
  /\ sent = [c \in Clients |-> [e \in Events |-> 0]]
  /\ due = [c \in Clients |-> {}]

Recent(s, n) == SubSeq(s, IF Len(s) > n THEN Len(s) - n + 1 ELSE 1, Len(s))

Sent(c, e) == [sent EXCEPT ![c][e] = IF @ = 2 THEN 2 ELSE @ + 1]

-----------------------------------------------------------------------------
(* ConnectionManager.  A definition named X_Y is X with the slip Y in it;  *)
(* it is used only to confirm that a property notices the slip.            *)

\* disconnect
Disconnect_Channel(c) == connections' = connections \ {c} /\ UNCHANGED subscribers
Disconnect(c) ==
  /\ connections' = connections \ {c}
  /\ subscribers' = subscribers \ {c}

\* The broadcast goes on with S; ids that are no longer connected are skipped.
\* A set is sent to in any order.
GoOn(e, S) ==
  LET left == S \cap connections IN
  \/ left = {} /\ cast' = [cast EXCEPT ![e] = Idle]
  \/ \E c \in left : cast' = [cast EXCEPT ![e] = [to |-> c, todo |-> left \ {c}]]

CastSent(e) ==
  LET c == cast[e].to IN
  /\ c # NoClient
  /\ link[c] = "up"
  /\ sent' = Sent(c, e)
  /\ GoOn(e, cast[e].todo)
  /\ UNCHANGED <<running, connections, subscribers, buffer, handler, replay, link,
                 published, due>>

\* The send is tried again until it works.
CastFails_Retry(e) ==
  cast[e].to # NoClient /\ link[cast[e].to] = "down" /\ UNCHANGED vars

\* A send that raises disconnects the client, whose handler is not told.
CastFails(e) ==
  LET c == cast[e].to IN
  /\ c # NoClient
  /\ link[c] = "down"
  /\ Disconnect(c)
  /\ GoOn(e, cast[e].todo)
  /\ UNCHANGED <<running, buffer, handler, replay, link, published, sent, due>>

-----------------------------------------------------------------------------
(* AttackFeedManager *)

Start == running' = TRUE /\ UNCHANGED <<connections, subscribers, buffer, handler,
                                        replay, cast, link, published, sent, due>>
Stop == running' = FALSE /\ UNCHANGED <<connections, subscribers, buffer, handler,
                                        replay, cast, link, published, sent, due>>

\* What is kept of a buffer that has grown past its size.
Kept_Quarter == BufferSize \div 4
Kept == (BufferSize + 1) \div 2

Trimmed_OffByOne(s) == IF Len(s) > BufferSize + 1 THEN Recent(s, Kept) ELSE s
Trimmed(s) == IF Len(s) > BufferSize THEN Recent(s, Kept) ELSE s

\* broadcast_event up to its first send; it does nothing unless running.
Publish ==
  LET e == published + 1 IN
  /\ running
  /\ e \in Events
  /\ published' = e
  /\ buffer' = Trimmed(Append(buffer, e))
  /\ due' = [c \in Clients |-> IF c \in subscribers THEN due[c] \cup {e} ELSE due[c]]
  /\ GoOn(e, subscribers)
  /\ UNCHANGED <<running, connections, subscribers, handler, replay, link, sent>>

\* accept() has returned; the welcome is being sent.
Connect(c) ==
  /\ handler[c] = "absent"
  /\ handler' = [handler EXCEPT ![c] = "welcome"]
  /\ connections' = connections \cup {c}
  /\ UNCHANGED <<running, subscribers, buffer, replay, cast, link, published, sent, due>>

\* The end of handle_websocket, on every path: its finally clause.
Leave(c) ==
  /\ handler' = [handler EXCEPT ![c] = "gone"]
  /\ replay' = [replay EXCEPT ![c] = <<>>]
  /\ Disconnect(c)

Stays_Always == TRUE
Stays == running

\* The top of the loop that serves the client.
Loop(c) ==
  IF Stays
  THEN handler' = [handler EXCEPT ![c] = "receiving"] /\ UNCHANGED <<connections, subscribers>>
  ELSE handler' = [handler EXCEPT ![c] = "gone"] /\ Disconnect(c)

\* The welcome is out: subscribe, and replay what is buffered now.
Welcomed(c) ==
  LET recent == Recent(buffer, ReplaySize) IN
  /\ handler[c] = "welcome"
  /\ link[c] = "up"
  /\ subscribers' = subscribers \cup {c}
  /\ replay' = [replay EXCEPT ![c] = recent]
  /\ handler' = [handler EXCEPT ![c] = "replaying"]
  /\ due' = [due EXCEPT ![c] = {e \in 1..published : e > published - ReplaySize}]
  /\ UNCHANGED <<running, connections, buffer, cast, link, published, sent>>

\* The slice of the buffer was copied, so that it does not grow meanwhile.
ReplayLeft_Live(c) == SelectSeq(buffer, LAMBDA e : e > Head(replay[c]))
ReplayLeft(c) == Tail(replay[c])

ReplaySent(c) ==
  /\ handler[c] = "replaying"
  /\ link[c] = "up"
  /\ replay[c] # <<>>
  /\ sent' = Sent(c, Head(replay[c]))
  /\ replay' = [replay EXCEPT ![c] = ReplayLeft(c)]
  /\ UNCHANGED <<running, connections, subscribers, buffer, handler, cast, link,
                 published, due>>

Replayed(c) ==
  /\ handler[c] = "replaying"
  /\ replay[c] = <<>>
  /\ Loop(c)
  /\ UNCHANGED <<running, buffer, replay, cast, link, published, sent, due>>

\* A message of the client, or 30 seconds without one, is answered.  What it
\* had sent can still arrive when nothing can be sent to it any more.
Answer(c) ==
  /\ handler[c] = "receiving"
  /\ handler' = [handler EXCEPT ![c] = "answering"]
  /\ UNCHANGED <<running, connections, buffer, replay, cast, link, published, sent>>

Subscribe(c) ==
  /\ Answer(c)
  /\ subscribers' = subscribers \cup {c}
  /\ UNCHANGED due

\* From here on it is owed only what it has already been promised by a
\* broadcast in progress.
Unsubscribe(c) ==
  /\ Answer(c)
  /\ subscribers' = subscribers \ {c}
  /\ UNCHANGED due

\* A heartbeat, a pong or an error message.
AnswerOnly(c) == Answer(c) /\ UNCHANGED <<subscribers, due>>

AnswerOk_Swallowed(c) == TRUE
AnswerOk(c) == link[c] = "up"

Answered(c) ==
  /\ handler[c] = "answering"
  /\ AnswerOk(c)
  /\ Loop(c)
  /\ UNCHANGED <<running, buffer, replay, cast, link, published, sent, due>>

\* A message that is JSON but no object, or names a channel no set can hold,
\* makes _handle_client_message raise before it changes a subscription.
BadMessage(c) ==
  /\ handler[c] = "receiving"
  /\ Leave(c)
  /\ UNCHANGED <<running, buffer, cast, link, published, sent, due>>

\* Its own send raises, or its receive sees the disconnect.
HandlerFails(c) ==
  /\ link[c] = "down"
  /\ handler[c] \notin {"absent", "gone"}
  /\ Leave(c)
  /\ UNCHANGED <<running, buffer, cast, link, published, sent, due>>

\* The client or the network goes away (external).
Break(c) ==
  /\ handler[c] \notin {"absent", "gone"}
  /\ link[c] = "up"
  /\ link' = [link EXCEPT ![c] = "down"]
  /\ UNCHANGED <<running, connections, subscribers, buffer, handler, replay, cast,
                 published, sent, due>>
-----------------------------------------------------------------------------
HandlerNext(c) ==
  \/ Welcomed(c)
  \/ ReplaySent(c)
  \/ Replayed(c)
  \/ Subscribe(c)
  \/ Unsubscribe(c)
  \/ AnswerOnly(c)
  \/ Answered(c)
  \/ BadMessage(c)
  \/ HandlerFails(c)

CastNext(e) == CastSent(e) \/ CastFails(e)

Next ==
  \/ Start
  \/ Stop
  \/ Publish
  \/ \E e \in Events : CastNext(e)
  \/ \E c \in Clients : Connect(c) \/ HandlerNext(c) \/ Break(c)

Spec == Init /\ [][Next]_vars

\* Every send returns or raises, a receive ends after 30 seconds at the
\* latest, and the event loop runs every task that is ready.
Fairness ==
  /\ \A c \in Clients : WF_vars(HandlerNext(c))
  /\ \A e \in Events : WF_vars(CastNext(e))

FairSpec == Spec /\ Fairness

-----------------------------------------------------------------------------
(* Properties *)

\* Types; the buffer never outgrows _buffer_size.
TypeOK ==
  /\ running \in BOOLEAN
  /\ connections \in SUBSET Clients /\ subscribers \in SUBSET Clients
  /\ buffer \in Seq(Events) /\ Len(buffer) <= BufferSize
  /\ handler \in [Clients ->
       {"absent", "welcome", "replaying", "receiving", "answering", "gone"}]
  /\ replay \in [Clients -> Seq(Events)]
  /\ cast \in [Events -> [to : Clients \cup {NoClient}, todo : SUBSET Clients]]
  /\ link \in [Clients -> {"up", "down"}]
  /\ published \in 0..MaxEvents
  /\ sent \in [Clients -> [Events -> 0..2]]
  /\ due \in [Clients -> SUBSET Events]

\* No client is sent an event twice: the replay of the buffer and the
\* broadcasts that overlap it never both carry the same event.
AtMostOnce == \A c \in Clients, e \in Events : sent[c][e] <= 1

\* Nor does one fall between them: a connected client was sent, or is still
\* going to be sent, each of the last 50 events before it subscribed and
\* each event broadcast while it was subscribed, although the buffer may
\* just have been cut.
NothingMissed ==
  \A c \in connections : \A e \in due[c] :
    \/ sent[c][e] > 0
    \/ \E k \in DOMAIN replay[c] : replay[c][k] = e
    \/ c \in cast[e].todo \cup {cast[e].to}

\* A handler that is gone leaves nothing in the manager, for good: no
\* broadcast in progress and no late message registers its client again.
GoneIsForgotten ==
  \A c \in Clients :
    handler[c] \in {"absent", "gone"} => c \notin connections \cup subscribers

\* Registration is exact: nothing is sent twice and nobody who left is kept.
SentOnceAndForgotten == TypeOK /\ AtMostOnce /\ GoneIsForgotten

\* Every broadcast ends, whichever clients break during it.
CastEnds == \A e \in Events : cast[e].to # NoClient ~> cast[e].to = NoClient

\* A broken client is forgotten in the end, also one that a broadcast
\* disconnected and whose last message subscribed it again.
BrokenIsDropped ==
  \A c \in Clients : link[c] = "down" ~> c \notin connections \cup subscribers

\* Once the feed is stopped for good, no client stays connected.
StopDisconnects == <>[](~running) => <>[](connections = {})

\* The manager lets go of every client it should.
ClientsAreReleased == BrokenIsDropped /\ StopDisconnects
=============================================================================
