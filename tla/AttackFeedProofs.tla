-------------------------- MODULE AttackFeedProofs --------------------------
(***************************************************************************)
(* Proofs about AttackFeed for any set of clients, any sizes of buffer and *)
(* replay and any number of events: nobody is sent an event twice, nobody  *)
(* who left is kept, and nobody who stays misses an event he was promised. *)
(***************************************************************************)
EXTENDS AttackFeed, TLAPS

Ascends(s) == \A j, k \in 1..Len(s) : j < k => s[j] < s[k]

\* s is the end of the first n events, long enough for a replay however
\* recently it was cut.
IsRecent(s, n) ==
  /\ \A k \in 1..Len(s) : s[k] = n - Len(s) + k
  /\ Len(s) <= n
  /\ Len(s) >= ReplaySize \/ Len(s) = n

InReplay(c, e) == \E k \in 1..Len(replay[c]) : replay[c][k] = e
Casting(e) == cast[e].todo \cup {cast[e].to}

ReplaysAscend ==
  \A c \in Clients :
    /\ Ascends(replay[c])
    /\ \A k \in 1..Len(replay[c]) : replay[c][k] <= published
    /\ handler[c] # "replaying" => replay[c] = <<>>

\* A broadcast takes each client once; of events to come there is no trace.
CastsProper ==
  \A e \in Events :
    /\ cast[e].to \notin cast[e].todo
    /\ e > published => cast[e] = Idle /\ \A c \in Clients : sent[c][e] = 0

\* Before the welcome is out, nothing is sent to a client or promised to it.
NewcomersAreClean ==
  \A c \in Clients : handler[c] \in {"absent", "welcome"} =>
    /\ c \notin subscribers /\ due[c] = {}
    /\ \A e \in Events : c \notin Casting(e) /\ sent[c][e] = 0

\* What is still to be sent has not been sent, and is to be sent one way.
ToSendIsUnsent ==
  \A c \in Clients, e \in Events :
    /\ sent[c][e] <= 1
    /\ InReplay(c, e) => sent[c][e] = 0
    /\ c \in Casting(e) => sent[c][e] = 0 /\ ~InReplay(c, e)

DueArePublished == \A c \in Clients : \A e \in due[c] : e <= published

Promised ==
  \A c \in connections : \A e \in due[c] :
    sent[c][e] > 0 \/ InReplay(c, e) \/ c \in Casting(e)

\* The inductive invariant.  AtMostOnce needs to know that a replay and the
\* broadcasts never carry the same event, hence that a newcomer is in no
\* broadcast; NothingMissed needs to know what the buffer holds.
FeedInv ==
  /\ TypeOK
  /\ IsRecent(buffer, published)
  /\ ReplaysAscend
  /\ CastsProper
  /\ NewcomersAreClean
  /\ ToSendIsUnsent
  /\ DueArePublished
  /\ GoneIsForgotten
  /\ Promised

-----------------------------------------------------------------------------
(* Sequences *)

\* Recent(s, n) is the last n elements of s, or s.
LEMMA RecentIsEnd ==
  ASSUME NEW S, NEW s \in Seq(S), NEW n \in Nat
  PROVE  /\ Recent(s, n) \in Seq(S)
         /\ Len(Recent(s, n)) = IF Len(s) > n THEN n ELSE Len(s)
         /\ \A k \in 1..Len(Recent(s, n)) :
              Recent(s, n)[k] = s[Len(s) - Len(Recent(s, n)) + k]
<1>. DEFINE m == IF Len(s) > n THEN Len(s) - n + 1 ELSE 1
<1>1. m \in 1..Len(s) + 1 /\ m \in Nat /\ Len(s) \in Nat
  OBVIOUS
<1>2. Recent(s, n) = SubSeq(s, m, Len(s))
  BY DEF Recent
<1>. HIDE DEF m
<1>3. Len(SubSeq(s, m, Len(s))) = Len(s) - m + 1
  BY <1>1
<1>4. \A k \in 1..Len(s) - m + 1 : SubSeq(s, m, Len(s))[k] = s[m + k - 1]
  BY <1>1
<1>5. SubSeq(s, m, Len(s)) \in Seq(S)
  BY <1>1
<1>6. Len(s) - m + 1 = IF Len(s) > n THEN n ELSE Len(s)
  BY DEF m
<1>. QED BY <1>1, <1>2, <1>3, <1>4, <1>5, <1>6

LEMMA TrimmedIsRecent ==
  ASSUME NEW s \in Seq(Events), NEW n \in Nat, IsRecent(s, n), Len(s) <= BufferSize + 1
  PROVE  /\ Trimmed(s) \in Seq(Events)
         /\ Len(Trimmed(s)) <= BufferSize
         /\ IsRecent(Trimmed(s), n)
<1>1. Kept \in Nat /\ ReplaySize <= Kept /\ Kept <= BufferSize
  BY FeedAssumption DEF Kept
<1>2. CASE Len(s) > BufferSize
  <2>. DEFINE t == Recent(s, Kept)
  <2>1. /\ t \in Seq(Events)
        /\ Len(t) = Kept
        /\ \A k \in 1..Len(t) : t[k] = s[Len(s) - Len(t) + k]
    BY <1>1, <1>2, RecentIsEnd, FeedAssumption
  <2>2. Trimmed(s) = t
    BY <1>2 DEF Trimmed
  <2>. HIDE DEF t
  <2>3. \A k \in 1..Len(t) : Len(s) - Len(t) + k \in 1..Len(s)
    BY <1>1, <1>2, <2>1, FeedAssumption
  <2>4. ASSUME NEW k \in 1..Len(t) PROVE t[k] = n - Len(t) + k
    <3>1. s[Len(s) - Len(t) + k] = n - Len(s) + (Len(s) - Len(t) + k)
      BY <2>3 DEF IsRecent
    <3>. QED BY <2>1, <3>1
  <2>5. Len(t) <= n /\ Len(t) >= ReplaySize /\ Len(t) <= BufferSize
    BY <1>1, <1>2, <2>1, FeedAssumption DEF IsRecent
  <2>. QED
    BY <2>1, <2>2, <2>4, <2>5 DEF IsRecent
<1>3. CASE Len(s) <= BufferSize
  BY <1>3, FeedAssumption DEF Trimmed
<1>. QED BY <1>2, <1>3, FeedAssumption

LEMMA ReplayIsRecent ==
  ASSUME NEW s \in Seq(Events), NEW n \in Nat, IsRecent(s, n)
  PROVE  LET t == Recent(s, ReplaySize) IN
         /\ t \in Seq(Events)
         /\ Ascends(t)
         /\ \A k \in 1..Len(t) : t[k] <= n
         /\ \A e \in 1..n : e > n - ReplaySize => \E k \in 1..Len(t) : t[k] = e
<1>. DEFINE t == Recent(s, ReplaySize)
<1>1. /\ t \in Seq(Events)
      /\ Len(t) = IF Len(s) > ReplaySize THEN ReplaySize ELSE Len(s)
      /\ \A k \in 1..Len(t) : t[k] = s[Len(s) - Len(t) + k]
  BY RecentIsEnd, FeedAssumption
<1>. HIDE DEF t
<1>2. Len(t) \in Nat /\ Len(s) \in Nat /\ Len(t) <= Len(s) /\ ReplaySize \in Nat
  BY <1>1, FeedAssumption
<1>3. \A k \in 1..Len(t) : t[k] = n - Len(t) + k
  <2>. SUFFICES ASSUME NEW k \in 1..Len(t) PROVE t[k] = n - Len(t) + k
    OBVIOUS
  <2>1. Len(s) - Len(t) + k \in 1..Len(s)
    BY <1>2
  <2>2. s[Len(s) - Len(t) + k] = n - Len(s) + (Len(s) - Len(t) + k)
    BY <2>1 DEF IsRecent
  <2>3. n - Len(s) + (Len(s) - Len(t) + k) = n - Len(t) + k
    BY <1>2
  <2>4. t[k] = s[Len(s) - Len(t) + k]
    BY <1>1
  <2>. QED BY <2>2, <2>3, <2>4
<1>4. ASSUME NEW k \in 1..Len(t) PROVE k \in Int /\ t[k] <= n
  BY <1>2, <1>3
<1>5. ASSUME NEW j \in 1..Len(t), NEW k \in 1..Len(t), j < k PROVE t[j] < t[k]
  <2>1. t[j] = n - Len(t) + j /\ t[k] = n - Len(t) + k
    BY <1>3
  <2>. QED BY <1>2, <1>5, <2>1
<1>6. ASSUME NEW e \in 1..n, e > n - ReplaySize
      PROVE  \E k \in 1..Len(t) : t[k] = e
  <2>1. e > n - Len(t)
    BY <1>1, <1>2, <1>6 DEF IsRecent
  <2>2. e - n + Len(t) \in 1..Len(t)
    BY <1>2, <2>1
  <2>3. t[e - n + Len(t)] = n - Len(t) + (e - n + Len(t))
    BY <1>3, <2>2
  <2>4. t[e - n + Len(t)] = e
    BY <1>2, <2>3
  <2>. QED BY <2>2, <2>4
<1>. QED BY <1>1, <1>4, <1>5, <1>6 DEF t, Ascends

LEMMA AppendIsRecent ==
  ASSUME NEW s \in Seq(Events), NEW n \in Nat, IsRecent(s, n), n + 1 \in Events
  PROVE  /\ Append(s, n + 1) \in Seq(Events)
         /\ Len(Append(s, n + 1)) = Len(s) + 1
         /\ IsRecent(Append(s, n + 1), n + 1)
<1>1. /\ Append(s, n + 1) \in Seq(Events)
      /\ Len(Append(s, n + 1)) = Len(s) + 1
      /\ Append(s, n + 1)[Len(s) + 1] = n + 1
      /\ \A k \in 1..Len(s) : Append(s, n + 1)[k] = s[k]
  OBVIOUS
<1>2. ASSUME NEW k \in 1..Len(s) + 1
      PROVE  Append(s, n + 1)[k] = n + 1 - (Len(s) + 1) + k
  <2>1. CASE k = Len(s) + 1
    BY <1>1, <2>1
  <2>2. CASE k \in 1..Len(s)
    BY <1>1, <2>2 DEF IsRecent
  <2>. QED BY <2>1, <2>2
<1>3. Len(s) \in Nat /\ ReplaySize \in Nat
  BY FeedAssumption
<1>. DEFINE t == Append(s, n + 1)
<1>4. \A k \in 1..Len(t) : t[k] = n + 1 - Len(t) + k
  BY <1>1, <1>2
<1>5. Len(t) <= n + 1 /\ (Len(t) >= ReplaySize \/ Len(t) = n + 1)
  BY <1>1, <1>3 DEF IsRecent
<1>. QED BY <1>1, <1>4, <1>5 DEF IsRecent

\* What is left of a replay whose head is out.
LEMMA TailAscends ==
  ASSUME NEW s \in Seq(Events), s # <<>>, Ascends(s)
  PROVE  /\ Tail(s) \in Seq(Events) /\ Head(s) \in Events
         /\ Ascends(Tail(s))
         /\ \A e : (\E k \in 1..Len(s) : s[k] = e) <=>
                   (e = Head(s) \/ \E k \in 1..Len(Tail(s)) : Tail(s)[k] = e)
         /\ \A k \in 1..Len(Tail(s)) : Tail(s)[k] # Head(s)
<1>. DEFINE t == Tail(s)
<1>1. /\ t \in Seq(Events) /\ Head(s) \in Events /\ Head(s) = s[1]
      /\ Len(t) = Len(s) - 1 /\ Len(s) \in Nat \ {0}
      /\ \A k \in 1..Len(t) : t[k] = s[k + 1]
  OBVIOUS
<1>2. ASSUME NEW k \in 1..Len(s) PROVE s[k] \in Int
  <2>1. s[k] \in Events
    OBVIOUS
  <2>. QED BY <2>1, FeedAssumption DEF Events
<1>. HIDE DEF t
<1>3. \A k \in 1..Len(t) : k + 1 \in 1..Len(s) /\ 1 < k + 1 /\ 1 \in 1..Len(s)
  BY <1>1
<1>4. ASSUME NEW j \in 1..Len(t), NEW k \in 1..Len(t), j < k PROVE t[j] < t[k]
  <2>1. s[j + 1] < s[k + 1]
    BY <1>3, <1>4 DEF Ascends
  <2>. QED BY <1>1, <2>1
<1>5. ASSUME NEW k \in 1..Len(t) PROVE t[k] # Head(s)
  <2>1. s[1] < s[k + 1] /\ s[1] \in Int /\ s[k + 1] \in Int
    BY <1>2, <1>3 DEF Ascends
  <2>. QED BY <1>1, <2>1
<1>6. ASSUME NEW k \in 1..Len(s) PROVE s[k] = Head(s) \/ \E j \in 1..Len(t) : t[j] = s[k]
  <2>1. CASE k = 1
    BY <1>1, <2>1
  <2>2. CASE k # 1
    <3>1. k - 1 \in 1..Len(t) /\ (k - 1) + 1 = k
      BY <1>1, <2>2
    <3>2. t[k - 1] = s[k]
      BY <1>1, <3>1
    <3>. QED BY <3>1, <3>2
  <2>. QED BY <2>1, <2>2
<1>7. ASSUME NEW e PROVE
        (\E k \in 1..Len(s) : s[k] = e) <=>
        (e = Head(s) \/ \E k \in 1..Len(t) : t[k] = e)
  <2>1. 1 \in 1..Len(s)
    BY <1>1
  <2>. QED BY <1>1, <1>3, <1>6, <2>1
<1>. QED BY <1>1, <1>4, <1>5, <1>7 DEF t, Ascends

-----------------------------------------------------------------------------
(* Steps *)

\* Going on with S, a broadcast is for the connected part of S.
LEMMA GoOnCasts ==
  ASSUME TypeOK, NEW e \in Events, NEW S \in SUBSET Clients, GoOn(e, S)
  PROVE  /\ cast' \in [Events -> [to : Clients \cup {NoClient}, todo : SUBSET Clients]]
         /\ \A f \in Events \ {e} : cast'[f] = cast[f]
         /\ cast'[e].to \notin cast'[e].todo
         /\ \A c \in Clients : c \in Casting(e)' <=> c \in S \cap connections
<1>. DEFINE left == S \cap connections
<1>1. Idle \in [to : Clients \cup {NoClient}, todo : SUBSET Clients]
  BY DEF Idle
<1>2. CASE left = {} /\ cast' = [cast EXCEPT ![e] = Idle]
  BY <1>1, <1>2, FeedAssumption DEF TypeOK, Casting, Idle
<1>3. ASSUME NEW c \in left, cast' = [cast EXCEPT ![e] = [to |-> c, todo |-> left \ {c}]]
      PROVE  /\ cast' \in [Events -> [to : Clients \cup {NoClient}, todo : SUBSET Clients]]
             /\ \A f \in Events \ {e} : cast'[f] = cast[f]
             /\ cast'[e].to \notin cast'[e].todo
             /\ Casting(e)' = left
  <2>1. cast'[e] = [to |-> c, todo |-> left \ {c}]
    BY <1>3 DEF TypeOK
  <2>2. [to |-> c, todo |-> left \ {c}] \in [to : Clients \cup {NoClient}, todo : SUBSET Clients]
    OBVIOUS
  <2>. QED BY <1>3, <2>1, <2>2 DEF TypeOK, Casting
<1>4. GoOn(e, S) => \/ left = {} /\ cast' = [cast EXCEPT ![e] = Idle]
                    \/ \E c \in left : cast' = [cast EXCEPT ![e] = [to |-> c, todo |-> left \ {c}]]
  BY DEF GoOn
<1>. QED BY <1>2, <1>3, <1>4

LEMMA FeedInvInit == Init => FeedInv
<1>. SUFFICES ASSUME Init PROVE FeedInv
  OBVIOUS
<1>1. TypeOK
  <2>1. cast \in [Events -> [to : Clients \cup {NoClient}, todo : SUBSET Clients]]
    BY DEF Init, Idle
  <2>2. buffer \in Seq(Events) /\ Len(buffer) <= BufferSize /\ published \in 0..MaxEvents
    BY FeedAssumption DEF Init
  <2>3. replay \in [Clients -> Seq(Events)]
    BY DEF Init
  <2>4. sent \in [Clients -> [Events -> 0..2]]
    BY DEF Init
  <2>. QED BY <2>1, <2>2, <2>3, <2>4 DEF Init, TypeOK
<1>2. IsRecent(buffer, published)
  BY FeedAssumption DEF Init, IsRecent
<1>3. ReplaysAscend /\ DueArePublished /\ GoneIsForgotten /\ Promised
  BY DEF Init, ReplaysAscend, DueArePublished, GoneIsForgotten, Promised, Ascends
<1>4. CastsProper /\ NewcomersAreClean /\ ToSendIsUnsent
  BY FeedAssumption
  DEF Init, CastsProper, NewcomersAreClean, ToSendIsUnsent, Casting, InReplay, Idle
<1>. QED BY <1>1, <1>2, <1>3, <1>4 DEF FeedInv

LEMMA SentOnce ==
  ASSUME NEW c \in Clients, NEW e \in Events, sent \in [Clients -> [Events -> 0..2]],
         sent[c][e] = 0
  PROVE  /\ Sent(c, e) \in [Clients -> [Events -> 0..2]]
         /\ Sent(c, e)[c][e] = 1
         /\ \A d \in Clients, f \in Events :
              d # c \/ f # e => Sent(c, e)[d][f] = sent[d][f]
<1>1. [sent[c] EXCEPT ![e] = 1] \in [Events -> 0..2]
  OBVIOUS
<1>2. Sent(c, e) = [sent EXCEPT ![c] = [sent[c] EXCEPT ![e] = 1]]
  BY DEF Sent
<1>. QED BY <1>1, <1>2

\* CastSent, CastFails: one client less to send to.
LEMMA CastKeeps ==
  ASSUME FeedInv, NEW e \in Events, CastSent(e) \/ CastFails(e)
  PROVE  FeedInv'
<1>. DEFINE c == cast[e].to
            T == cast[e].todo
<1>1. c \in Clients /\ T \in SUBSET Clients /\ c \notin T /\ e <= published
  BY FeedAssumption DEF CastSent, CastFails, FeedInv, TypeOK, CastsProper, Idle, Events
<1>2. GoOn(e, T)
  BY DEF CastSent, CastFails
<1>3. /\ cast' \in [Events -> [to : Clients \cup {NoClient}, todo : SUBSET Clients]]
      /\ \A f \in Events \ {e} : cast'[f] = cast[f]
      /\ cast'[e].to \notin cast'[e].todo
      /\ \A d \in Clients : d \in Casting(e)' <=> d \in T \cap connections
  BY <1>1, <1>2, GoOnCasts DEF FeedInv
<1>4. \A d \in Clients, f \in Events :
        d \in Casting(f)' => d \in Casting(f) /\ (f = e => d # c)
  BY <1>1, <1>3 DEF Casting
<1>5. UNCHANGED <<running, buffer, handler, replay, link, published, due>>
  BY DEF CastSent, CastFails
<1>6. /\ connections' \subseteq connections /\ subscribers' \subseteq subscribers
      /\ \A d \in Clients : d \in connections \ connections' => d = c /\ c \notin subscribers'
  BY DEF CastSent, CastFails, Disconnect
<1>7. /\ sent' \in [Clients -> [Events -> 0..2]]
      /\ \A d \in Clients, f \in Events :
           sent'[d][f] = sent[d][f] \/ (d = c /\ f = e /\ sent[d][f] = 0 /\ sent'[d][f] = 1)
  <2>1. CASE CastFails(e)
    BY <2>1 DEF CastFails, FeedInv, TypeOK
  <2>2. CASE CastSent(e)
    <3>1. sent[c][e] = 0
      BY <1>1 DEF FeedInv, ToSendIsUnsent, Casting
    <3>2. sent' = Sent(c, e)
      BY <2>2 DEF CastSent
    <3>3. /\ Sent(c, e) \in [Clients -> [Events -> 0..2]]
          /\ Sent(c, e)[c][e] = 1
          /\ \A d \in Clients, f \in Events :
               d # c \/ f # e => Sent(c, e)[d][f] = sent[d][f]
      BY <1>1, <3>1, SentOnce DEF FeedInv, TypeOK
    <3>. QED BY <3>1, <3>2, <3>3
  <2>. QED BY <2>1, <2>2
<1>8. TypeOK'
  BY <1>3, <1>5, <1>6, <1>7 DEF FeedInv, TypeOK
<1>9. IsRecent(buffer, published)' /\ ReplaysAscend' /\ DueArePublished'
  BY <1>5 DEF FeedInv, ReplaysAscend, DueArePublished
<1>10. CastsProper'
  BY <1>1, <1>3, <1>5, <1>7 DEF FeedInv, CastsProper, TypeOK, Events
<1>11. NewcomersAreClean'
  BY <1>1, <1>4, <1>5, <1>6, <1>7 DEF FeedInv, NewcomersAreClean, Casting
<1>12. ToSendIsUnsent'
  <2>1. \A d \in Clients, f \in Events : InReplay(d, f)' <=> InReplay(d, f)
    BY <1>5 DEF InReplay
  <2>2. ~InReplay(c, e)
    BY <1>1 DEF FeedInv, ToSendIsUnsent, Casting
  <2>. QED BY <1>1, <1>4, <1>7, <2>1, <2>2 DEF FeedInv, ToSendIsUnsent
<1>13. GoneIsForgotten'
  BY <1>5, <1>6 DEF FeedInv, GoneIsForgotten
<1>14. Promised'
  <2>. SUFFICES ASSUME NEW d \in connections', NEW f \in due'[d]
                PROVE  (sent[d][f] > 0 \/ InReplay(d, f) \/ d \in Casting(f))'
    BY DEF Promised
  <2>1. d \in Clients /\ f \in Events /\ d \in connections /\ f \in due[d]
    BY <1>5, <1>6 DEF FeedInv, TypeOK
  <2>2. CASE sent[d][f] > 0
    BY <1>7, <2>1, <2>2
  <2>3. CASE InReplay(d, f)
    BY <1>5, <2>3 DEF InReplay
  <2>4. CASE d \in Casting(f) /\ f # e
    BY <1>3, <2>1, <2>4 DEF Casting
  <2>5. CASE d \in T /\ f = e
    BY <1>3, <2>1, <2>5
  <2>6. CASE d = c /\ f = e
    <3>1. CASE CastSent(e)
      BY <1>1, <2>6, <3>1 DEF CastSent, Sent, FeedInv, TypeOK, ToSendIsUnsent, Casting
    <3>2. CASE CastFails(e)
      BY <2>6, <3>2 DEF CastFails, Disconnect
    <3>. QED BY <3>1, <3>2
  <2>. QED
    BY <2>1, <2>2, <2>3, <2>4, <2>5, <2>6 DEF FeedInv, Promised, Casting
<1>. QED BY <1>8, <1>9, <1>10, <1>11, <1>12, <1>13, <1>14 DEF FeedInv

\* A step that neither publishes nor sends, and promises nothing.
LEMMA QuietKeeps ==
  ASSUME FeedInv, UNCHANGED <<buffer, cast, published, sent, due>>,
         TypeOK', ReplaysAscend', GoneIsForgotten',
         \A c \in Clients : handler'[c] \in {"absent", "welcome"} =>
           handler[c] \in {"absent", "welcome"} /\ c \notin subscribers',
         \A c \in Clients : replay'[c] = replay[c] \/ (replay'[c] = <<>> /\ c \notin connections'),
         \A c \in connections' : c \in connections \/ due[c] = {}
  PROVE  FeedInv'
<1>1. IsRecent(buffer, published)' /\ CastsProper' /\ DueArePublished'
  BY DEF FeedInv, CastsProper, DueArePublished
<1>2. \A c \in Clients, e \in Events : InReplay(c, e)' => InReplay(c, e)
  BY DEF InReplay
<1>3. NewcomersAreClean'
  BY DEF FeedInv, NewcomersAreClean, Casting
<1>4. ToSendIsUnsent'
  BY <1>2 DEF FeedInv, ToSendIsUnsent, Casting
<1>5. Promised'
  <2>. SUFFICES ASSUME NEW c \in connections', NEW e \in due'[c]
                PROVE  (sent[c][e] > 0 \/ InReplay(c, e) \/ c \in Casting(e))'
    BY DEF Promised
  <2>1. c \in Clients /\ c \in connections /\ replay'[c] = replay[c]
    BY DEF TypeOK
  <2>2. InReplay(c, e)' <=> InReplay(c, e)
    BY <2>1 DEF InReplay
  <2>. QED BY <2>1, <2>2 DEF FeedInv, Promised, Casting
<1>. QED BY <1>1, <1>3, <1>4, <1>5 DEF FeedInv

LEMMA HandlerKeeps ==
  ASSUME FeedInv, NEW c \in Clients,
         Connect(c) \/ Replayed(c) \/ Subscribe(c) \/ Unsubscribe(c) \/ AnswerOnly(c)
           \/ Answered(c) \/ BadMessage(c) \/ HandlerFails(c)
  PROVE  FeedInv'
<1>1. PICK h \in {"welcome", "receiving", "answering", "gone"} :
        handler' = [handler EXCEPT ![c] = h]
  BY DEF Connect, Replayed, Loop, Subscribe, Unsubscribe, AnswerOnly, Answer,
         Answered, BadMessage, HandlerFails, Leave
<1>2. UNCHANGED <<running, buffer, cast, link, published, sent, due>>
  BY DEF Connect, Replayed, Subscribe, Unsubscribe, AnswerOnly, Answer, Answered, BadMessage,
         HandlerFails
<1>3. /\ handler \in [Clients -> {"absent", "welcome", "replaying", "receiving",
                                  "answering", "gone"}]
      /\ replay \in [Clients -> Seq(Events)]
  BY DEF FeedInv, TypeOK
<1>4. \/ UNCHANGED replay /\ (handler[c] = "replaying" => replay[c] = <<>>)
      \/ replay' = [replay EXCEPT ![c] = <<>>] /\ c \notin connections'
  BY DEF Connect, Replayed, Subscribe, Unsubscribe, AnswerOnly, Answer, Answered,
         BadMessage, HandlerFails, Leave, Disconnect
<1>5. /\ h = "welcome" => handler[c] = "absent" /\ connections' = connections \cup {c}
                          /\ subscribers' = subscribers
      /\ h = "gone" => connections' = connections \ {c} /\ subscribers' = subscribers \ {c}
      /\ h \in {"receiving", "answering"} =>
           /\ handler[c] \notin {"absent", "gone"}
           /\ connections' = connections
           /\ subscribers' \subseteq subscribers \cup {c}
  BY <1>1, <1>3 DEF Connect, Replayed, Loop, Subscribe, Unsubscribe, AnswerOnly,
         Answer, Answered, BadMessage, HandlerFails, Leave, Disconnect
<1>6. ReplaysAscend'
  BY <1>1, <1>2, <1>3, <1>4 DEF FeedInv, ReplaysAscend, Ascends
<1>7. TypeOK'
  <2>1. replay' \in [Clients -> Seq(Events)]
    <3>1. <<>> \in Seq(Events)
      OBVIOUS
    <3>. QED BY <1>3, <1>4, <3>1
  <2>2. connections' \in SUBSET Clients /\ subscribers' \in SUBSET Clients
    BY <1>5 DEF FeedInv, TypeOK
  <2>. QED BY <1>1, <1>2, <1>3, <2>1, <2>2 DEF FeedInv, TypeOK
<1>8. GoneIsForgotten'
  BY <1>1, <1>3, <1>5 DEF FeedInv, GoneIsForgotten
<1>9. \A d \in Clients : handler'[d] \in {"absent", "welcome"} =>
        handler[d] \in {"absent", "welcome"} /\ d \notin subscribers'
  BY <1>1, <1>3, <1>5 DEF FeedInv, NewcomersAreClean
<1>10. \A d \in Clients : replay'[d] = replay[d] \/ (replay'[d] = <<>> /\ d \notin connections')
  BY <1>3, <1>4
<1>11. \A d \in connections' : d \in connections \/ due[d] = {}
  BY <1>5 DEF FeedInv, NewcomersAreClean
<1>. QED BY <1>2, <1>6, <1>7, <1>8, <1>9, <1>10, <1>11, QuietKeeps

\* Start, Stop and Break only move a flag.
LEMMA FlagKeeps ==
  ASSUME FeedInv, Start \/ Stop \/ \E c \in Clients : Break(c)
  PROVE  FeedInv'
<1>1. UNCHANGED <<connections, subscribers, buffer, handler, replay, cast,
                  published, sent, due>>
  BY DEF Start, Stop, Break
<1>2. running' \in BOOLEAN /\ link' \in [Clients -> {"up", "down"}]
  <2>1. running \in BOOLEAN /\ link \in [Clients -> {"up", "down"}]
    BY DEF FeedInv, TypeOK
  <2>2. CASE Start
    BY <2>1, <2>2 DEF Start
  <2>3. CASE Stop
    BY <2>1, <2>3 DEF Stop
  <2>4. CASE \E c \in Clients : Break(c)
    BY <2>1, <2>4 DEF Break
  <2>. QED BY <2>2, <2>3, <2>4
<1>3. TypeOK'
  BY <1>1, <1>2 DEF FeedInv, TypeOK
<1>4. ReplaysAscend' /\ GoneIsForgotten'
  BY <1>1 DEF FeedInv, ReplaysAscend, GoneIsForgotten
<1>. QED BY <1>1, <1>3, <1>4, QuietKeeps DEF FeedInv, NewcomersAreClean

LEMMA ReplaySentKeeps ==
  ASSUME FeedInv, NEW c \in Clients, ReplaySent(c)
  PROVE  FeedInv'
<1>1. /\ replay[c] \in Seq(Events) /\ replay[c] # <<>> /\ Ascends(replay[c])
      /\ handler[c] = "replaying"
      /\ \A k \in 1..Len(replay[c]) : replay[c][k] <= published
  BY DEF ReplaySent, FeedInv, TypeOK, ReplaysAscend
<1>0. PICK e \in Events : e = Head(replay[c])
  BY <1>1
<1>2. /\ Tail(replay[c]) \in Seq(Events)
      /\ Ascends(Tail(replay[c]))
      /\ \A f : (\E k \in 1..Len(replay[c]) : replay[c][k] = f) <=>
                (f = e \/ \E k \in 1..Len(Tail(replay[c])) : Tail(replay[c])[k] = f)
      /\ \A k \in 1..Len(Tail(replay[c])) : Tail(replay[c])[k] # e
  BY <1>0, <1>1, TailAscends
<1>3. /\ UNCHANGED <<running, connections, subscribers, buffer, handler, cast, link,
                     published, due>>
      /\ replay' = [replay EXCEPT ![c] = Tail(replay[c])]
      /\ sent' = Sent(c, e)
  BY <1>0 DEF ReplaySent, ReplayLeft
<1>4. replay' \in [Clients -> Seq(Events)] /\ replay'[c] = Tail(replay[c])
      /\ \A d \in Clients \ {c} : replay'[d] = replay[d]
  BY <1>2, <1>3 DEF FeedInv, TypeOK
<1>5. InReplay(c, e) /\ ~InReplay(c, e)'
  <2>1. \E k \in 1..Len(replay[c]) : replay[c][k] = e
    BY <1>2
  <2>2. ~ \E k \in 1..Len(replay'[c]) : replay'[c][k] = e
    BY <1>2, <1>4
  <2>. QED BY <2>1, <2>2 DEF InReplay
<1>6. ASSUME NEW d \in Clients, NEW f \in Events
      PROVE  InReplay(d, f) <=> (InReplay(d, f)' \/ (d = c /\ f = e))
  <2>1. CASE d = c
    <3>1. (\E k \in 1..Len(replay[c]) : replay[c][k] = f) <=>
          (f = e \/ \E k \in 1..Len(replay'[c]) : replay'[c][k] = f)
      BY <1>2, <1>4
    <3>. QED BY <2>1, <3>1 DEF InReplay
  <2>2. CASE d # c
    BY <1>4, <2>2 DEF InReplay
  <2>. QED BY <2>1, <2>2
<1>7. /\ sent' \in [Clients -> [Events -> 0..2]]
      /\ sent[c][e] = 0 /\ sent'[c][e] = 1
      /\ \A d \in Clients, f \in Events : d # c \/ f # e => sent'[d][f] = sent[d][f]
  <2>1. sent[c][e] = 0
    BY <1>2, <1>5 DEF FeedInv, ToSendIsUnsent
  <2>2. /\ Sent(c, e) \in [Clients -> [Events -> 0..2]]
        /\ Sent(c, e)[c][e] = 1
        /\ \A d \in Clients, f \in Events :
             d # c \/ f # e => Sent(c, e)[d][f] = sent[d][f]
    BY <1>2, <2>1, SentOnce DEF FeedInv, TypeOK
  <2>. QED BY <1>3, <2>1, <2>2
<1>8. c \notin Casting(e) /\ e <= published
  <2>1. c \notin Casting(e)
    BY <1>2, <1>5 DEF FeedInv, ToSendIsUnsent
  <2>2. PICK k \in 1..Len(replay[c]) : replay[c][k] = e
    BY <1>5 DEF InReplay
  <2>. QED BY <1>1, <2>1, <2>2
<1>9. TypeOK'
  BY <1>3, <1>4, <1>7 DEF FeedInv, TypeOK
<1>10. IsRecent(buffer, published)' /\ GoneIsForgotten' /\ DueArePublished'
  BY <1>3 DEF FeedInv, GoneIsForgotten, DueArePublished, IsRecent
<1>11. ReplaysAscend'
  <2>1. \A k \in 1..Len(Tail(replay[c])) : Tail(replay[c])[k] <= published
    <3>. SUFFICES ASSUME NEW k \in 1..Len(Tail(replay[c]))
                  PROVE  Tail(replay[c])[k] <= published
      OBVIOUS
    <3>1. PICK j \in 1..Len(replay[c]) : replay[c][j] = Tail(replay[c])[k]
      BY <1>2
    <3>. QED BY <1>1, <3>1
  <2>. QED BY <1>1, <1>2, <1>3, <1>4, <2>1 DEF FeedInv, ReplaysAscend
<1>12. CastsProper'
  <2>1. ASSUME NEW f \in Events, f > published PROVE f # e
    BY <1>2, <1>8, <2>1 DEF FeedInv, TypeOK, Events
  <2>. QED BY <1>3, <1>7, <2>1 DEF FeedInv, CastsProper
<1>13. NewcomersAreClean'
  BY <1>1, <1>3, <1>7 DEF FeedInv, NewcomersAreClean, Casting
<1>14. ToSendIsUnsent'
  <2>. SUFFICES ASSUME NEW d \in Clients, NEW f \in Events
                PROVE  /\ sent'[d][f] <= 1
                       /\ InReplay(d, f)' => sent'[d][f] = 0
                       /\ d \in Casting(f)' => sent'[d][f] = 0 /\ ~InReplay(d, f)'
    BY DEF ToSendIsUnsent
  <2>1. Casting(f)' = Casting(f)
    BY <1>3 DEF Casting
  <2>2. CASE d = c /\ f = e
    BY <1>5, <1>7, <1>8, <2>1, <2>2
  <2>3. CASE d # c \/ f # e
    BY <1>6, <1>7, <2>1, <2>3 DEF FeedInv, ToSendIsUnsent
  <2>. QED BY <2>2, <2>3
<1>15. Promised'
  <2>. SUFFICES ASSUME NEW d \in connections', NEW f \in due'[d]
                PROVE  (sent[d][f] > 0 \/ InReplay(d, f) \/ d \in Casting(f))'
    BY DEF Promised
  <2>1. d \in Clients /\ f \in Events /\ d \in connections /\ f \in due[d]
    BY <1>3 DEF FeedInv, TypeOK
  <2>2. Casting(f)' = Casting(f)
    BY <1>3 DEF Casting
  <2>. QED BY <1>6, <1>7, <2>1, <2>2 DEF FeedInv, Promised
<1>. QED BY <1>9, <1>10, <1>11, <1>12, <1>13, <1>14, <1>15 DEF FeedInv

\* The replay covers what it promises: the buffer was never cut too short.
LEMMA WelcomedKeeps ==
  ASSUME FeedInv, NEW c \in Clients, Welcomed(c)
  PROVE  FeedInv'
<1>. DEFINE t == Recent(buffer, ReplaySize)
            D == {e \in 1..published : e > published - ReplaySize}
<1>1. /\ t \in Seq(Events) /\ Ascends(t)
      /\ \A k \in 1..Len(t) : t[k] <= published
      /\ \A e \in 1..published : e > published - ReplaySize => \E k \in 1..Len(t) : t[k] = e
  BY ReplayIsRecent DEF FeedInv, TypeOK
<1>2. /\ UNCHANGED <<running, connections, buffer, cast, link, published, sent>>
      /\ subscribers' = subscribers \cup {c}
      /\ replay' = [replay EXCEPT ![c] = t]
      /\ handler' = [handler EXCEPT ![c] = "replaying"]
      /\ due' = [due EXCEPT ![c] = D]
      /\ handler[c] = "welcome"
  BY DEF Welcomed
<1>. HIDE DEF t
<1>3. D \in SUBSET Events
  <2>1. published \in 0..MaxEvents
    BY DEF FeedInv, TypeOK
  <2>. QED BY <2>1, FeedAssumption DEF Events
<1>. HIDE DEF D
<1>4. TypeOK'
  <2>1. /\ replay' \in [Clients -> Seq(Events)] /\ due' \in [Clients -> SUBSET Events]
        /\ subscribers' \in SUBSET Clients
    BY <1>1, <1>2, <1>3 DEF FeedInv, TypeOK
  <2>. QED BY <1>2, <2>1 DEF FeedInv, TypeOK
<1>5. /\ replay'[c] = t /\ due'[c] = D /\ handler'[c] = "replaying"
      /\ \A d \in Clients \ {c} :
           replay'[d] = replay[d] /\ due'[d] = due[d] /\ handler'[d] = handler[d]
  BY <1>2 DEF FeedInv, TypeOK
<1>6. IsRecent(buffer, published)' /\ CastsProper'
  BY <1>2 DEF FeedInv, CastsProper
<1>7. ReplaysAscend'
  BY <1>1, <1>2, <1>5 DEF FeedInv, ReplaysAscend
<1>8. DueArePublished'
  BY <1>2, <1>5 DEF FeedInv, DueArePublished, D
<1>9. GoneIsForgotten' /\ NewcomersAreClean'
  BY <1>2, <1>5 DEF FeedInv, GoneIsForgotten, NewcomersAreClean, Casting
<1>10. \A e \in Events : c \notin Casting(e) /\ sent[c][e] = 0
  BY <1>2 DEF FeedInv, NewcomersAreClean
<1>11. \A d \in Clients \ {c}, e \in Events : InReplay(d, e)' <=> InReplay(d, e)
  BY <1>5 DEF InReplay
<1>12. ToSendIsUnsent'
  BY <1>2, <1>10, <1>11 DEF FeedInv, ToSendIsUnsent, Casting
<1>13. Promised'
  <2>. SUFFICES ASSUME NEW d \in connections', NEW e \in due'[d]
                PROVE  (sent[d][e] > 0 \/ InReplay(d, e) \/ d \in Casting(e))'
    BY DEF Promised
  <2>1. d \in Clients /\ e \in Events /\ d \in connections
    BY <1>2, <1>4 DEF TypeOK
  <2>2. CASE d = c
    BY <1>1, <1>5, <2>2 DEF InReplay, D
  <2>3. CASE d # c
    BY <1>2, <1>5, <1>11, <2>1, <2>3 DEF FeedInv, Promised, Casting
  <2>. QED BY <2>2, <2>3
<1>. QED BY <1>4, <1>6, <1>7, <1>8, <1>9, <1>12, <1>13 DEF FeedInv

\* A new event goes to the subscribers, each of whom is connected or gone.
LEMMA PublishKeeps ==
  ASSUME FeedInv, Publish
  PROVE  FeedInv'
<1>1. PICK e \in Events : e = published + 1
  BY DEF Publish
<1>2. /\ UNCHANGED <<running, connections, subscribers, handler, replay, link, sent>>
      /\ published' = e
      /\ buffer' = Trimmed(Append(buffer, e))
      /\ due' = [c \in Clients |-> IF c \in subscribers THEN due[c] \cup {e} ELSE due[c]]
      /\ GoOn(e, subscribers)
  BY <1>1 DEF Publish
<1>3. /\ cast' \in [Events -> [to : Clients \cup {NoClient}, todo : SUBSET Clients]]
      /\ \A f \in Events \ {e} : cast'[f] = cast[f]
      /\ cast'[e].to \notin cast'[e].todo
      /\ \A c \in Clients : c \in Casting(e)' <=> c \in subscribers \cap connections
  BY <1>2, GoOnCasts DEF FeedInv, TypeOK
<1>4. published \in Nat /\ e > published
  BY <1>1 DEF FeedInv, TypeOK
<1>5. /\ Append(buffer, e) \in Seq(Events)
      /\ Len(Append(buffer, e)) <= BufferSize + 1
      /\ IsRecent(Append(buffer, e), e)
  BY <1>1, <1>4, AppendIsRecent, FeedAssumption DEF FeedInv, TypeOK
<1>6. buffer' \in Seq(Events) /\ Len(buffer') <= BufferSize /\ IsRecent(buffer', e)
  <2>1. e \in Nat
    BY <1>1, <1>4
  <2>. QED BY <1>2, <1>5, <2>1, TrimmedIsRecent
<1>7. TypeOK'
  <2>1. published' \in 0..MaxEvents
    BY <1>2, FeedAssumption DEF Events
  <2>2. due' \in [Clients -> SUBSET Events]
    BY <1>2 DEF FeedInv, TypeOK
  <2>. QED BY <1>2, <1>3, <1>6, <2>1, <2>2 DEF FeedInv, TypeOK
<1>8. IsRecent(buffer, published)'
  BY <1>2, <1>6 DEF IsRecent
<1>9. ReplaysAscend' /\ GoneIsForgotten'
  <2>1. \A c \in Clients : \A k \in 1..Len(replay[c]) : replay[c][k] <= e
    <3>. SUFFICES ASSUME NEW c \in Clients, NEW k \in 1..Len(replay[c])
                  PROVE  replay[c][k] <= e
      OBVIOUS
    <3>1. replay[c][k] <= published /\ replay[c][k] \in Events
      BY DEF FeedInv, TypeOK, ReplaysAscend
    <3>. QED BY <1>4, <3>1, FeedAssumption DEF Events
  <2>. QED BY <1>2, <2>1 DEF FeedInv, ReplaysAscend, GoneIsForgotten
<1>10. \A c \in Clients : sent[c][e] = 0 /\ ~InReplay(c, e)
  <2>. SUFFICES ASSUME NEW c \in Clients PROVE sent[c][e] = 0 /\ ~InReplay(c, e)
    OBVIOUS
  <2>1. sent[c][e] = 0
    BY <1>4 DEF FeedInv, CastsProper
  <2>2. ASSUME NEW k \in 1..Len(replay[c]) PROVE replay[c][k] # e
    <3>1. replay[c][k] <= published
      BY DEF FeedInv, ReplaysAscend
    <3>. QED BY <1>1, <1>4, <3>1
  <2>. QED BY <2>1, <2>2 DEF InReplay
<1>11. CastsProper'
  <2>. SUFFICES ASSUME NEW f \in Events
                PROVE  /\ cast'[f].to \notin cast'[f].todo
                       /\ f > e => cast'[f] = Idle /\ \A c \in Clients : sent[c][f] = 0
    BY <1>2 DEF CastsProper, Idle
  <2>1. f > e => f # e /\ f > published
    BY <1>1, <1>4 DEF Events
  <2>. QED BY <1>3, <2>1 DEF FeedInv, CastsProper
<1>12. \A c \in Clients, f \in Events : c \in Casting(f)' =>
         c \in Casting(f) \/ (f = e /\ c \in subscribers)
  BY <1>3 DEF Casting
<1>13. NewcomersAreClean'
  BY <1>2, <1>12 DEF FeedInv, NewcomersAreClean
<1>14. \A c \in Clients, f \in Events : InReplay(c, f)' <=> InReplay(c, f)
  BY <1>2 DEF InReplay
<1>15. ToSendIsUnsent'
  BY <1>2, <1>10, <1>12, <1>14 DEF FeedInv, ToSendIsUnsent
<1>16. DueArePublished'
  <2>. SUFFICES ASSUME NEW c \in Clients, NEW f \in due'[c] PROVE f <= e
    BY <1>2 DEF DueArePublished
  <2>1. f = e \/ (f \in due[c] /\ f \in Events)
    BY <1>2 DEF FeedInv, TypeOK
  <2>. QED BY <1>1, <1>4, <2>1 DEF FeedInv, DueArePublished, Events
<1>17. Promised'
  <2>. SUFFICES ASSUME NEW c \in connections', NEW f \in due'[c]
                PROVE  (sent[c][f] > 0 \/ InReplay(c, f) \/ c \in Casting(f))'
    BY DEF Promised
  <2>1. c \in Clients /\ c \in connections /\ f \in Events
    BY <1>2, <1>7 DEF TypeOK
  <2>2. (f = e /\ c \in subscribers) \/ f \in due[c]
    BY <1>2, <2>1
  <2>3. CASE f = e /\ c \in subscribers
    BY <1>3, <2>1, <2>3
  <2>4. CASE f \in due[c]
    <3>1. f # e
      BY <1>1, <1>4, <2>1, <2>4 DEF FeedInv, DueArePublished
    <3>2. Casting(f)' = Casting(f)
      BY <1>3, <2>1, <3>1 DEF Casting
    <3>. QED BY <1>2, <1>14, <2>1, <2>4, <3>2 DEF FeedInv, Promised
  <2>. QED BY <2>2, <2>3, <2>4
<1>. QED
  BY <1>7, <1>8, <1>9, <1>11, <1>13, <1>15, <1>16, <1>17 DEF FeedInv

LEMMA FeedInvNext == FeedInv /\ [Next]_vars => FeedInv'
<1>. SUFFICES ASSUME FeedInv, [Next]_vars PROVE FeedInv'
  OBVIOUS
<1>1. CASE Start \/ Stop \/ \E c \in Clients : Break(c)
  BY <1>1, FlagKeeps
<1>2. CASE Publish
  BY <1>2, PublishKeeps
<1>3. ASSUME NEW e \in Events, CastNext(e) PROVE FeedInv'
  BY <1>3, CastKeeps DEF CastNext
<1>4. ASSUME NEW c \in Clients, Connect(c) \/ HandlerNext(c) PROVE FeedInv'
  BY <1>4, WelcomedKeeps, ReplaySentKeeps, HandlerKeeps DEF HandlerNext
<1>5. CASE UNCHANGED vars
  BY <1>5 DEF vars, FeedInv, TypeOK, IsRecent, ReplaysAscend, CastsProper,
              NewcomersAreClean, ToSendIsUnsent, DueArePublished, GoneIsForgotten,
              Promised, InReplay, Casting
<1>. QED BY <1>1, <1>2, <1>3, <1>4, <1>5 DEF Next

LEMMA FeedInvariant == Spec => []FeedInv
BY FeedInvInit, FeedInvNext, PTL DEF Spec

-----------------------------------------------------------------------------
\* Nothing is sent twice to anyone, nobody who left is kept, and the buffer
\* keeps to its size, for any number of clients and events
\* (api/websocket.py handle_websocket and broadcast_event together).
THEOREM FeedSendsOnce == Spec => []SentOnceAndForgotten
<1>1. FeedInv => SentOnceAndForgotten
  BY DEF FeedInv, ToSendIsUnsent, SentOnceAndForgotten, AtMostOnce
<1>. QED BY <1>1, FeedInvariant, PTL

\* The replay and the broadcasts leave no gap between them, as long as the
\* buffer holds two replays (api/websocket.py, the 50 and the 1000).
THEOREM FeedMissesNothing == Spec => []NothingMissed
<1>1. FeedInv => NothingMissed
  <2>. SUFFICES ASSUME FeedInv, NEW c \in connections, NEW e \in due[c]
                PROVE  \/ sent[c][e] > 0
                       \/ \E k \in DOMAIN replay[c] : replay[c][k] = e
                       \/ c \in cast[e].todo \cup {cast[e].to}
    BY DEF NothingMissed
  <2>1. replay[c] \in Seq(Events)
    BY DEF FeedInv, TypeOK
  <2>. QED BY <2>1 DEF FeedInv, Promised, InReplay, Casting
<1>. QED BY <1>1, FeedInvariant, PTL

=============================================================================
