--------------------------- MODULE IntelExtractors ---------------------------
(***************************************************************************)
(* What TTPExtractor.extract_ttp (intel/ttp_extractor.py) and              *)
(* IOCGenerator.generate_iocs (intel/ioc_generator.py) make of the same    *)
(* list of interactions, which may have one twice or two of one id, need   *)
(* not be in the order of time, and may mix times with and without a zone. *)
(* Regular expressions are abstracted to what they find in a payload.      *)
(* Confidence is in percent.                                               *)
(***************************************************************************)
EXTENDS Integers, Sequences, FiniteSets, SequencesExt, FiniteSetsExt

CONSTANTS
  Interactions,     \* InteractionLog objects
  LogIds, SessionIds,  \* both have a default that objects may share
  Payloads,         \* [hits: technique -> patterns that match, found: indicators in order]
  TechniqueOrder,   \* _TECHNIQUE_PATTERNS
  MaxInteractions,  \* bound: length of the list
  Times,            \* timestamps
  Naive             \* those without a time zone, which compare with one another only

\* _extract_all goes through the types one after the other.
TypeOrder == [ip |-> 1, domain |-> 2, hash |-> 3, url |-> 4, cve |-> 5]

ExtractorsAssumption ==
  /\ MaxInteractions \in Nat
  /\ Times \subseteq Nat /\ Naive \subseteq Times
  /\ \A p \in Payloads :
       /\ p.hits \in [ToSet(TechniqueOrder) -> Nat]
       /\ \A n \in DOMAIN p.found : p.found[n].type \in DOMAIN TypeOrder

VARIABLES
  interaction,  \* object -> [id, session, payload, at]
  list,         \* objects handed to both, in order
  matching,     \* techniques of the last of them that extract_ttp has yet to record
  meeting,      \* where in its payload the indicators generate_iocs has yet to record are
  records,      \* extract_ttp's dict, in the order of insertion
  ioc_map,      \* generate_iocs' dict, likewise
  ttps, iocs    \* the two answers, Unanswered, or what was raised

vars == <<interaction, list, matching, meeting, records, ioc_map, ttps, iocs>>

Unanswered == [done |-> FALSE, sorted |-> <<>>]
TypeError == [raised |-> "TypeError"]
Unseen == -1

Init ==
  /\ interaction \in [Interactions ->
                      [id : LogIds, session : SessionIds, payload : Payloads, at : Times]]
  /\ list = <<>>
  /\ matching = {}
  /\ meeting = {}
  /\ records = <<>>
  /\ ioc_map = <<>>
  /\ ttps = Unanswered
  /\ iocs = Unanswered

-----------------------------------------------------------------------------
(* A definition named X_Y is X with the slip Y in it; it is used only to    *)
(* confirm that a property notices the slip.                               *)

\* _match_payload
Strength(hits) == Min({100, 40 + 15 * hits})
Matched(p) == {t \in ToSet(TechniqueOrder) : p.hits[t] > 0}

\* A technique is kept once for each session.
SameTTP_AnySession(r, session, technique) == r.technique = technique
SameTTP(r, session, technique) == r.session = session /\ r.technique = technique

Stronger(old, new) == Max({old, new})

Sourced_Again(sources, id) == Append(sources, id)
Sourced(sources, id) == IF Contains(sources, id) THEN sources ELSE Append(sources, id)

RecordTTP(x, technique) ==
  LET id == interaction[x].id
      session == interaction[x].session
      strength == Strength(interaction[x].payload.hits[technique])
      same == {n \in DOMAIN records : SameTTP(records[n], session, technique)}
  IN  IF same = {}
      THEN Append(records, [session |-> session, technique |-> technique,
                            confidence |-> strength, sources |-> <<id>>])
      ELSE [n \in DOMAIN records |->
              IF n \in same
              THEN [records[n] EXCEPT !.confidence = Stronger(@, strength),
                                      !.sources = Sourced(@, id)]
              ELSE records[n]]

-----------------------------------------------------------------------------

\* _is_private, on the first two parts of an address
Private(ip) ==
  \/ ip[1] \in {0, 10, 127, 255}
  \/ ip[1] = 172 /\ ip[2] \in 16 .. 31
  \/ ip \in {<<192, 168>>, <<169, 254>>}

\* extract_ips and extract_domains drop some of what they find.
Dropped(f) ==
  \/ f.type = "ip" /\ Private(f.value)
  \/ f.type = "domain" /\ f.value = "filtered"

Initially == [ip |-> 85, domain |-> 75, hash |-> 95, url |-> 90, cve |-> 80]

\* extract_hashes and extract_cves find a value once in a payload; addresses,
\* domains and URLs are found as often as they are there.  The order of
\* several hashes or CVEs of one payload, which only decides ties, is that in
\* which they are found.
FoundOnce == {"hash", "cve"}
Kept(found, n) ==
  /\ ~Dropped(found[n])
  /\ found[n].type \in FoundOnce => \A m \in 1 .. n - 1 : found[m] # found[n]

ExtractAll(p) == {n \in DOMAIN p.found : Kept(p.found, n)}

Precedes(found, m, n) ==
  LET a == TypeOrder[found[m].type]
      b == TypeOrder[found[n].type]
  IN  a < b \/ (a = b /\ m < n)

SameIOC(e, f) == e.type = f.type /\ e.value = f.value

Raised_Always(c) == c + 5
Raised(c) == Min({100, c + 5})

\* first_seen is that of the first one met; only last_seen looks at the time.
Later_Latest(last, at) == at
Later(last, at) == IF last = Unseen \/ at > last THEN at ELSE last

\* last_seen and a timestamp with a zone, or both without.
Comparable(e, at) == e.last # Unseen => (e.last \in Naive <=> at \in Naive)

RecordIOC(x, f) ==
  LET same == {n \in DOMAIN ioc_map : SameIOC(ioc_map[n], f)}
  IN  IF same = {}
      THEN Append(ioc_map, [type |-> f.type, value |-> f.value, count |-> 1,
                            confidence |-> Initially[f.type],
                            first |-> interaction[x].at, last |-> Unseen])
      ELSE [n \in DOMAIN ioc_map |->
              IF n \in same
              THEN [ioc_map[n] EXCEPT !.count = @ + 1, !.confidence = Raised(@),
                                      !.last = Later(@, interaction[x].at)]
              ELSE ioc_map[n]]

-----------------------------------------------------------------------------

Between == matching = {} /\ meeting = {}
Current == list[Len(list)]

\* The next turn of both loops, which share nothing; that of generate_iocs may
\* have been left by an error.
Take(x) ==
  /\ ~ttps.done
  /\ Between
  /\ Len(list) < MaxInteractions
  /\ list' = Append(list, x)
  /\ matching' = Matched(interaction[x].payload)
  /\ meeting' = IF iocs = TypeError THEN {} ELSE ExtractAll(interaction[x].payload)
  /\ UNCHANGED <<interaction, records, ioc_map, ttps, iocs>>

\* One turn of the inner loop of extract_ttp.
MatchTechnique(j) ==
  /\ TechniqueOrder[j] \in matching
  /\ \A k \in 1 .. j - 1 : TechniqueOrder[k] \notin matching
  /\ matching' = matching \ {TechniqueOrder[j]}
  /\ records' = RecordTTP(Current, TechniqueOrder[j])
  /\ UNCHANGED <<interaction, list, meeting, ioc_map, ttps, iocs>>

\* One of that of generate_iocs.
FoundNow == interaction[Current].payload.found
Untimely(n) ==
  \E m \in DOMAIN ioc_map :
    SameIOC(ioc_map[m], FoundNow[n]) /\ ~Comparable(ioc_map[m], interaction[Current].at)

MeetIndicator(n) ==
  /\ \A m \in meeting \ {n} : Precedes(FoundNow, n, m)
  /\ ~Untimely(n)
  /\ meeting' = meeting \ {n}
  /\ ioc_map' = RecordIOC(Current, FoundNow[n])
  /\ UNCHANGED <<interaction, list, matching, records, ttps, iocs>>

\* Nothing catches the error of the comparison.
MeetUntimely(n) ==
  /\ \A m \in meeting \ {n} : Precedes(FoundNow, n, m)
  /\ Untimely(n)
  /\ meeting' = {}
  /\ iocs' = TypeError
  /\ UNCHANGED <<interaction, list, matching, records, ioc_map, ttps>>

\* Both sort by confidence, highest first; Python's sort is stable.
Before(s, m, n) ==
  \/ s[m].confidence > s[n].confidence
  \/ s[m].confidence = s[n].confidence /\ m < n

Place(s, n) == 1 + Cardinality({m \in DOMAIN s : Before(s, m, n)})
Ranked(s) == [k \in DOMAIN s |-> s[CHOOSE n \in DOMAIN s : Place(s, n) = k]]

Report ==
  /\ ~ttps.done
  /\ Between
  /\ ttps' = [done |-> TRUE, sorted |-> Ranked(records)]
  /\ iocs' = IF iocs = TypeError THEN iocs ELSE [done |-> TRUE, sorted |-> Ranked(ioc_map)]
  /\ UNCHANGED <<interaction, list, matching, meeting, records, ioc_map>>

Next ==
  \/ Report
  \/ \E x \in Interactions : Take(x)
  \/ \E j \in DOMAIN TechniqueOrder : MatchTechnique(j)
  \/ \E n \in meeting : MeetIndicator(n) \/ MeetUntimely(n)

Spec == Init /\ [][Next]_vars

-----------------------------------------------------------------------------
(* Properties *)

PayloadOf(k) == interaction[list[k]].payload

\* What in the list shows a technique in a session, the last of it
\* once extract_ttp has come to that technique.
Shows(session, technique) ==
  {list[k] : k \in {k \in DOMAIN list :
     /\ interaction[list[k]].session = session
     /\ technique \in Matched(PayloadOf(k))
     /\ k = Len(list) => technique \notin matching}}

\* However often an interaction is in the list, and in whatever order: one
\* record for a technique in a session, as strong as the strongest that shows it,
\* naming each of their ids once.
TechniquesAddUp ==
  /\ \A session \in SessionIds, t \in ToSet(TechniqueOrder) :
       Cardinality({n \in DOMAIN records : records[n].session = session /\ records[n].technique = t})
         = (IF Shows(session, t) = {} THEN 0 ELSE 1)
  /\ \A n \in DOMAIN records :
       LET r == records[n] IN
       /\ ToSet(r.sources) = {interaction[x].id : x \in Shows(r.session, r.technique)}
       /\ IsInjective(r.sources)
       /\ r.confidence = Max({Strength(interaction[x].payload.hits[r.technique]) :
                                x \in Shows(r.session, r.technique)})

\* The indicators generate_iocs has met: which turn, and where in the payload.
Met ==
  (UNION {{k} \X ExtractAll(PayloadOf(k)) : k \in DOMAIN list}) \ ({Len(list)} \X meeting)

MetAs(e) == {w \in Met : SameIOC(e, PayloadOf(w[1]).found[w[2]])}
At(w) == interaction[list[w[1]]].at

\* A list mixes the times when it has some with and some without a zone.
Mixed ==
  \E j, k \in DOMAIN list : interaction[list[j]].at \in Naive /\ interaction[list[k]].at \notin Naive

\* Only a list that mixes the times makes generate_iocs raise.  Otherwise an
\* indicator that was met is in the map once and counted as often as it was
\* met, an interaction that is in the list twice counting twice; its
\* confidence follows the count.  If the list is in the order of time, it was
\* first seen before it was last seen; if not, first_seen may be the later
\* one, and only the largest of the rest is remembered.
IndicatorsAddUp ==
  /\ iocs = TypeError => Mixed
  /\ iocs # TypeError =>
       \A w \in Met :
         Cardinality({n \in DOMAIN ioc_map :
                        SameIOC(ioc_map[n], PayloadOf(w[1]).found[w[2]])}) = 1
  /\ iocs # TypeError =>
       \A n \in DOMAIN ioc_map :
         LET e == ioc_map[n] IN
         /\ e.count = Cardinality(MetAs(e))
         /\ e.confidence = Min({100, Initially[e.type] + 5 * (e.count - 1)})
         /\ \E w \in MetAs(e) :
              /\ \A v \in MetAs(e) : w[1] <= v[1]
              /\ e.first = At(w)
              /\ e.last = IF MetAs(e) = {w} THEN Unseen
                          ELSE Max({At(v) : v \in MetAs(e) \ {w}})

\* The answers name all that was recorded, the surest first.
AnswersAreRanked ==
  ttps.done =>
    /\ ToSet(ttps.sorted) = ToSet(records)
    /\ \A m, n \in DOMAIN ttps.sorted :
         m < n => ttps.sorted[m].confidence >= ttps.sorted[n].confidence
    /\ iocs # TypeError =>
         /\ ToSet(iocs.sorted) = ToSet(ioc_map)
         /\ \A m, n \in DOMAIN iocs.sorted :
              m < n => iocs.sorted[m].confidence >= iocs.sorted[n].confidence

=============================================================================
