--------------------------- MODULE ServicesProofs ---------------------------
(***************************************************************************)
(* The components MCServices runs one at a time, each with the inductive   *)
(* invariant of its own: XInv, of which XInvInit, XInvNext and XInvHolds   *)
(* say that it holds at first, that every step keeps it and what follows.  *)
(* The theorems at the end put them together.                              *)
(*                                                                         *)
(* The proofs use ServicesAssumption and never the values MCServices gives *)
(* the inputs (commands, profiles, templates): they hold for all others.   *)
(***************************************************************************)
EXTENDS MCServices, SequenceTheorems, FiniteSetTheorems, TLAPS

-----------------------------------------------------------------------------
(* HealthChecker *)

Statuses == {"healthy", "degraded", "unhealthy"}
Checks == Health!Checks
Finding(n) == Health!Finding(n, condition, free)

HealthTypes ==
  /\ healthPhase \in {"new", "checking", "answered", "raised"}
  /\ condition \in [Asked -> {"absent", "well", "ill", "broken"}]
  /\ free \in 0 .. 100
  /\ found \in [Checks -> Statuses \cup {Health!Pending}]
  /\ seen \in [Checks -> SUBSET Statuses]

NotAskedYet == healthPhase = "new" => \A n \in Checks : found[n] = Health!Pending

\* While a check goes on, whatever a component is now, it was seen to be, and
\* every answer it gave was seen.
FoundWasSeen ==
  healthPhase = "checking" =>
    /\ depthKnown
    /\ \A n \in Checks : Finding(n) \in seen[n]
    /\ \A n \in Checks : found[n] = Health!Pending \/ found[n] \in seen[n]

WorstOfFound ==
  healthPhase = "answered" =>
    /\ \A n \in Checks : found[n] \in seen[n]
    /\ overall = Health!Worst({found[n] : n \in Checks})

OnlyCallerFails == healthPhase = "raised" => ~depthKnown \/ start_time = "datetime"

HealthInv == HealthTypes /\ NotAskedYet /\ FoundWasSeen /\ WorstOfFound /\ OnlyCallerFails

LEMMA HealthFacts == Disk \notin Asked /\ FreePercents \subseteq 0 .. 100
BY ServicesAssumption DEF ServicesAssumption, Health!HealthAssumption

LEMMA FindingIsStatus ==
  ASSUME NEW c \in [Asked -> {"absent", "well", "ill", "broken"}], NEW p \in 0 .. 100,
         NEW n \in Checks
  PROVE  Health!Finding(n, c, p) \in Statuses
<1>1. CASE n = Disk
  BY <1>1 DEF Health!Finding, Health!DiskSpace, Statuses
<1>2. CASE n # Disk
  <2>1. c[n] \in {"absent", "well", "ill", "broken"}
    BY <1>2 DEF Checks, Health!Checks
  <2>. QED BY <1>2, <2>1 DEF Health!Finding, Health!Asking, Statuses
<1>. QED BY <1>1, <1>2

LEMMA HealthInvInit == Health!Init => HealthInv
<1>. SUFFICES ASSUME Health!Init PROVE HealthInv
  OBVIOUS
<1>1. HealthTypes
  BY HealthFacts DEF Health!Init, HealthTypes, Checks
<1>. QED BY <1>1 DEF Health!Init, HealthInv, NotAskedYet, Checks, FoundWasSeen, WorstOfFound, OnlyCallerFails

LEMMA ConditionsChange ==
  ASSUME HealthInv, condition' \in [Asked -> {"absent", "well", "ill", "broken"}],
         free' \in 0 .. 100,
         seen' = IF healthPhase = "checking"
                 THEN [n \in Checks |-> seen[n] \cup {Health!Finding(n, condition', free')}]
                 ELSE seen,
         UNCHANGED <<start_time, healthPhase, found, overall, depthKnown>>
  PROVE  HealthInv'
<1>1. \A n \in Checks : Health!Finding(n, condition', free') \in Statuses
  BY FindingIsStatus
<1>2. HealthTypes'
  BY <1>1 DEF HealthInv, HealthTypes
<1>3. FoundWasSeen'
  BY DEF HealthInv, HealthTypes, FoundWasSeen, Finding
<1>4. NotAskedYet' /\ WorstOfFound' /\ OnlyCallerFails'
  BY DEF HealthInv, NotAskedYet, WorstOfFound, OnlyCallerFails
<1>. QED BY <1>2, <1>3, <1>4 DEF HealthInv

LEMMA CheckBegins ==
  ASSUME HealthInv, NEW known \in BOOLEAN, Health!Begin(known)
  PROVE  HealthInv'
<1>1. UNCHANGED <<start_time, condition, free, found, overall>>
  BY DEF Health!Begin
<1>2. /\ depthKnown' = known
      /\ healthPhase' = IF known THEN "checking" ELSE "raised"
      /\ seen' = IF known THEN [n \in Checks |-> {Finding(n)}] ELSE seen
  BY DEF Health!Begin, Checks, Finding
<1>3. \A n \in Checks : Finding(n) \in Statuses
  BY FindingIsStatus DEF HealthInv, HealthTypes, Finding
<1>4. HealthTypes'
  BY <1>1, <1>2, <1>3 DEF HealthInv, HealthTypes
<1>5. \A n \in Checks : found[n] = Health!Pending
  BY DEF Health!Begin, HealthInv, NotAskedYet
<1>. QED
  BY <1>1, <1>2, <1>4, <1>5
  DEF HealthInv, NotAskedYet, FoundWasSeen, WorstOfFound, OnlyCallerFails, Finding

LEMMA CheckRuns ==
  ASSUME HealthInv, NEW n \in Checks, Health!Run(n)
  PROVE  HealthInv'
<1>1. /\ healthPhase = "checking"
      /\ found' = [found EXCEPT ![n] = Finding(n)]
      /\ UNCHANGED <<start_time, condition, free, healthPhase, overall, seen, depthKnown>>
  BY DEF Health!Run, Finding
<1>2. Finding(n) \in Statuses
  BY FindingIsStatus DEF HealthInv, HealthTypes, Finding
<1>3. HealthTypes'
  BY <1>1, <1>2 DEF HealthInv, HealthTypes
<1>4. FoundWasSeen'
  <2>1. \A m \in Checks : found'[m] = IF m = n THEN Finding(n) ELSE found[m]
    BY <1>1 DEF HealthInv, HealthTypes
  <2>. QED BY <1>1, <2>1 DEF HealthInv, FoundWasSeen, Finding
<1>. QED BY <1>1, <1>3, <1>4 DEF HealthInv, NotAskedYet, WorstOfFound, OnlyCallerFails

LEMMA CheckConcludes ==
  ASSUME HealthInv, Health!Conclude
  PROVE  HealthInv'
<1>1. /\ healthPhase = "checking"
      /\ \A n \in Checks : found[n] # Health!Pending
      /\ overall' = Health!Worst({found[n] : n \in Checks})
      /\ healthPhase' = IF start_time = "datetime" THEN "raised" ELSE "answered"
      /\ UNCHANGED <<start_time, condition, free, found, seen, depthKnown>>
  BY DEF Health!Conclude, Checks
<1>2. HealthTypes'
  BY <1>1 DEF HealthInv, HealthTypes
<1>3. \A n \in Checks : found[n] \in seen[n]
  BY <1>1 DEF HealthInv, FoundWasSeen
<1>4. WorstOfFound'
  BY <1>1, <1>3 DEF WorstOfFound, Health!Worst
<1>. QED BY <1>1, <1>2, <1>4 DEF HealthInv, NotAskedYet, FoundWasSeen, OnlyCallerFails

LEMMA HealthInvNext ==
  ASSUME HealthInv, [Health!Next]_(Health!vars) PROVE HealthInv'
<1>1. CASE UNCHANGED Health!vars
  BY <1>1 DEF Health!vars, HealthInv, HealthTypes, NotAskedYet, FoundWasSeen, WorstOfFound,
              OnlyCallerFails, Finding
<1>2. ASSUME NEW n \in Asked, NEW state \in {"well", "ill", "broken"}, Health!Change(n, state)
      PROVE  HealthInv'
  <2>1. condition' \in [Asked -> {"absent", "well", "ill", "broken"}] /\ free' \in 0 .. 100
    BY <1>2 DEF Health!Change, HealthInv, HealthTypes
  <2>2. UNCHANGED <<start_time, healthPhase, found, overall, depthKnown>>
    BY <1>2 DEF Health!Change
  <2>3. seen' = IF healthPhase = "checking"
                THEN [m \in Checks |-> seen[m] \cup {Health!Finding(m, condition', free')}]
                ELSE seen
    BY <1>2 DEF Health!Change, Health!Noticed, Checks
  <2>. QED BY <2>1, <2>2, <2>3, ConditionsChange
<1>3. ASSUME NEW percent \in FreePercents, Health!Fill(percent) PROVE HealthInv'
  <2>1. condition' \in [Asked -> {"absent", "well", "ill", "broken"}] /\ free' \in 0 .. 100
    BY <1>3, HealthFacts DEF Health!Fill, HealthInv, HealthTypes
  <2>2. UNCHANGED <<start_time, healthPhase, found, overall, depthKnown>>
    BY <1>3 DEF Health!Fill
  <2>3. seen' = IF healthPhase = "checking"
                THEN [m \in Checks |-> seen[m] \cup {Health!Finding(m, condition', free')}]
                ELSE seen
    BY <1>3 DEF Health!Fill, Health!Noticed, Checks
  <2>. QED BY <2>1, <2>2, <2>3, ConditionsChange
<1>. QED BY <1>1, <1>2, <1>3, CheckBegins, CheckRuns, CheckConcludes DEF Health!Next, Checks

LEMMA HealthInvHolds == HealthInv => Health!HealthIsObserved
<1>. SUFFICES ASSUME HealthInv PROVE Health!HealthIsObserved
  OBVIOUS
<1>1. healthPhase = "raised" => ~depthKnown \/ start_time = "datetime"
  BY DEF HealthInv, OnlyCallerFails
<1>2. ASSUME healthPhase = "answered"
      PROVE  /\ \A n \in Checks : seen[n] = {"unhealthy"} => overall = "unhealthy"
             /\ \A n \in Checks : "healthy" \notin seen[n] => overall # "healthy"
             /\ overall # "healthy" => \E n \in Checks : overall \in seen[n]
  <2>1. /\ \A n \in Checks : found[n] \in seen[n] /\ seen[n] \subseteq Statuses
        /\ overall = Health!Worst({found[n] : n \in Checks})
    BY <1>2 DEF HealthInv, HealthTypes, WorstOfFound
  <2>. QED BY <2>1 DEF Health!Worst, Statuses
<1>. QED BY <1>1, <1>2 DEF Health!HealthIsObserved, Checks

-----------------------------------------------------------------------------
(* EmberArmorAdapter *)

AdapterCalls == Armor!AdapterCalls
Holders == Armor!Holders
NoToken == Armor!Nothing
Places(e) == {k \in 1 .. Len(audit_log) : audit_log[k] = e}

ArmorTypes ==
  /\ now \in Nat
  /\ token \in Nat \cup {NoToken}
  /\ attempts \in Nat
  /\ audit_log \in Seq(Events)
  /\ armorPhase \in [AdapterCalls -> {"new", "asleep", "refreshing", "done"}]
  /\ answer \in [AdapterCalls -> {"none", "token", "true", "false", "raised"}]
  /\ answered \in [Logins -> Nat \cup {NoToken}]
  /\ enabled \in BOOLEAN /\ foundEnabled \in [Events -> BOOLEAN]

\* A call that is not done has not answered.
OpenIsSilent == \A c \in AdapterCalls : armorPhase[c] # "done" => answer[c] = "none"

\* Every token is issued after the calls that were answered before.
TokensAdvance ==
  /\ token # NoToken => token <= now /\ api_key
  /\ \A c \in Logins :
       /\ armorPhase[c] = "asleep" => api_key
       /\ armorPhase[c] = "refreshing" => token # NoToken
       /\ answer[c] = "token" =>
            /\ token # NoToken
            /\ answered[c] # NoToken /\ answered[c] <= token

AttemptsCounted == IsFiniteSet(Holders) /\ attempts <= Cardinality(Holders)

\* The call of e stored nothing: it has not begun, or its details were no good.
Unstored(e) == armorPhase[e] = "new" \/ answer[e] = "raised"

\* An event that was logged is in one place.
StoredOnce ==
  \A e \in Events :
    IF Unstored(e) THEN Places(e) = {} ELSE \E k : Places(e) = {k}

BreakerAnswers ==
  \A e \in Events :
    /\ armorPhase[e] = "asleep" => foundEnabled[e]
    /\ answer[e] = "false" <=>
         armorPhase[e] = "done" /\ answer[e] # "raised" /\ ~foundEnabled[e]

ArmorInv ==
  /\ ArmorTypes
  /\ OpenIsSilent
  /\ TokensAdvance
  /\ AttemptsCounted
  /\ StoredOnce
  /\ BreakerAnswers

LEMMA ArmorFacts == /\ Lifetime \in Nat /\ Logins \cap Events = {}
                    /\ AdapterCalls = Logins \cup Events /\ NoToken = -1
BY ServicesAssumption
DEF ServicesAssumption, Armor!ArmorAssumption, AdapterCalls, Armor!AdapterCalls,
    NoToken, Armor!Nothing

LEMMA ArmorInvInit == Armor!Init => ArmorInv
<1>. SUFFICES ASSUME Armor!Init PROVE ArmorInv
  OBVIOUS
<1>1. Holders = {} /\ \A e \in Events : Places(e) = {}
  BY ArmorFacts DEF Armor!Init, Holders, Armor!Holders, Places, AdapterCalls
<1>2. IsFiniteSet(Holders) /\ Cardinality(Holders) = 0
  BY <1>1, FS_EmptySet, Zenon
<1>3. ArmorTypes
  BY DEF Armor!Init, ArmorTypes, AdapterCalls, NoToken
<1>4. OpenIsSilent /\ TokensAdvance
  BY ArmorFacts DEF Armor!Init, OpenIsSilent, TokensAdvance, AdapterCalls, NoToken
<1>5. AttemptsCounted /\ StoredOnce /\ BreakerAnswers
  BY <1>1, <1>2, ArmorFacts DEF Armor!Init, AttemptsCounted, StoredOnce, BreakerAnswers,
     AdapterCalls, Unstored
<1>. QED BY <1>3, <1>4, <1>5 DEF ArmorInv

\* What is unchanged while only calls, the clock and the breaker move.
LEMMA AnswersKept ==
  ASSUME ArmorInv, UNCHANGED <<attempts, answer>>
  PROVE  AttemptsCounted' /\ Holders' = Holders
<1>1. Holders' = Holders
  BY DEF Holders, Armor!Holders
<1>. QED BY <1>1 DEF ArmorInv, AttemptsCounted

LEMMA LoginBegins ==
  ASSUME ArmorInv, NEW c \in Logins, Armor!Authenticate(c) \/ Armor!Refresh(c)
  PROVE  ArmorInv'
<1>1. PICK next \in {"asleep", "refreshing", "done"} :
        /\ armorPhase[c] = "new" /\ armorPhase' = [armorPhase EXCEPT ![c] = next]
        /\ next = "asleep" => api_key
        /\ next = "refreshing" => token # NoToken
  BY DEF Armor!Authenticate, Armor!Refresh, Armor!BeginLogin, Armor!Begin, NoToken
<1>2. UNCHANGED <<api_key, now, token, attempts, enabled, audit_log, answer, answered,
                  foundEnabled>>
  BY DEF Armor!Authenticate, Armor!Refresh, Armor!BeginLogin
<1>3. ArmorTypes' /\ OpenIsSilent'
  BY <1>1, <1>2 DEF ArmorInv, ArmorTypes, OpenIsSilent
<1>4. TokensAdvance'
  BY <1>1, <1>2, ArmorFacts DEF ArmorInv, ArmorTypes, TokensAdvance
<1>5. \A e \in Events : armorPhase'[e] = armorPhase[e]
  BY <1>1, ArmorFacts DEF ArmorInv, ArmorTypes
<1>6. StoredOnce' /\ BreakerAnswers'
  BY <1>2, <1>5, ZenonT(60) DEF ArmorInv, StoredOnce, BreakerAnswers, Places, Unstored
<1>. QED BY <1>2, <1>3, <1>4, <1>6, AnswersKept DEF ArmorInv

LEMMA LoginEnds ==
  ASSUME ArmorInv, NEW c \in Logins, Armor!Issue(c)
  PROVE  ArmorInv'
<1>1. /\ armorPhase[c] \in {"asleep", "refreshing"}
      /\ armorPhase' = [armorPhase EXCEPT ![c] = "done"]
      /\ token' = now
      /\ answer' = [answer EXCEPT ![c] = "token"]
      /\ attempts' = attempts + 1 \/ attempts' = attempts
      /\ answered' = [answered EXCEPT ![c] = now]
      /\ UNCHANGED <<api_key, now, enabled, audit_log, foundEnabled>>
  BY DEF Armor!Issue, Armor!IssuedAt
<1>2. ArmorTypes' /\ OpenIsSilent'
  BY <1>1, ArmorFacts DEF ArmorInv, ArmorTypes, OpenIsSilent
<1>3. api_key
  BY <1>1 DEF ArmorInv, TokensAdvance
<1>4. TokensAdvance'
  <2>1. now # NoToken /\ now \in Nat /\ token' # NoToken
    BY <1>1, ArmorFacts DEF ArmorInv, ArmorTypes
  <2>2. ASSUME NEW d \in Logins, answer'[d] = "token"
        PROVE  answered'[d] # NoToken /\ answered'[d] <= now
    <3>1. CASE d = c
      BY <1>1, <2>1, <3>1 DEF ArmorInv, ArmorTypes
    <3>2. CASE d # c
      <4>1. answer[d] = "token" /\ answered'[d] = answered[d]
        BY <1>1, <2>2, <3>2, ArmorFacts DEF ArmorInv, ArmorTypes
      <4>2. /\ answered[d] # NoToken /\ answered[d] <= token /\ token # NoToken /\ token <= now
            /\ answered[d] \in Nat /\ token \in Nat
        BY <4>1 DEF ArmorInv, ArmorTypes, TokensAdvance
      <4>. QED BY <2>1, <4>1, <4>2
    <3>. QED BY <3>1, <3>2
  <2>3. \A d \in Logins : armorPhase'[d] = "asleep" => api_key
    BY <1>3
  <2>. QED BY <1>1, <1>3, <2>1, <2>2, <2>3 DEF TokensAdvance
<1>5. AttemptsCounted'
  <2>1. c \notin Holders
    BY <1>1, ArmorFacts DEF ArmorInv, OpenIsSilent, Holders, Armor!Holders
  <2>2. Holders' = Holders \cup {c}
    BY <1>1, ArmorFacts DEF ArmorInv, ArmorTypes, Holders, Armor!Holders
  <2>3. IsFiniteSet(Holders \cup {c}) /\ Cardinality(Holders \cup {c}) = Cardinality(Holders) + 1
    BY <2>1, FS_AddElement DEF ArmorInv, AttemptsCounted
  <2>4. Cardinality(Holders) \in Nat /\ attempts \in Nat /\ attempts <= Cardinality(Holders)
    BY FS_CardinalityType DEF ArmorInv, ArmorTypes, AttemptsCounted
  <2>. QED BY <1>1, <2>2, <2>3, <2>4 DEF AttemptsCounted
<1>6. \A e \in Events : armorPhase'[e] = armorPhase[e] /\ answer'[e] = answer[e]
  BY <1>1, ArmorFacts DEF ArmorInv, ArmorTypes
<1>7. StoredOnce' /\ BreakerAnswers'
  BY <1>1, <1>6, ZenonT(60) DEF ArmorInv, StoredOnce, BreakerAnswers, Places, Unstored
<1>. QED BY <1>2, <1>4, <1>5, <1>7 DEF ArmorInv

LEMMA AuditRejected ==
  ASSUME ArmorInv, NEW e \in Events, Armor!RejectAudit(e)
  PROVE  ArmorInv'
<1>1. /\ armorPhase[e] = "new"
      /\ armorPhase' = [armorPhase EXCEPT ![e] = "done"]
      /\ answer' = [answer EXCEPT ![e] = "raised"]
      /\ UNCHANGED <<api_key, now, token, attempts, enabled, audit_log, answered, foundEnabled>>
  BY DEF Armor!RejectAudit, Armor!Begin
<1>2. ArmorTypes' /\ OpenIsSilent'
  BY <1>1, ArmorFacts DEF ArmorInv, ArmorTypes, OpenIsSilent
<1>3. \A c \in Logins : armorPhase'[c] = armorPhase[c] /\ answer'[c] = answer[c]
  BY <1>1, ArmorFacts DEF ArmorInv, ArmorTypes
<1>4. TokensAdvance'
  BY <1>1, <1>3 DEF ArmorInv, TokensAdvance
<1>5. AttemptsCounted'
  <2>1. Holders' = Holders
    BY <1>3 DEF Holders, Armor!Holders
  <2>. QED BY <1>1, <2>1 DEF ArmorInv, AttemptsCounted
<1>6. /\ armorPhase'[e] = "done" /\ answer'[e] = "raised"
      /\ \A d \in Events \ {e} : armorPhase'[d] = armorPhase[d] /\ answer'[d] = answer[d]
  BY <1>1, ArmorFacts DEF ArmorInv, ArmorTypes
<1>7. StoredOnce'
  <2>1. \A d \in Events : Places(d)' = Places(d)
    BY <1>1 DEF Places
  <2>2. \A d \in Events : Unstored(d)' <=> Unstored(d)
    BY <1>1, <1>6 DEF Unstored
  <2>. QED BY <2>1, <2>2 DEF ArmorInv, StoredOnce
<1>8. BreakerAnswers'
  BY <1>1, <1>6 DEF ArmorInv, BreakerAnswers
<1>. QED BY <1>2, <1>4, <1>5, <1>7, <1>8 DEF ArmorInv

LEMMA AuditBegins ==
  ASSUME ArmorInv, NEW e \in Events, Armor!LogAudit(e)
  PROVE  ArmorInv'
<1>. DEFINE t == Append(audit_log, e)
<1>1. /\ armorPhase[e] = "new"
      /\ armorPhase' = [armorPhase EXCEPT ![e] = IF enabled THEN "asleep" ELSE "done"]
      /\ foundEnabled' = [foundEnabled EXCEPT ![e] = enabled]
      /\ audit_log' = t
      /\ answer' = IF enabled THEN answer ELSE [answer EXCEPT ![e] = "false"]
      /\ UNCHANGED <<api_key, now, token, attempts, enabled, answered>>
  BY DEF Armor!LogAudit, Armor!Begin, Armor!Kept
<1>2. /\ t \in Seq(Events) /\ Len(audit_log) \in Nat /\ Len(t) = Len(audit_log) + 1
      /\ t[Len(t)] = e /\ \A k \in 1 .. Len(audit_log) : t[k] = audit_log[k]
  <2>1. audit_log \in Seq(Events)
    BY DEF ArmorInv, ArmorTypes
  <2>. QED BY <2>1, AppendProperties, LenProperties
<1>. HIDE DEF t
<1>3. e \in AdapterCalls /\ e \notin Logins
  BY ArmorFacts
<1>4. ArmorTypes'
  <2>1. foundEnabled' \in [Events -> BOOLEAN]
    BY <1>1 DEF ArmorInv, ArmorTypes
  <2>2. /\ armorPhase' \in [AdapterCalls -> {"new", "asleep", "refreshing", "done"}]
        /\ answer' \in [AdapterCalls -> {"none", "token", "true", "false", "raised"}]
    BY <1>1 DEF ArmorInv, ArmorTypes
  <2>. QED BY <1>1, <1>2, <2>1, <2>2 DEF ArmorInv, ArmorTypes
<1>5. answer[e] = "none"
  BY <1>1, <1>3 DEF ArmorInv, OpenIsSilent
<1>6. OpenIsSilent'
  BY <1>1, <1>3 DEF ArmorInv, ArmorTypes, OpenIsSilent
<1>7. \A c \in Logins : armorPhase'[c] = armorPhase[c] /\ answer'[c] = answer[c]
  BY <1>1, <1>3, ArmorFacts DEF ArmorInv, ArmorTypes
<1>8. TokensAdvance'
  BY <1>1, <1>7 DEF ArmorInv, TokensAdvance
<1>9. AttemptsCounted'
  <2>1. Holders' = Holders
    BY <1>7 DEF Holders, Armor!Holders
  <2>. QED BY <1>1, <2>1 DEF ArmorInv, AttemptsCounted
<1>10. StoredOnce'
  <2>1. \A d \in Events : Places(d)' = IF d = e THEN Places(d) \cup {Len(t)} ELSE Places(d)
    BY <1>1, <1>2 DEF Places
  <2>2. Places(e) = {}
    BY <1>1 DEF ArmorInv, StoredOnce, Unstored
  <2>3. armorPhase'[e] # "new" /\ answer'[e] # "raised"
    BY <1>1, <1>3, <1>5 DEF ArmorInv, ArmorTypes
  <2>4. Places(e)' = {Len(t)} /\ ~Unstored(e)'
    BY <2>1, <2>2, <2>3 DEF Unstored
  <2>5. \A d \in Events \ {e} : Places(d)' = Places(d) /\ (Unstored(d)' <=> Unstored(d))
    BY <1>1, <2>1, ArmorFacts DEF ArmorInv, ArmorTypes, Unstored
  <2>. QED BY <2>4, <2>5 DEF ArmorInv, StoredOnce
<1>11. BreakerAnswers'
  <2>1. foundEnabled'[e] = enabled
    BY <1>1 DEF ArmorInv, ArmorTypes
  <2>2. /\ armorPhase'[e] = IF enabled THEN "asleep" ELSE "done"
        /\ answer'[e] = IF enabled THEN "none" ELSE "false"
    BY <1>1, <1>3, <1>5 DEF ArmorInv, ArmorTypes
  <2>3. \A d \in Events \ {e} : /\ armorPhase'[d] = armorPhase[d] /\ answer'[d] = answer[d]
                                /\ foundEnabled'[d] = foundEnabled[d]
    BY <1>1, ArmorFacts DEF ArmorInv, ArmorTypes
  <2>4. enabled \in BOOLEAN
    BY DEF ArmorInv, ArmorTypes
  <2>5. /\ armorPhase'[e] = "asleep" => foundEnabled'[e]
        /\ answer'[e] = "false" <=>
             armorPhase'[e] = "done" /\ answer'[e] # "raised" /\ ~foundEnabled'[e]
    BY <2>1, <2>2, <2>4
  <2>. QED BY <2>3, <2>5 DEF ArmorInv, BreakerAnswers
<1>. QED BY <1>4, <1>6, <1>8, <1>9, <1>10, <1>11 DEF ArmorInv

LEMMA AuditEnds ==
  ASSUME ArmorInv, NEW e \in Events, Armor!Logged(e)
  PROVE  ArmorInv'
<1>1. /\ armorPhase[e] = "asleep"
      /\ armorPhase' = [armorPhase EXCEPT ![e] = "done"]
      /\ answer' = [answer EXCEPT ![e] = "true"]
      /\ UNCHANGED <<api_key, now, token, attempts, enabled, audit_log, answered, foundEnabled>>
  BY DEF Armor!Logged
<1>2. ArmorTypes' /\ OpenIsSilent'
  BY <1>1, ArmorFacts DEF ArmorInv, ArmorTypes, OpenIsSilent
<1>3. \A c \in Logins : armorPhase'[c] = armorPhase[c] /\ answer'[c] = answer[c]
  BY <1>1, ArmorFacts DEF ArmorInv, ArmorTypes
<1>4. TokensAdvance'
  BY <1>1, <1>3 DEF ArmorInv, TokensAdvance
<1>5. AttemptsCounted'
  <2>1. Holders' = Holders
    BY <1>3 DEF Holders, Armor!Holders
  <2>. QED BY <1>1, <2>1 DEF ArmorInv, AttemptsCounted
<1>6. foundEnabled[e]
  BY <1>1 DEF ArmorInv, BreakerAnswers
<1>7. /\ e \in AdapterCalls /\ armorPhase'[e] = "done" /\ answer'[e] = "true"
      /\ \A d \in Events \ {e} : armorPhase'[d] = armorPhase[d] /\ answer'[d] = answer[d]
  BY <1>1, ArmorFacts DEF ArmorInv, ArmorTypes
<1>8. StoredOnce'
  <2>1. \A d \in Events : Places(d)' = Places(d)
    BY <1>1 DEF Places
  <2>2. \A d \in Events : Unstored(d)' <=> Unstored(d)
    <3>1. answer[e] = "none" /\ armorPhase[e] # "new"
      BY <1>1, <1>7 DEF ArmorInv, OpenIsSilent
    <3>. QED BY <1>7, <3>1 DEF Unstored
  <2>. QED BY <2>1, <2>2 DEF ArmorInv, StoredOnce
<1>9. BreakerAnswers'
  BY <1>1, <1>6, <1>7 DEF ArmorInv, BreakerAnswers
<1>. QED BY <1>2, <1>4, <1>5, <1>8, <1>9 DEF ArmorInv

LEMMA ArmorInvNext ==
  ASSUME ArmorInv, [Armor!Next]_(Armor!vars) PROVE ArmorInv'
<1>1. CASE UNCHANGED Armor!vars \/ Armor!Switch \/ Armor!Tick
  <2>1. UNCHANGED <<api_key, token, attempts, audit_log, armorPhase, answer, answered, foundEnabled>>
    BY <1>1 DEF Armor!vars, Armor!Switch, Armor!Tick
  <2>2. /\ enabled' \in BOOLEAN
        /\ now' \in Nat /\ now <= now'
    <3>1. now \in Nat /\ enabled \in BOOLEAN
      BY DEF ArmorInv, ArmorTypes
    <3>2. (enabled' = enabled \/ enabled' = ~enabled) /\ (now' = now \/ now' = now + 1)
      <4>1. CASE UNCHANGED Armor!vars
        BY <4>1 DEF Armor!vars
      <4>2. CASE Armor!Switch
        BY <4>2 DEF Armor!Switch
      <4>3. CASE Armor!Tick
        BY <4>3 DEF Armor!Tick
      <4>. QED BY <1>1, <4>1, <4>2, <4>3
    <3>3. enabled' \in BOOLEAN
      BY <3>1, <3>2, Zenon
    <3>4. now' \in Nat /\ now <= now'
      <4>1. now' = now \/ now' = now + 1
        BY <3>2
      <4>. QED BY <3>1, <4>1
    <3>. QED BY <3>3, <3>4
  <2>3. ArmorTypes'
    BY <2>1, <2>2 DEF ArmorInv, ArmorTypes
  <2>4. TokensAdvance'
    BY <2>1, <2>2, ArmorFacts DEF ArmorInv, ArmorTypes, TokensAdvance
  <2>5. OpenIsSilent' /\ StoredOnce' /\ BreakerAnswers'
    BY <2>1 DEF ArmorInv, OpenIsSilent, StoredOnce, BreakerAnswers, Places, Unstored
  <2>. QED BY <2>1, <2>3, <2>4, <2>5, AnswersKept DEF ArmorInv
<1>. QED BY <1>1, LoginBegins, LoginEnds, AuditRejected, AuditBegins, AuditEnds DEF Armor!Next

\* FiniteSets as the instance has it.
LEMMA ArmorCardinality == ASSUME NEW S PROVE Armor!Cardinality(S) = Cardinality(S)
BY DEF Armor!Cardinality, Cardinality

LEMMA ArmorInvHolds == ArmorInv => Armor!TokenLastsItsLifetime /\ Armor!AuditKept
<1>. SUFFICES ASSUME ArmorInv PROVE Armor!TokenLastsItsLifetime /\ Armor!AuditKept
  OBVIOUS
<1>1. Armor!TokenLastsItsLifetime
  <2>1. ASSUME NEW c \in Holders
        PROVE  /\ token # NoToken /\ api_key
               /\ now <= answered[c] + Lifetime => now <= token + Lifetime
    <3>1. c \in Logins /\ answer[c] = "token"
      BY DEF Holders, Armor!Holders
    <3>2. /\ token # NoToken /\ api_key /\ token \in Nat /\ now \in Nat
          /\ answered[c] \in Nat /\ answered[c] <= token
      BY <3>1 DEF ArmorInv, ArmorTypes, TokensAdvance
    <3>. QED BY <3>2, ArmorFacts
  <2>2. attempts <= Cardinality(Holders)
    BY DEF ArmorInv, AttemptsCounted
  <2>. QED BY <2>1, <2>2, ArmorCardinality DEF Armor!TokenLastsItsLifetime, Armor!IsAuthenticated, Holders, NoToken
<1>2. ASSUME NEW e \in Events
      PROVE  /\ Cardinality(Places(e)) = (IF Unstored(e) THEN 0 ELSE 1)
             /\ answer[e] = "false" <=>
                  armorPhase[e] = "done" /\ answer[e] # "raised" /\ ~foundEnabled[e]
  <2>1. CASE Unstored(e)
    <3>1. Places(e) = {}
      BY <2>1 DEF ArmorInv, StoredOnce
    <3>2. Cardinality(Places(e)) = 0
      BY <3>1, FS_EmptySet, Zenon
    <3>. QED BY <2>1, <3>2 DEF ArmorInv, BreakerAnswers
  <2>2. CASE ~Unstored(e)
    <3>1. \E k : Places(e) = {k}
      BY <2>2 DEF ArmorInv, StoredOnce
    <3>2. Cardinality(Places(e)) = 1
      BY <3>1, FS_Singleton, Zenon
    <3>. QED BY <2>2, <3>2 DEF ArmorInv, BreakerAnswers
  <2>. QED BY <2>1, <2>2
<1>3. DOMAIN audit_log = 1 .. Len(audit_log)
  BY DEF ArmorInv, ArmorTypes
<1>. QED BY <1>1, <1>2, <1>3, ArmorCardinality DEF Armor!AuditKept, Places, Unstored

-----------------------------------------------------------------------------
(* CenturiaAdapter *)

Submissions == Swarm!Submissions
Filed(ip) == memory[ip].reports
ScoresOf(S) == {subject[r].score : r \in S}

SwarmTypes ==
  /\ subject \in [Reports -> [ip : IPs, score : Scores]]
  /\ swarmPhase \in [Submissions -> {"new", "asleep", "accepted"}]
  /\ memory \in [IPs -> [score : Int, reports : SUBSET Reports]]

\* Where a report is, by the phase of its call.
ReportPlaced ==
  /\ queued_intel \subseteq Reports
  /\ \A r \in Reports :
       /\ swarmPhase[r] = "new" => r \notin sent
       /\ swarmPhase[r] = "asleep" => r \in sent
       /\ r \in queued_intel <=> swarmPhase[r] = "accepted" /\ r \notin sent
       /\ \A ip \in IPs :
            r \in Filed(ip) <=> swarmPhase[r] = "accepted" /\ r \in sent /\ subject[r].ip = ip

\* The score of an address is that of one of its reports, and no report's
\* score is above it.
HighestKept ==
  \A ip \in IPs :
    /\ Filed(ip) = {} => memory[ip].score = -1
    /\ Filed(ip) # {} => memory[ip].score \in ScoresOf(Filed(ip))
    /\ \A r \in Filed(ip) : subject[r].score <= memory[ip].score

SwarmInv == SwarmTypes /\ ReportPlaced /\ HighestKept

LEMMA SwarmFacts == Scores \subseteq 0 .. 100 /\ Submissions = Reports \cup Indicators
BY ServicesAssumption
DEF ServicesAssumption, Swarm!CenturiaAssumption, Submissions, Swarm!Submissions

LEMMA SubjectFacts ==
  ASSUME SwarmInv, NEW r \in Reports
  PROVE  /\ subject[r].ip \in IPs /\ subject[r].score \in Scores
         /\ subject[r].score \in Int /\ subject[r].score >= 0
<1>1. subject[r] \in [ip : IPs, score : Scores]
  BY DEF SwarmInv, SwarmTypes
<1>2. subject[r].ip \in IPs /\ subject[r].score \in Scores
  BY <1>1
<1>3. \A s \in 0 .. 100 : s \in Int /\ s >= 0
  OBVIOUS
<1>. QED BY <1>2, <1>3, SwarmFacts

LEMMA MemoryFacts ==
  ASSUME SwarmInv, NEW ip \in IPs
  PROVE  memory[ip].score \in Int /\ Filed(ip) \subseteq Reports
<1>1. memory[ip] \in [score : Int, reports : SUBSET Reports]
  BY DEF SwarmInv, SwarmTypes
<1>. QED BY <1>1 DEF Filed

LEMMA HighestOf ==
  ASSUME NEW S \in SUBSET Int, NEW m \in S, \A s \in S : s <= m
  PROVE  Swarm!Max(S) = m
<1>1. Swarm!Max(S) \in S /\ \A s \in S : Swarm!Max(S) >= s
  BY DEF Swarm!Max
<1>2. S \subseteq Int /\ m \in Int /\ Swarm!Max(S) \in Int
  BY <1>1
<1>3. Swarm!Max(S) >= m /\ Swarm!Max(S) <= m
  BY <1>1
<1>. QED BY <1>2, <1>3

LEMMA SwarmInvInit == Swarm!Init => SwarmInv
<1>. SUFFICES ASSUME Swarm!Init PROVE SwarmInv
  OBVIOUS
<1>1. \A ip \in IPs : memory[ip] = [score |-> -1, reports |-> {}]
  BY DEF Swarm!Init, Swarm!Unknown
<1>2. SwarmTypes
  BY <1>1 DEF Swarm!Init, Swarm!Unknown, SwarmTypes, Submissions
<1>3. ReportPlaced
  BY <1>1, SwarmFacts DEF Swarm!Init, ReportPlaced, Filed, Submissions
<1>4. HighestKept
  BY <1>1 DEF HighestKept, Filed
<1>. QED BY <1>2, <1>3, <1>4 DEF SwarmInv

LEMMA Submitted ==
  ASSUME SwarmInv, NEW c \in Submissions, Swarm!Submit(c)
  PROVE  SwarmInv'
<1>1. swarmPhase[c] = "new" /\ UNCHANGED <<subject, memory>>
  BY DEF Swarm!Submit
<1>2. PICK next \in {"asleep", "accepted"} :
        /\ swarmPhase' = [swarmPhase EXCEPT ![c] = next]
        /\ sent' = IF next = "asleep" THEN sent \cup {c} ELSE sent
        /\ queued_intel' = IF next = "asleep" THEN queued_intel ELSE queued_intel \cup ({c} \cap Reports)
  BY DEF Swarm!Submit
<1>3. SwarmTypes'
  BY <1>1, <1>2 DEF SwarmInv, SwarmTypes
<1>4. swarmPhase'[c] = next /\ \A r \in Reports \ {c} : swarmPhase'[r] = swarmPhase[r]
  BY <1>2, SwarmFacts DEF SwarmInv, SwarmTypes
<1>5. \A ip \in IPs : Filed(ip)' = Filed(ip)
  BY <1>1 DEF Filed
<1>6. ReportPlaced'
  BY <1>1, <1>2, <1>4, <1>5 DEF SwarmInv, ReportPlaced
<1>7. HighestKept'
  BY <1>1, <1>5 DEF SwarmInv, HighestKept, ScoresOf
<1>. QED BY <1>3, <1>6, <1>7 DEF SwarmInv

LEMMA Arrived ==
  ASSUME SwarmInv, NEW c \in Submissions, Swarm!Arrive(c)
  PROVE  SwarmInv'
<1>1. /\ swarmPhase[c] = "asleep"
      /\ swarmPhase' = [swarmPhase EXCEPT ![c] = "accepted"]
      /\ UNCHANGED <<subject, queued_intel, sent>>
  BY DEF Swarm!Arrive
<1>2. swarmPhase'[c] = "accepted" /\ \A r \in Reports \ {c} : swarmPhase'[r] = swarmPhase[r]
  BY <1>1, SwarmFacts DEF SwarmInv, SwarmTypes
<1>3. CASE c \notin Reports
  <2>1. memory' = memory
    BY <1>3 DEF Swarm!Arrive
  <2>2. \A ip \in IPs : Filed(ip)' = Filed(ip)
    BY <2>1 DEF Filed
  <2>3. SwarmTypes' /\ HighestKept'
    BY <1>1, <2>1, <2>2 DEF SwarmInv, SwarmTypes, HighestKept, ScoresOf
  <2>4. ReportPlaced'
    BY <1>1, <1>2, <1>3, <2>2 DEF SwarmInv, ReportPlaced
  <2>. QED BY <2>3, <2>4 DEF SwarmInv
<1>4. CASE c \in Reports
  <2>. PICK a \in IPs : a = subject[c].ip
    BY <1>4, SubjectFacts
  <2>. DEFINE new == subject[c].score
              old == memory[a].score
  <2>1. a \in IPs /\ new \in Scores /\ new \in Int /\ new >= 0 /\ old \in Int /\ Filed(a) \subseteq Reports
    BY <1>4, SubjectFacts, MemoryFacts
  <2>2. PICK m \in {old, new} : m >= old /\ m >= new
    BY <2>1
  <2>3. Swarm!Max({old, new}) = m
    BY <2>1, <2>2, HighestOf
  <2>4. memory' = [memory EXCEPT ![a] = [score |-> m, reports |-> Filed(a) \cup {c}]]
    BY <1>4, <2>3 DEF Swarm!Arrive, Swarm!Merged, Filed
  <2>5. /\ memory'[a].score = m /\ Filed(a)' = Filed(a) \cup {c}
        /\ \A ip \in IPs \ {a} : Filed(ip)' = Filed(ip) /\ memory'[ip].score = memory[ip].score
    <3>1. memory'[a] = [score |-> m, reports |-> Filed(a) \cup {c}]
      BY <2>1, <2>4 DEF SwarmInv, SwarmTypes
    <3>2. \A ip \in IPs \ {a} : memory'[ip] = memory[ip]
      BY <2>4 DEF SwarmInv, SwarmTypes
    <3>. QED BY <3>1, <3>2 DEF Filed
  <2>6. SwarmTypes'
    BY <1>1, <1>4, <2>1, <2>2, <2>4 DEF SwarmInv, SwarmTypes
  <2>7. ReportPlaced'
    BY <1>1, <1>2, <1>4, <2>1, <2>5 DEF SwarmInv, ReportPlaced
  <2>8. HighestKept'
    <3>1. ASSUME NEW ip \in IPs \ {a}
          PROVE  /\ Filed(ip)' = {} => memory'[ip].score = -1
                 /\ Filed(ip)' # {} => memory'[ip].score \in ScoresOf(Filed(ip))'
                 /\ \A r \in Filed(ip)' : subject'[r].score <= memory'[ip].score
      BY <1>1, <2>5, <3>1 DEF SwarmInv, HighestKept, ScoresOf
    <3>2. m \in ScoresOf(Filed(a) \cup {c})
      <4>1. CASE Filed(a) = {}
        <5>1. m = new
          BY <2>1, <2>2, <4>1 DEF SwarmInv, HighestKept
        <5>. QED BY <5>1 DEF ScoresOf
      <4>2. CASE Filed(a) # {}
        BY <2>1, <2>2, <4>2 DEF SwarmInv, HighestKept, ScoresOf
      <4>. QED BY <4>1, <4>2
    <3>3. \A r \in Filed(a) \cup {c} : subject[r].score <= m
      <4>1. ASSUME NEW r \in Filed(a) PROVE subject[r].score <= m
        <5>1. subject[r].score <= old /\ subject[r].score \in Int
          BY <2>1, SubjectFacts DEF SwarmInv, HighestKept
        <5>. QED BY <2>1, <2>2, <5>1
      <4>2. subject[c].score <= m
        BY <2>1, <2>2
      <4>. QED BY <4>1, <4>2
    <3>. QED BY <1>1, <2>1, <2>5, <3>1, <3>2, <3>3 DEF HighestKept, ScoresOf
  <2>. QED BY <2>6, <2>7, <2>8 DEF SwarmInv
<1>. QED BY <1>3, <1>4

LEMMA SwarmInvNext ==
  ASSUME SwarmInv, [Swarm!Next]_(Swarm!vars) PROVE SwarmInv'
<1>1. CASE UNCHANGED Swarm!vars \/ Swarm!Connect \/ Swarm!Connected \/ Swarm!Disconnect
  <2>1. UNCHANGED <<subject, swarmPhase, queued_intel, memory, sent>>
    BY <1>1 DEF Swarm!vars, Swarm!Connect, Swarm!Connected, Swarm!Disconnect
  <2>. QED BY <2>1
       DEF SwarmInv, SwarmTypes, ReportPlaced, HighestKept, ScoresOf, Filed
<1>. QED BY <1>1, Submitted, Arrived DEF Swarm!Next, Submissions

LEMMA SwarmInvHolds == SwarmInv => Swarm!IntelAccounted
<1>. SUFFICES ASSUME SwarmInv PROVE Swarm!IntelAccounted
  OBVIOUS
<1>. DEFINE All == Swarm!Remembered
<1>1. \A ip \in IPs : Filed(ip) \subseteq Reports
  BY DEF SwarmInv, SwarmTypes, Filed
<1>2. All \subseteq Reports /\ \A r \in Reports : r \in All <=> \E ip \in IPs : r \in Filed(ip)
  BY <1>1 DEF Swarm!Remembered, Filed
<1>3. \A r \in Reports : r \in All <=> swarmPhase[r] = "accepted" /\ r \in sent
  BY <1>2 DEF SwarmInv, SwarmTypes, ReportPlaced
<1>. HIDE DEF All
<1>4. /\ {r \in Reports : swarmPhase[r] = "accepted"} = queued_intel \cup All
      /\ queued_intel \cap All = {}
      /\ All \subseteq sent /\ queued_intel \cap sent = {}
  BY <1>2, <1>3 DEF SwarmInv, ReportPlaced
<1>5. ASSUME NEW ip \in IPs
      PROVE  /\ \A r \in Filed(ip) : subject[r].ip = ip
             /\ Filed(ip) # {} => memory[ip].score = Swarm!Max(ScoresOf(Filed(ip)))
  <2>1. \A r \in Filed(ip) : subject[r].ip = ip
    BY <1>1 DEF SwarmInv, ReportPlaced
  <2>2. ASSUME Filed(ip) # {} PROVE memory[ip].score = Swarm!Max(ScoresOf(Filed(ip)))
    <3>1. ScoresOf(Filed(ip)) \subseteq Int
      BY <1>1, SubjectFacts DEF ScoresOf
    <3>2. /\ memory[ip].score \in ScoresOf(Filed(ip))
          /\ \A s \in ScoresOf(Filed(ip)) : s <= memory[ip].score
      BY <2>2 DEF SwarmInv, HighestKept, ScoresOf
    <3>. QED BY <3>1, <3>2, HighestOf
  <2>. QED BY <2>1, <2>2
<1>. QED BY <1>4, <1>5 DEF Swarm!IntelAccounted, All, Filed, ScoresOf

-----------------------------------------------------------------------------
(* SonarClient.  Its proofs are those of SonarClientProofs, instantiated;   *)
(* the definitions they use and those of MCServices are the same.          *)

Client == INSTANCE SonarClientProofs

SonarInv == Client!SonarInv

LEMMA ClientFacts ==
  ASSUME IsFiniteSet(Calls) PROVE Client!SonarAssumption /\ Client!IsFiniteSet(Calls)
BY ServicesAssumption
DEF ServicesAssumption, Sonar!SonarAssumption, Client!SonarAssumption, Client!IsFiniteSet, IsFiniteSet

LEMMA SameInit == Sonar!Init => Client!Init
BY DEF Sonar!Init, Client!Init, Sonar!NoResult, Client!NoResult

LEMMA SamePost ==
  ASSUME NEW c, Sonar!Post(c) PROVE Client!Post(c)
BY DEF Sonar!Post, Client!Post, Sonar!Fail, Client!Fail, Sonar!Finish, Client!Finish,
       Sonar!Unparsed, Client!Unparsed, Sonar!Classified, Client!Classified,
       Sonar!Noted, Client!Noted

LEMMA SameBegin ==
  ASSUME NEW c, NEW nothing, Sonar!Begin(c, nothing) PROVE Client!Begin(c, nothing)
BY SamePost
DEF Sonar!Begin, Client!Begin, Sonar!Finish, Client!Finish, Sonar!Unparsed, Client!Unparsed

LEMMA SameReturns ==
  ASSUME NEW c, NEW end, Sonar!Returns(c, end) PROVE Client!Returns(c, end)
BY DEF Sonar!Returns, Client!Returns, Sonar!Fail, Client!Fail, Sonar!Finish, Client!Finish,
       Sonar!Unparsed, Client!Unparsed, Sonar!Classified, Client!Classified,
       Sonar!Noted, Client!Noted, Sonar!Parsable, Client!Parsable,
       Sonar!Readable, Client!Readable,
       Sonar!Transient, Client!Transient, Sonar!Retried, Client!Retried,
       Sonar!Parsed, Client!Parsed, Sonar!Verdict, Client!Verdict,
       Sonar!NoObjection, Client!NoObjection,
       Sonar!NextAttempt, Client!NextAttempt, Sonar!FailedOn, Client!FailedOn

LEMMA SameNext == [Sonar!Next]_(Sonar!vars) => [Client!Next]_(Client!vars)
<1>. SUFFICES ASSUME [Sonar!Next]_(Sonar!vars) PROVE [Client!Next]_(Client!vars)
  OBVIOUS
<1>1. CASE UNCHANGED Sonar!vars
  BY <1>1 DEF Sonar!vars, Client!vars
<1>2. CASE Sonar!Close
  BY <1>2 DEF Sonar!Close, Client!Close, Client!Next
<1>3. ASSUME NEW c \in Calls, NEW nothing \in BOOLEAN, Sonar!Begin(c, nothing) PROVE Client!Next
  BY <1>3, SameBegin DEF Client!Next
<1>4. ASSUME NEW c \in Calls, Sonar!Resolve(c) PROVE Client!Next
  <2>1. Client!Resolve(c)
    BY <1>4, SameReturns
    DEF Sonar!Resolve, Client!Resolve, Sonar!Parsable, Client!Parsable,
        Sonar!Readable, Client!Readable,
        Sonar!Transient, Client!Transient, Sonar!Raised, Client!Raised
  <2>. QED BY <2>1 DEF Client!Next
<1>5. ASSUME NEW c \in Calls, Sonar!Wake(c) PROVE Client!Next
  <2>1. Client!Wake(c)
    BY <1>5, SamePost DEF Sonar!Wake, Client!Wake
  <2>. QED BY <2>1 DEF Client!Next
<1>6. ASSUME NEW c \in Calls, Sonar!Cancel(c) PROVE Client!Next
  <2>1. Client!Cancel(c)
    BY <1>6 DEF Sonar!Cancel, Client!Cancel
  <2>. QED BY <2>1 DEF Client!Next
<1>. QED BY <1>1, <1>2, <1>3, <1>4, <1>5, <1>6 DEF Sonar!Next

LEMMA SonarInvInit == ASSUME IsFiniteSet(Calls), Sonar!Init PROVE SonarInv
BY SameInit, ClientFacts, Client!SonarInvInit DEF SonarInv

LEMMA SonarInvNext ==
  ASSUME IsFiniteSet(Calls), SonarInv, [Sonar!Next]_(Sonar!vars) PROVE SonarInv'
BY SameNext, ClientFacts, Client!SonarInvNext DEF SonarInv

LEMMA SonarInvHolds ==
  SonarInv => Sonar!CallsAccountedFor /\ Sonar!RetryDiscipline /\ Sonar!SafeOnlyIfAnswered
<1>. SUFFICES ASSUME SonarInv
              PROVE  Sonar!CallsAccountedFor /\ Sonar!RetryDiscipline /\ Sonar!SafeOnlyIfAnswered
  OBVIOUS
<1>1. Client!CallsAccountedFor /\ Client!RetryDiscipline /\ Client!SafeOnlyIfAnswered
  BY Client!SonarInvHolds DEF SonarInv
<1>2. Client!Returned = Sonar!Returned /\ Client!Posted = Sonar!Posted
  BY DEF Client!Returned, Sonar!Returned, Client!Posted, Sonar!Posted
<1>3. \A S : Client!Cardinality(S) = Sonar!Cardinality(S)
  BY DEF Client!Cardinality, Sonar!Cardinality
<1>4. Sonar!CallsAccountedFor
  BY <1>1, <1>2, <1>3
  DEF Client!CallsAccountedFor, Sonar!CallsAccountedFor, Client!LastEnd, Sonar!LastEnd,
      Client!Parsable, Sonar!Parsable, Client!Readable, Sonar!Readable
<1>5. Sonar!RetryDiscipline
  BY <1>1, <1>2
  DEF Client!RetryDiscipline, Sonar!RetryDiscipline, Client!LastEnd, Sonar!LastEnd,
      Client!Parsable, Sonar!Parsable, Client!Readable, Sonar!Readable,
      Client!Transient, Sonar!Transient,
      Client!Classified, Sonar!Classified
<1>6. Sonar!SafeOnlyIfAnswered
  BY <1>1, <1>2
  DEF Client!SafeOnlyIfAnswered, Sonar!SafeOnlyIfAnswered, Client!LastEnd, Sonar!LastEnd,
      Client!NoObjection, Sonar!NoObjection, Client!Readable, Sonar!Readable
<1>. QED BY <1>4, <1>5, <1>6

-----------------------------------------------------------------------------
(* SSHEmulator and HTTPEmulator *)

EmulatorTypes ==
  /\ session \in [Connections -> Sessions] /\ source \in [Connections -> IPs]
  /\ user \in [Connections -> BOOLEAN]
  /\ stage \in [Sessions -> {"banner", "auth", "shell"}]
  /\ failed \in [IPs -> Nat] /\ denials \in [IPs -> Nat]
  /\ opened \in [IPs -> BOOLEAN]
  /\ count \in [{"ssh", "http"} -> Int] /\ asked \in [{"ssh", "http"} -> Int]
  /\ crashes \in Int

\* Every denial is on the counter, and the counter of an address that was let
\* in by its number stays where it was reached.
DoorInv ==
  /\ \A ip \in IPs :
       /\ denials[ip] <= failed[ip]
       /\ denials[ip] = 0 \/ denials[ip] < MaxAuthAttempts
       /\ opened[ip] => failed[ip] >= MaxAuthAttempts
  /\ shutAgain = {}

\* Somebody was admitted to session s.
Admitted(s) == \E c \in Connections : session[c] = s /\ user[c]

\* The entry is attributed.
Explained(e) ==
  e.user \/ \E d \in Connections : session[d] = session[e.conn] /\ user[d] /\ d # e.conn

TrailInv ==
  /\ \A s \in Sessions : stage[s] = "shell" => Admitted(s)
  /\ \A e \in commandLog : Explained(e)

EmulatorInv == EmulatorTypes /\ DoorInv /\ TrailInv /\ Emulators!ForensicTrail

LEMMA EmulatorFacts == MaxAuthAttempts \in Int /\ Emulators!Protocols = {"ssh", "http"}
BY ServicesAssumption
DEF ServicesAssumption, Emulators!EmulatorAssumption, Emulators!Protocols

LEMMA EmulatorInvInit == Emulators!Init => EmulatorInv
<1>. SUFFICES ASSUME Emulators!Init PROVE EmulatorInv
  OBVIOUS
<1>1. EmulatorTypes
  BY EmulatorFacts DEF Emulators!Init, EmulatorTypes
<1>2. DoorInv
  BY DEF Emulators!Init, DoorInv
<1>3. TrailInv
  BY DEF Emulators!Init, TrailInv
<1>4. Emulators!ForensicTrail
  BY EmulatorFacts DEF Emulators!Init, Emulators!ForensicTrail
<1>. QED BY <1>1, <1>2, <1>3, <1>4 DEF EmulatorInv

\* Once admitted, always admitted: no call takes the user from a context.
LEMMA TrailKept ==
  ASSUME EmulatorInv, UNCHANGED session, EmulatorTypes',
         \A c \in Connections : user[c] => user'[c],
         \A s \in Sessions : stage'[s] = "shell" => stage[s] = "shell" \/ Admitted(s)',
         \A e \in commandLog' : e \in commandLog \/ Explained(e)'
  PROVE  TrailInv'
<1>1. \A s : Admitted(s) => Admitted(s)'
  BY DEF Admitted
<1>2. \A e : Explained(e) => Explained(e)'
  BY DEF Explained
<1>. QED BY <1>1, <1>2 DEF EmulatorInv, TrailInv

LEMMA LoginKeeps ==
  ASSUME EmulatorInv, NEW c \in Connections, NEW valid \in BOOLEAN, Emulators!TryLogin(c, valid)
  PROVE  EmulatorInv'
<1>. PICK ip \in IPs : ip = source[c]
  BY DEF EmulatorInv, EmulatorTypes
<1>. PICK attempts1 \in Nat : attempts1 = failed[ip] + 1
  BY DEF EmulatorInv, EmulatorTypes
<1>. DEFINE forced == ~valid /\ attempts1 >= MaxAuthAttempts
            denied == ~valid /\ ~forced
<1>1. /\ IF denied THEN UNCHANGED <<stage, user>>
         ELSE /\ stage' = [stage EXCEPT ![session[c]] = "shell"]
              /\ user' = [user EXCEPT ![c] = TRUE]
      /\ failed' = [failed EXCEPT ![ip] = IF valid THEN 0 ELSE attempts1]
      /\ denials' = [denials EXCEPT ![ip] = IF valid THEN 0 ELSE IF denied THEN denials[ip] + 1 ELSE denials[ip]]
      /\ opened' = [opened EXCEPT ![ip] = (~valid /\ opened[ip]) \/ forced]
      /\ shutAgain' = IF denied /\ opened[ip] THEN shutAgain \cup {ip} ELSE shutAgain
      /\ silent' = silent \cup {IF valid THEN "motd" ELSE IF forced THEN "granted" ELSE "denied"}
      /\ UNCHANGED <<session, source, commandLog, count, asked, crashes>>
  BY DEF Emulators!TryLogin, Emulators!Admit, Emulators!AfterForced, Emulators!objects
<1>2. /\ failed[ip] \in Nat /\ denials[ip] \in Nat /\ opened[ip] \in BOOLEAN
      /\ denials[ip] <= failed[ip] /\ (denials[ip] = 0 \/ denials[ip] < MaxAuthAttempts)
      /\ (opened[ip] => failed[ip] >= MaxAuthAttempts) /\ shutAgain = {}
      /\ session[c] \in Sessions
  BY DEF EmulatorInv, EmulatorTypes, DoorInv
<1>3. EmulatorTypes'
  <2>1. failed' \in [IPs -> Nat] /\ denials' \in [IPs -> Nat]
    BY <1>1, <1>2 DEF EmulatorInv, EmulatorTypes
  <2>2. opened' \in [IPs -> BOOLEAN]
    BY <1>1, <1>2 DEF EmulatorInv, EmulatorTypes
  <2>3. user' \in [Connections -> BOOLEAN] /\ stage' \in [Sessions -> {"banner", "auth", "shell"}]
    BY <1>1, <1>2 DEF EmulatorInv, EmulatorTypes
  <2>. QED BY <1>1, <2>1, <2>2, <2>3 DEF EmulatorInv, EmulatorTypes
<1>4. DoorInv'
  <2>1. ~(denied /\ opened[ip])
    BY <1>2, EmulatorFacts
  <2>2. /\ failed'[ip] = IF valid THEN 0 ELSE attempts1
        /\ denials'[ip] = IF valid THEN 0 ELSE IF denied THEN denials[ip] + 1 ELSE denials[ip]
        /\ opened'[ip] = ((~valid /\ opened[ip]) \/ forced)
    BY <1>1 DEF EmulatorInv, EmulatorTypes
  <2>3. denials'[ip] <= failed'[ip] /\ (denials'[ip] = 0 \/ denials'[ip] < MaxAuthAttempts)
    BY <1>2, <2>2, EmulatorFacts
  <2>4. opened'[ip] => failed'[ip] >= MaxAuthAttempts
    <3>1. CASE valid
      BY <2>2, <3>1
    <3>2. CASE ~valid /\ forced
      BY <2>2, <3>2
    <3>3. CASE ~valid /\ ~forced
      BY <2>1, <2>2, <3>3
    <3>. QED BY <3>1, <3>2, <3>3
  <2>5. \A a \in IPs \ {ip} : /\ failed'[a] = failed[a] /\ denials'[a] = denials[a]
                              /\ opened'[a] = opened[a]
    BY <1>1 DEF EmulatorInv, EmulatorTypes
  <2>. QED BY <1>1, <1>2, <2>1, <2>3, <2>4, <2>5 DEF EmulatorInv, DoorInv
<1>5. TrailInv'
  <2>1. CASE denied
    BY <1>1, <1>3, <2>1, TrailKept
  <2>2. CASE ~denied
    <3>1. user'[c] /\ \A d \in Connections : user[d] => user'[d]
      BY <1>1, <2>2 DEF EmulatorInv, EmulatorTypes
    <3>2. Admitted(session[c])'
      BY <1>1, <3>1 DEF Admitted
    <3>3. \A s \in Sessions : stage'[s] = "shell" => stage[s] = "shell" \/ s = session[c]
      BY <1>1, <2>2 DEF EmulatorInv, EmulatorTypes
    <3>4. \A s \in Sessions : stage'[s] = "shell" => stage[s] = "shell" \/ Admitted(s)'
      BY <1>1, <3>2, <3>3
    <3>. QED BY <1>1, <1>3, <3>1, <3>4, TrailKept
  <2>. QED BY <2>1, <2>2
<1>6. Emulators!ForensicTrail'
  BY <1>1 DEF EmulatorInv, Emulators!ForensicTrail
<1>. QED BY <1>3, <1>4, <1>5, <1>6 DEF EmulatorInv

LEMMA CardinalityOfTwo ==
  ASSUME NEW x, NEW y, x # y PROVE Cardinality({x, y}) = 2
<1>1. IsFiniteSet({x}) /\ Cardinality({x}) = 1
  BY FS_Singleton
<1>2. y \notin {x} /\ {x, y} = {x} \cup {y}
  OBVIOUS
<1>3. Cardinality({x} \cup {y}) = Cardinality({x}) + 1
  BY <1>1, <1>2, FS_AddElement
<1>. QED BY <1>1, <1>2, <1>3

LEMMA EntriesOfAnswer ==
  ASSUME NEW c, NEW given
  PROVE  /\ Emulators!Entries(c, given) # {}
         /\ \A e \in Emulators!Entries(c, given) : e.conn = c /\ e.user = user[c]
         /\ Emulators!Cardinality(Emulators!Entries(c, given)) = IF given = "crash" THEN 1 ELSE 2
<1>. DEFINE E(a) == [conn |-> c, user |-> user[c], answered |-> a]
<1>1. Emulators!Entries(c, given) = IF given = "crash" THEN {E(FALSE)} ELSE {E(FALSE), E(TRUE)}
  BY DEF Emulators!Entries
<1>2. E(FALSE) # E(TRUE)
  <2>1. E(FALSE).answered = FALSE /\ E(TRUE).answered = TRUE
    OBVIOUS
  <2>. QED BY <2>1, Zenon
<1>. HIDE DEF E
<1>3. Cardinality({E(FALSE)}) = 1
  BY FS_Singleton
<1>4. Cardinality({E(FALSE), E(TRUE)}) = 2
  BY <1>2, CardinalityOfTwo
<1>6. \A S : Emulators!Cardinality(S) = Cardinality(S)
  BY DEF Emulators!Cardinality, Cardinality
<1>7. \A e \in Emulators!Entries(c, given) : e.conn = c /\ e.user = user[c]
  BY <1>1 DEF E
<1>. QED BY <1>1, <1>3, <1>4, <1>6, <1>7

LEMMA ShellKeeps ==
  ASSUME EmulatorInv, NEW c \in Connections, NEW command \in Commands, Emulators!Shell(c, command)
  PROVE  EmulatorInv'
<1>. DEFINE given == Emulators!ShellAnswer(command)
            new == Emulators!Entries(c, given)
<1>1. /\ stage[session[c]] = "shell"
      /\ stage' = [stage EXCEPT ![session[c]] = "banner"] \/ stage' = stage
      /\ commandLog' = commandLog \cup new
      /\ count' = [count EXCEPT !["ssh"] = count["ssh"] + Emulators!Cardinality(new)]
      /\ asked' = [asked EXCEPT !["ssh"] = asked["ssh"] + 1]
      /\ crashes' = IF given = "crash" THEN crashes + 1 ELSE crashes
      /\ silent' = IF new = {} THEN silent \cup {given} ELSE silent
      /\ UNCHANGED <<session, source, user, failed, denials, opened, shutAgain>>
  BY DEF Emulators!Shell, Emulators!Counted, Emulators!objects
<1>. HIDE DEF given
<1>2. /\ new # {} /\ \A e \in new : e.conn = c /\ e.user = user[c]
      /\ Emulators!Cardinality(new) = IF given = "crash" THEN 1 ELSE 2
  BY EntriesOfAnswer
<1>. HIDE DEF new
<1>3. session[c] \in Sessions /\ user[c] \in BOOLEAN
  BY DEF EmulatorInv, EmulatorTypes
<1>4. /\ count["ssh"] \in Int /\ asked["ssh"] \in Int /\ crashes \in Int
      /\ count["ssh"] = 2 * asked["ssh"] - crashes
  BY DEF EmulatorInv, EmulatorTypes, Emulators!ForensicTrail
<1>5. EmulatorTypes'
  <2>1. count' \in [{"ssh", "http"} -> Int] /\ asked' \in [{"ssh", "http"} -> Int] /\ crashes' \in Int
    BY <1>1, <1>2, <1>4 DEF EmulatorInv, EmulatorTypes
  <2>2. stage' \in [Sessions -> {"banner", "auth", "shell"}]
    BY <1>1, <1>3 DEF EmulatorInv, EmulatorTypes
  <2>. QED BY <1>1, <2>1, <2>2 DEF EmulatorInv, EmulatorTypes
<1>6. DoorInv'
  BY <1>1 DEF EmulatorInv, DoorInv
<1>7. TrailInv'
  <2>1. Admitted(session[c])
    BY <1>1, <1>3 DEF EmulatorInv, TrailInv
  <2>2. \A e \in new : Explained(e)'
    BY <1>1, <1>2, <1>3, <2>1 DEF Explained, Admitted
  <2>3. \A s \in Sessions : stage'[s] = "shell" => stage[s] = "shell"
    BY <1>1 DEF EmulatorInv, EmulatorTypes
  <2>. QED BY <1>1, <1>5, <2>2, <2>3, TrailKept
<1>8. Emulators!ForensicTrail'
  <2>1. count'["ssh"] = 2 * asked'["ssh"] - crashes'
    <3>1. /\ count'["ssh"] = count["ssh"] + (IF given = "crash" THEN 1 ELSE 2)
          /\ asked'["ssh"] = asked["ssh"] + 1
      BY <1>1, <1>2 DEF EmulatorInv, EmulatorTypes
    <3>. QED BY <1>1, <1>4, <3>1
  <2>2. count'["http"] = count["http"] /\ asked'["http"] = asked["http"]
    BY <1>1 DEF EmulatorInv, EmulatorTypes
  <2>. QED BY <1>1, <1>2, <2>1, <2>2 DEF EmulatorInv, Emulators!ForensicTrail
<1>. QED BY <1>5, <1>6, <1>7, <1>8 DEF EmulatorInv

LEMMA RequestKeeps ==
  ASSUME EmulatorInv, NEW request \in Requests, Emulators!Request(request)
  PROVE  EmulatorInv'
<1>1. /\ UNCHANGED <<session, source, user, stage, failed, commandLog, denials, opened,
                     shutAgain, crashes>>
      /\ \/ /\ count' = [count EXCEPT !["http"] = count["http"] + 2]
            /\ asked' = [asked EXCEPT !["http"] = asked["http"] + 1]
            /\ UNCHANGED silent
         \/ /\ silent' = silent \cup {"400"}
            /\ UNCHANGED <<count, asked>>
  BY DEF Emulators!Request, Emulators!Logged, Emulators!Counted, Emulators!objects
<1>2. DoorInv' /\ TrailInv'
  BY <1>1 DEF EmulatorInv, DoorInv, TrailInv, Admitted, Explained
<1>3. CASE UNCHANGED <<count, asked>>
  BY <1>1, <1>2, <1>3 DEF EmulatorInv, EmulatorTypes, Emulators!ForensicTrail
<1>4. CASE /\ count' = [count EXCEPT !["http"] = count["http"] + 2]
           /\ asked' = [asked EXCEPT !["http"] = asked["http"] + 1]
           /\ UNCHANGED silent
  <2>1. /\ count["http"] \in Int /\ asked["http"] \in Int
        /\ count["http"] = 2 * asked["http"]
    BY DEF EmulatorInv, EmulatorTypes, Emulators!ForensicTrail
  <2>2. EmulatorTypes'
    BY <1>1, <1>4, <2>1 DEF EmulatorInv, EmulatorTypes
  <2>3. /\ count'["http"] = count["http"] + 2 /\ asked'["http"] = asked["http"] + 1
        /\ count'["ssh"] = count["ssh"] /\ asked'["ssh"] = asked["ssh"]
    BY <1>4 DEF EmulatorInv, EmulatorTypes
  <2>4. count'["http"] = 2 * asked'["http"]
    BY <2>1, <2>3
  <2>5. Emulators!ForensicTrail'
    BY <1>1, <1>4, <2>3, <2>4 DEF EmulatorInv, Emulators!ForensicTrail
  <2>. QED BY <1>2, <2>2, <2>5 DEF EmulatorInv
<1>. QED BY <1>1, <1>3, <1>4

LEMMA UndecodableKeeps ==
  ASSUME EmulatorInv, Emulators!Undecodable PROVE EmulatorInv'
<1>1. /\ silent' = silent \cup {"undecodable"}
      /\ UNCHANGED <<session, source, user, stage, failed, commandLog, count, denials, opened,
                     shutAgain, asked, crashes>>
  BY DEF Emulators!Undecodable, Emulators!objects
<1>. QED BY <1>1 DEF EmulatorInv, EmulatorTypes, DoorInv, TrailInv, Admitted, Explained,
                     Emulators!ForensicTrail

LEMMA EmulatorInvNext ==
  ASSUME EmulatorInv, [Emulators!Next]_(Emulators!vars) PROVE EmulatorInv'
<1>1. CASE UNCHANGED Emulators!vars \/ (\E p \in Emulators!Protocols : Emulators!Start(p))
  <2>1. UNCHANGED <<session, source, user, stage, failed, commandLog, count, denials, opened,
                    shutAgain, silent, asked, crashes>>
    BY <1>1 DEF Emulators!vars, Emulators!objects, Emulators!history, Emulators!Start
  <2>. QED BY <2>1 DEF EmulatorInv, EmulatorTypes, DoorInv, TrailInv, Admitted, Explained,
                       Emulators!ForensicTrail
<1>2. ASSUME NEW p \in Emulators!Protocols, Emulators!Stop(p) PROVE EmulatorInv'
  <2>1. /\ UNCHANGED <<session, source, user, commandLog, count, shutAgain, silent, asked, crashes>>
        /\ \/ /\ stage' = [s \in Sessions |-> "banner"]
              /\ failed' = [ip \in IPs |-> 0]
              /\ denials' = [ip \in IPs |-> 0]
              /\ opened' = [ip \in IPs |-> FALSE]
           \/ UNCHANGED <<stage, failed, denials, opened>>
    BY <1>2 DEF Emulators!Stop, Emulators!objects
  <2>2. /\ \A s \in Sessions : stage'[s] = "shell" => stage[s] = "shell"
        /\ EmulatorTypes'
    <3>1. CASE UNCHANGED <<stage, failed, denials, opened>>
      BY <2>1, <3>1 DEF EmulatorInv, EmulatorTypes
    <3>2. CASE /\ stage' = [s \in Sessions |-> "banner"] /\ failed' = [ip \in IPs |-> 0]
               /\ denials' = [ip \in IPs |-> 0] /\ opened' = [ip \in IPs |-> FALSE]
      <4>1. /\ stage' \in [Sessions -> {"banner", "auth", "shell"}]
            /\ failed' \in [IPs -> Nat] /\ denials' \in [IPs -> Nat]
        BY <3>2
      <4>2. opened' \in [IPs -> BOOLEAN]
        BY <3>2
      <4>3. \A s \in Sessions : stage'[s] = "banner"
        BY <3>2
      <4>. QED BY <2>1, <4>1, <4>2, <4>3 DEF EmulatorInv, EmulatorTypes
    <3>. QED BY <2>1, <3>1, <3>2
  <2>3. TrailInv'
    BY <2>1, <2>2, TrailKept
  <2>4. \A ip \in IPs : \/ failed'[ip] = 0 /\ denials'[ip] = 0 /\ opened'[ip] = FALSE
                        \/ failed'[ip] = failed[ip] /\ denials'[ip] = denials[ip] /\ opened'[ip] = opened[ip]
    BY <2>1
  <2>5. DoorInv'
    BY <2>1, <2>4 DEF EmulatorInv, DoorInv
  <2>6. Emulators!ForensicTrail'
    BY <2>1 DEF EmulatorInv, Emulators!ForensicTrail
  <2>. QED BY <2>2, <2>3, <2>5, <2>6 DEF EmulatorInv
<1>3. ASSUME NEW c \in Connections, Emulators!Banner(c) PROVE EmulatorInv'
  <2>1. /\ UNCHANGED <<session, source, user, failed, commandLog, count, denials, opened,
                       shutAgain, asked, crashes>>
        /\ stage' = [stage EXCEPT ![session[c]] = "auth"]
        /\ silent' = silent \cup {"banner"}
    BY <1>3 DEF Emulators!Banner, Emulators!objects
  <2>2. /\ EmulatorTypes' /\ \A s \in Sessions : stage'[s] = "shell" => stage[s] = "shell"
    <3>1. stage' \in [Sessions -> {"banner", "auth", "shell"}]
      <4>1. stage \in [Sessions -> {"banner", "auth", "shell"}]
        BY DEF EmulatorInv, EmulatorTypes
      <4>. QED BY <2>1, <4>1
    <3>2. \A s \in Sessions : stage'[s] = "auth" \/ stage'[s] = stage[s]
      BY <2>1 DEF EmulatorInv, EmulatorTypes
    <3>3. \A s \in Sessions : stage'[s] = "shell" => stage[s] = "shell"
      BY <3>2
    <3>. QED BY <2>1, <3>1, <3>3 DEF EmulatorInv, EmulatorTypes
  <2>3. TrailInv'
    BY <2>1, <2>2, TrailKept
  <2>4. DoorInv' /\ Emulators!ForensicTrail'
    BY <2>1 DEF EmulatorInv, DoorInv, Emulators!ForensicTrail
  <2>. QED BY <2>2, <2>3, <2>4 DEF EmulatorInv
<1>. QED BY <1>1, <1>2, <1>3, LoginKeeps, ShellKeeps, RequestKeeps,
               UndecodableKeeps
            DEF Emulators!Next

LEMMA EmulatorInvHolds ==
  EmulatorInv => Emulators!DoorPolicy /\ Emulators!TrailExplained /\ Emulators!ForensicTrail
BY DEF EmulatorInv, DoorInv, TrailInv, Admitted, Explained, Emulators!DoorPolicy,
       Emulators!TrailExplained

-----------------------------------------------------------------------------
(* AdaptiveDefense and ThreatScorer *)

LEMMA DefenseFacts ==
  /\ DefaultTTLs \subseteq Int /\ AlertTTL \in Nat /\ Templates \in [DOMAIN Templates -> Nat]
  /\ \A p \in Profiles : Defense!Profiled(p.profile, p.ttps)
BY ServicesAssumption DEF ServicesAssumption, Defense!DefenseAssumption

\* Opaque, so that the provers take what the formulas add up for what it is.
IsInt(n) == n \in Int

LEMMA IntsAddUp ==
  /\ \A m, n : IsInt(m) /\ IsInt(n) => IsInt(m + n) /\ IsInt(m - n) /\ IsInt(m * n)
  /\ \A n \in Nat : IsInt(n)
<1>1. \A m, n : IsInt(m) /\ IsInt(n) => IsInt(m + n) /\ IsInt(m - n)
  BY DEF IsInt
<1>2. \A m, n : IsInt(m) /\ IsInt(n) => IsInt(m * n)
  BY DEF IsInt
<1>3. \A n \in Nat : IsInt(n)
  BY DEF IsInt
<1>. QED BY <1>1, <1>2, <1>3

LEMMA AtMostCaps ==
  \A n, cap : IsInt(n) /\ IsInt(cap) =>
    IsInt(Defense!AtMost(n, cap)) /\ Defense!AtMost(n, cap) <= cap
<1>. SUFFICES ASSUME NEW n \in Int, NEW cap \in Int
              PROVE  Defense!AtMost(n, cap) \in Int /\ Defense!AtMost(n, cap) <= cap
  BY DEF IsInt
<1>1. PICK m \in {n, cap} : m <= n /\ m <= cap
  OBVIOUS
<1>2. /\ Defense!Min({n, cap}) \in {n, cap}
      /\ \A x \in {n, cap} : Defense!Min({n, cap}) <= x
  BY <1>1 DEF Defense!Min
<1>. QED BY <1>2 DEF Defense!AtMost

LEMMA BonusIsInt ==
  \A n, threshold, step, cap :
    IsInt(n) /\ IsInt(threshold) /\ IsInt(step) /\ IsInt(cap) =>
      IsInt(Defense!Bonus(n, threshold, step, cap))
<1>. TAKE n, threshold, step, cap
<1>. HAVE IsInt(n) /\ IsInt(threshold) /\ IsInt(step) /\ IsInt(cap)
<1>. DEFINE over == n - threshold
            most == Defense!Max({over, 0})
<1>1. IsInt(most)
  <2>1. over \in Int
    BY DEF IsInt
  <2>2. PICK m \in {over, 0} : m >= over /\ m >= 0
    BY <2>1
  <2>3. most \in {over, 0}
    BY <2>1, <2>2 DEF Defense!Max
  <2>. QED BY <2>1, <2>3 DEF IsInt
<1>. HIDE DEF over, most
<1>2. IsInt(most * step)
  BY <1>1, IntsAddUp
<1>. QED BY <1>2, AtMostCaps DEF Defense!Bonus, over, most

LEMMA ImageIsFinite ==
  ASSUME NEW s, NEW n \in Nat, DOMAIN s = 1 .. n, NEW T, T = {s[k] : k \in 1 .. n}
  PROVE  IsFiniteSet(T)
<1>. DEFINE f == [k \in 1 .. n |-> s[k]]
<1>1. f \in Surjection(1 .. n, T)
  BY DEF Surjection
<1>. QED BY <1>1, FS_Interval, FS_Surjection

\* What the formulas count.
LEMMA CountsAreNat ==
  ASSUME NEW p \in Profiles
  PROVE  /\ \A techniques : Defense!Seen(p.ttps, techniques) \in Nat
         /\ Defense!Cardinality(Defense!Ids(p.ttps)) \in Nat
         /\ Defense!Cardinality({p.ttps[k].tactic : k \in DOMAIN p.ttps}) \in Nat
<1>. DEFINE t == p.ttps
            n == Len(t)
            ids == [k \in 1 .. n |-> t[k].id]
            tactics == [k \in 1 .. n |-> t[k].tactic]
<1>1. n \in Nat /\ DOMAIN t = 1 .. n
  BY DefenseFacts, LenProperties DEF Defense!Profiled
<1>2. \A S : Defense!Cardinality(S) = Cardinality(S)
  BY DEF Defense!Cardinality, Cardinality
<1>3. IsFiniteSet(Defense!Ids(t))
  <2>1. Defense!Ids(t) = {ids[k] : k \in 1 .. n}
    BY <1>1 DEF Defense!Ids
  <2>. QED BY <1>1, <2>1, ImageIsFinite
<1>4. IsFiniteSet({t[k].tactic : k \in DOMAIN t})
  <2>1. {t[k].tactic : k \in DOMAIN t} = {tactics[k] : k \in 1 .. n}
    BY <1>1
  <2>. QED BY <1>1, <2>1, ImageIsFinite
<1>5. ASSUME NEW techniques PROVE Defense!Seen(t, techniques) \in Nat
  <2>1. IsFiniteSet(Defense!Ids(t) \cap techniques)
    BY <1>3, FS_Subset
  <2>. QED BY <1>2, <2>1, FS_CardinalityType DEF Defense!Seen
<1>. QED BY <1>2, <1>3, <1>4, <1>5, FS_CardinalityType

\* Each of the three scores is at most 1.
LEMMA ScoresBounded ==
  ASSUME NEW p \in Profiles
  PROVE  /\ Defense!Intent(p.profile, p.ttps) \in Int
         /\ Defense!Intent(p.profile, p.ttps) <= 10000
         /\ Defense!Sophistication(p.profile, p.ttps) \in Int
         /\ Defense!Sophistication(p.profile, p.ttps) <= 10000
         /\ Defense!Persistence(p.profile, p.ttps) \in Int
         /\ Defense!Persistence(p.profile, p.ttps) <= 10000
<1>. DEFINE q == p.profile
            t == p.ttps
<1>1. /\ IsInt(q.intents) /\ IsInt(q.sessions) /\ IsInt(q.unique) /\ IsInt(q.hours)
      /\ IsInt(q.addresses) /\ IsInt(q.correlated) /\ IsInt(q.actors) /\ IsInt(q.tools)
      /\ IsInt(Defense!MeanConfidence(t)) /\ q.hours \in Int
  BY DefenseFacts, SMTT(30) DEF Defense!Profiled, IsInt
<1>2. IsInt(Defense!SophisticationBase(q.level))
  BY DEF Defense!SophisticationBase, IsInt
<1>3. /\ \A techniques : IsInt(Defense!Seen(t, techniques))
      /\ IsInt(Defense!Cardinality(Defense!Ids(t)))
      /\ IsInt(Defense!Cardinality({t[k].tactic : k \in DOMAIN t}))
  BY CountsAreNat DEF IsInt
<1>. HIDE DEF q, t
<1>4. Defense!Full = 10000 /\ IsInt(10000)
  BY DEF Defense!Full, IsInt
<1>5. \A n : IsInt(n) => IsInt(Defense!AtMost(n, 10000)) /\ Defense!AtMost(n, 10000) <= 10000
  BY <1>4, AtMostCaps
<1>6. Defense!Intent(q, t) \in Int /\ Defense!Intent(q, t) <= 10000
  <2>. DEFINE stolen == IF Defense!Seen(t, {"T1003", "T1552"}) > 0 THEN 2500 ELSE 0
              total == Defense!Bonus(q.intents, 0, 1000, 3000)
                       + Defense!Bonus(Defense!Seen(t, Defense!IntentTechs), 0, 1200, 6000)
                       + stolen
                       + Defense!Bonus(q.sessions, 3, 200, 1500)
                       + Defense!Bonus(q.unique, 20, 50, 1500)
  <2>1. /\ IsInt(0) /\ IsInt(3) /\ IsInt(20) /\ IsInt(50) /\ IsInt(200) /\ IsInt(1000)
        /\ IsInt(1200) /\ IsInt(1500) /\ IsInt(3000) /\ IsInt(6000)
    BY DEF IsInt
  <2>2. IsInt(stolen)
    BY DEF IsInt
  <2>. HIDE DEF stolen
  <2>3. IsInt(total)
    BY <1>1, <1>3, <2>1, <2>2, BonusIsInt, IntsAddUp
  <2>4. Defense!Intent(q, t) = Defense!AtMost(total, 10000)
    BY <1>4 DEF Defense!Intent, stolen
  <2>. HIDE DEF total
  <2>. QED BY <1>5, <2>3, <2>4 DEF IsInt
<1>7. Defense!Sophistication(q, t) \in Int /\ Defense!Sophistication(q, t) <= 10000
  <2>. DEFINE total == Defense!SophisticationBase(q.level)
                       + Defense!Bonus(Defense!Cardinality(Defense!Ids(t)), 5, 200, 2000)
                       + Defense!Bonus(Defense!Cardinality({t[k].tactic : k \in DOMAIN t}), 3, 400, 1500)
                       + Defense!Bonus(q.tools, 0, 500, 2000)
                       + Defense!Bonus(Defense!Seen(t, Defense!StealthTechs), 0, 500, 1500)
                       + Defense!MeanConfidence(t)
  <2>1. /\ IsInt(0) /\ IsInt(3) /\ IsInt(5) /\ IsInt(200) /\ IsInt(400) /\ IsInt(500)
        /\ IsInt(1500) /\ IsInt(2000)
    BY DEF IsInt
  <2>2. IsInt(total)
    BY <1>1, <1>2, <1>3, <2>1, BonusIsInt, IntsAddUp
  <2>3. Defense!Sophistication(q, t) = Defense!AtMost(total, 10000)
    BY <1>4 DEF Defense!Sophistication
  <2>. HIDE DEF total
  <2>. QED BY <1>5, <2>2, <2>3 DEF IsInt
<1>8. Defense!Persistence(q, t) \in Int /\ Defense!Persistence(q, t) <= 10000
  <2>. DEFINE spent == IF q.hours > 1 THEN Defense!AtMost(q.hours * 200, 2000) ELSE 0
              total == Defense!Bonus(Defense!Seen(t, Defense!PersistTechs), 0, 1500, 5000)
                       + spent
                       + Defense!Bonus(q.sessions, 1, 300, 1500)
                       + Defense!Bonus(q.addresses, 2, 200, 1000)
                       + Defense!Bonus(q.correlated, 0, 500, 1500)
                       + Defense!Bonus(q.actors, 0, 1000, 2000)
  <2>1. /\ IsInt(0) /\ IsInt(1) /\ IsInt(2) /\ IsInt(200) /\ IsInt(300) /\ IsInt(500)
        /\ IsInt(1000) /\ IsInt(1500) /\ IsInt(2000) /\ IsInt(5000)
    BY DEF IsInt
  <2>2. IsInt(spent)
    BY <1>1, <2>1, AtMostCaps, IntsAddUp
  <2>. HIDE DEF spent
  <2>3. IsInt(total)
    BY <1>1, <1>3, <2>1, <2>2, BonusIsInt, IntsAddUp
  <2>4. Defense!Persistence(q, t) = Defense!AtMost(total, 10000)
    BY <1>4 DEF Defense!Persistence, spent
  <2>. HIDE DEF total
  <2>. QED BY <1>5, <2>3, <2>4 DEF IsInt
<1>. QED BY <1>6, <1>7, <1>8 DEF q, t

LEMMA ScoreBounded ==
  ASSUME NEW p \in Profiles, NEW score, score = Defense!ScoreThreat(p.profile, p.ttps)
  PROVE  /\ score.overall \in Int /\ score.overall <= 1000
         /\ score.sophistication \in Int /\ score.persistence \in Int
<1>. DEFINE I == Defense!Intent(p.profile, p.ttps)
            S == Defense!Sophistication(p.profile, p.ttps)
            P == Defense!Persistence(p.profile, p.ttps)
<1>1. /\ I \in Int /\ I <= 10000 /\ S \in Int /\ S <= 10000 /\ P \in Int /\ P <= 10000
  BY ScoresBounded
<1>2. /\ score.overall = Defense!RoundTo(40 * I + 35 * S + 25 * P, 1000)
      /\ score.sophistication = Defense!RoundTo(S, 10)
      /\ score.persistence = Defense!RoundTo(P, 10)
  BY DEF Defense!ScoreThreat, Defense!Composite
<1>. HIDE DEF I, S, P
<1>3. \A n \in Int : Defense!RoundTo(n, 1000) = (n + 500) \div 1000
  BY DEF Defense!RoundTo
<1>4. \A n \in Int : Defense!RoundTo(n, 10) = (n + 5) \div 10
  BY DEF Defense!RoundTo
<1>5. PICK n \in Int : n = 40 * I + 35 * S + 25 * P /\ n <= 1000000
  BY <1>1
<1>6. (n + 500) \div 1000 \in Int /\ (n + 500) \div 1000 <= 1000
  BY <1>5
<1>7. (S + 5) \div 10 \in Int /\ (P + 5) \div 10 \in Int
  BY <1>1
<1>. QED BY <1>1, <1>2, <1>3, <1>4, <1>5, <1>6, <1>7

Kinds == {"quarantine", "honeytrap", "alert", "block_ip", "segment", "countermeasure"}
Targets == {"all_traffic", "segments", "security_team", "advanced", "persistent"}
           \cup IPs \cup DOMAIN Templates
Actions == [kind : Kinds, target : Targets, ttl : Int, expires : Int]

\* What update_posture never builds.
Lasting == {"segment", "countermeasure"}

LEMMA ActionTyped ==
  ASSUME NEW kind \in Kinds, NEW target \in Targets, NEW created \in Int, NEW ttl \in Int
  PROVE  /\ Defense!Action(kind, target, created, ttl) \in Actions
         /\ Defense!Action(kind, target, created, ttl).kind = kind
         /\ Defense!Action(kind, target, created, ttl).target = target
         /\ Defense!Action(kind, target, created, ttl).expires = Defense!Expiry(created, ttl)
<1>1. Defense!Expiry(created, ttl) \in Int
  BY DEF Defense!Expiry, Defense!Never
<1>. QED BY <1>1 DEF Defense!Action, Actions

LEMMA ShortRanges ==
  ASSUME NEW action \in Actions
  PROVE  /\ <<>> \in Seq(Actions) /\ Range(<<>>) = {}
         /\ <<action>> \in Seq(Actions) /\ Range(<<action>>) = {action}
<1>1. <<>> \in Seq(Actions) /\ Range(<<>>) = {}
  BY EmptySeq DEF Range
<1>2. <<action>> \in Seq(Actions) /\ DOMAIN <<action>> = {1} /\ <<action>>[1] = action
  OBVIOUS
<1>3. Range(<<action>>) = {action}
  BY <1>2 DEF Range
<1>. QED BY <1>1, <1>2, <1>3

LEMMA JoinedRange ==
  ASSUME NEW s \in Seq(Actions), NEW t \in Seq(Actions)
  PROVE  s \o t \in Seq(Actions) /\ Range(s \o t) = Range(s) \cup Range(t)
BY ConcatProperties, RangeConcatenation

\* The response to a score.
WellChosen(score) ==
  LET actions == Defense!Chosen(score)
      targets == {a.target : a \in Range(actions)}
  IN  /\ actions \in Seq(Actions)
      /\ \A a \in Range(actions) : a.kind \notin Lasting
      /\ "all_traffic" \in targets <=> score.overall >= 800
      /\ "segments" \in targets <=> score.overall \in 600 .. 799
      /\ "security_team" \in targets <=> score.overall \in 400 .. 599

LEMMA ChosenRange ==
  \A score : IsInt(default_ttl) /\ IsInt(defenseNow) /\ IsInt(score.overall) => WellChosen(score)
<1>. SUFFICES ASSUME default_ttl \in Int, defenseNow \in Int, NEW score, score.overall \in Int
              PROVE  WellChosen(score)
  BY DEF IsInt
<1>. DEFINE a1 == Defense!Action("quarantine", "all_traffic", defenseNow, default_ttl * 2)
            a2 == Defense!Action("honeytrap", "segments", defenseNow, default_ttl)
            a3 == Defense!Action("alert", "security_team", defenseNow, AlertTTL)
            a4 == Defense!Action("honeytrap", "advanced", defenseNow, default_ttl * 2)
            a5 == Defense!Action("block_ip", "persistent", defenseNow, default_ttl * 4)
            s1 == Defense!When(score.overall >= 800, a1)
            s2 == Defense!When(score.overall \in 600 .. 799, a2)
            s3 == Defense!When(score.overall \in 400 .. 599, a3)
            s4 == Defense!When(score.sophistication >= 700, a4)
            s5 == Defense!When(score.persistence >= 600, a5)
<1>1. default_ttl * 2 \in Int /\ default_ttl * 4 \in Int /\ AlertTTL \in Int
  BY DefenseFacts
<1>2. /\ a1 \in Actions /\ a1.kind = "quarantine" /\ a1.target = "all_traffic"
      /\ a2 \in Actions /\ a2.kind = "honeytrap" /\ a2.target = "segments"
      /\ a3 \in Actions /\ a3.kind = "alert" /\ a3.target = "security_team"
      /\ a4 \in Actions /\ a4.kind = "honeytrap" /\ a4.target = "advanced"
      /\ a5 \in Actions /\ a5.kind = "block_ip" /\ a5.target = "persistent"
  BY <1>1, ActionTyped DEF Kinds, Targets
<1>3. Defense!Chosen(score) = s1 \o s2 \o s3 \o s4 \o s5
  BY DEF Defense!Chosen
<1>. HIDE DEF a1, a2, a3, a4, a5
<1>4. /\ s1 \in Seq(Actions) /\ s2 \in Seq(Actions) /\ s3 \in Seq(Actions)
      /\ s4 \in Seq(Actions) /\ s5 \in Seq(Actions)
  BY <1>2, ShortRanges DEF Defense!When
<1>4a. /\ Range(s1) = IF score.overall >= 800 THEN {a1} ELSE {}
       /\ Range(s2) = IF score.overall \in 600 .. 799 THEN {a2} ELSE {}
       /\ Range(s3) = IF score.overall \in 400 .. 599 THEN {a3} ELSE {}
       /\ Range(s4) \subseteq {a4} /\ Range(s5) \subseteq {a5}
  <2>1. Range(s1) = IF score.overall >= 800 THEN {a1} ELSE {}
    BY <1>2, ShortRanges, ZenonT(60) DEF Defense!When
  <2>2. Range(s2) = IF score.overall \in 600 .. 799 THEN {a2} ELSE {}
    BY <1>2, ShortRanges, ZenonT(60) DEF Defense!When
  <2>3. Range(s3) = IF score.overall \in 400 .. 599 THEN {a3} ELSE {}
    BY <1>2, ShortRanges, ZenonT(60) DEF Defense!When
  <2>4. Range(s4) = IF score.sophistication >= 700 THEN {a4} ELSE {}
    BY <1>2, ShortRanges, ZenonT(60) DEF Defense!When
  <2>5. Range(s5) = IF score.persistence >= 600 THEN {a5} ELSE {}
    BY <1>2, ShortRanges, ZenonT(60) DEF Defense!When
  <2>. QED BY <2>1, <2>2, <2>3, <2>4, <2>5
<1>. HIDE DEF s1, s2, s3, s4, s5
<1>5. s1 \o s2 \in Seq(Actions) /\ Range(s1 \o s2) = Range(s1) \cup Range(s2)
  BY <1>4, JoinedRange
<1>6. /\ s1 \o s2 \o s3 \in Seq(Actions)
      /\ Range(s1 \o s2 \o s3) = Range(s1) \cup Range(s2) \cup Range(s3)
  BY <1>4, <1>5, JoinedRange
<1>7. /\ s1 \o s2 \o s3 \o s4 \in Seq(Actions)
      /\ Range(s1 \o s2 \o s3 \o s4) = Range(s1) \cup Range(s2) \cup Range(s3) \cup Range(s4)
  BY <1>4, <1>6, JoinedRange
<1>8. /\ s1 \o s2 \o s3 \o s4 \o s5 \in Seq(Actions)
      /\ Range(s1 \o s2 \o s3 \o s4 \o s5)
           = Range(s1) \cup Range(s2) \cup Range(s3) \cup Range(s4) \cup Range(s5)
  BY <1>4, <1>7, JoinedRange
<1>. DEFINE R == Range(Defense!Chosen(score))
<1>9. /\ R \subseteq {a1, a2, a3, a4, a5}
      /\ a1 \in R <=> score.overall >= 800
      /\ a2 \in R <=> score.overall \in 600 .. 799
      /\ a3 \in R <=> score.overall \in 400 .. 599
  <2>1. R = Range(s1) \cup Range(s2) \cup Range(s3) \cup Range(s4) \cup Range(s5)
    BY <1>3, <1>8
  <2>2. /\ a1 \notin {a2, a3, a4, a5} /\ a2 \notin {a1, a3, a4, a5} /\ a3 \notin {a1, a2, a4, a5}
    BY <1>2
  <2>. HIDE DEF R
  <2>. QED BY <1>4a, <2>1, <2>2
<1>. HIDE DEF R
<1>10. \A a \in R : a.kind \notin Lasting
  BY <1>2, <1>9 DEF Lasting
<1>11. /\ "all_traffic" \in {a.target : a \in R} <=> a1 \in R
       /\ "segments" \in {a.target : a \in R} <=> a2 \in R
       /\ "security_team" \in {a.target : a \in R} <=> a3 \in R
  BY <1>2, <1>9
<1>12. /\ "all_traffic" \in {a.target : a \in R} <=> score.overall >= 800
       /\ "segments" \in {a.target : a \in R} <=> score.overall \in 600 .. 799
       /\ "security_team" \in {a.target : a \in R} <=> score.overall \in 400 .. 599
  BY <1>9, <1>11
<1>13. Defense!Chosen(score) \in Seq(Actions)
  BY <1>3, <1>8
<1>. QED BY <1>10, <1>12, <1>13 DEF R, WellChosen

SegmentsOf(ip) == {k \in 1 .. Len(action_log) : action_log[k].kind = "segment" /\ action_log[k].target = ip}

DefenseTypes ==
  /\ default_ttl \in Int /\ defenseNow \in Nat
  /\ action_log \in Seq(Actions)
  /\ lifts \in [IPs -> Nat] /\ raised \in [IPs -> Nat]

\* The log has a segment action for each time an address was isolated, but
\* those that raised.
Recorded ==
  \A ip \in IPs :
    Cardinality(SegmentsOf(ip)) + raised[ip] = lifts[ip] + (IF ip \in segmented THEN 1 ELSE 0)

\* A countermeasure has the expiry of its template.
Dated ==
  \A k \in 1 .. Len(action_log) : action_log[k].kind = "countermeasure" =>
    /\ action_log[k].target \in DOMAIN Templates
    /\ action_log[k].expires = Defense!Expiry(0, Templates[action_log[k].target])

DefenseInv == DefenseTypes /\ Recorded /\ Dated /\ Defense!ResponseMatchesRisk

LEMMA SegmentsFinite ==
  ASSUME DefenseInv, NEW ip
  PROVE  IsFiniteSet(SegmentsOf(ip)) /\ Cardinality(SegmentsOf(ip)) \in Nat
<1>1. Len(action_log) \in Nat
  BY LenProperties DEF DefenseInv, DefenseTypes
<1>2. IsFiniteSet(1 .. Len(action_log)) /\ SegmentsOf(ip) \subseteq 1 .. Len(action_log)
  BY <1>1, FS_Interval DEF SegmentsOf
<1>. QED BY <1>2, FS_Subset, FS_CardinalityType

LEMMA DefenseInvInit == Defense!Init => DefenseInv
<1>. SUFFICES ASSUME Defense!Init PROVE DefenseInv
  OBVIOUS
<1>1. DefenseTypes /\ Len(action_log) = 0
  BY EmptySeq, DefenseFacts DEF Defense!Init, DefenseTypes
<1>2. Dated
  BY <1>1 DEF Dated
<1>3. Recorded
  <2>1. ASSUME NEW ip \in IPs PROVE Cardinality(SegmentsOf(ip)) = 0
    <3>1. SegmentsOf(ip) = {}
      BY <1>1 DEF SegmentsOf
    <3>. QED BY <3>1, FS_EmptySet, Zenon
  <2>. QED BY <2>1 DEF Defense!Init, Recorded
<1>4. Defense!ResponseMatchesRisk
  BY DEF Defense!Init, Defense!ResponseMatchesRisk
<1>. QED BY <1>1, <1>2, <1>3, <1>4 DEF DefenseInv

\* What is appended to the log and is neither a segment action nor a
\* countermeasure changes neither record.
LEMMA PostureKeeps ==
  ASSUME DefenseInv, NEW p \in Profiles, Defense!UpdatePosture(p)
  PROVE  DefenseInv'
<1>. PICK score : score = Defense!ScoreThreat(p.profile, p.ttps)
  OBVIOUS
<1>1. /\ score.overall \in Int /\ score.overall <= 1000
      /\ score.sophistication \in Int /\ score.persistence \in Int
  BY ScoreBounded
<1>3. /\ default_ttl \in Int /\ defenseNow \in Int /\ action_log \in Seq(Actions)
  BY DEF DefenseInv, DefenseTypes
<1>4a. WellChosen(score)
  BY <1>1, <1>3, ChosenRange DEF IsInt
<1>. PICK s : s = Defense!Chosen(score)
  OBVIOUS
<1>. PICK t : t = action_log \o s
  OBVIOUS
<1>2. /\ action_log' = t
      /\ posture' = [risk |-> Defense!Risk(score.overall), overall |-> score.overall,
                     targets |-> {s[k].target : k \in DOMAIN s}]
      /\ UNCHANGED <<default_ttl, defenseNow, segmented, lifts, raised>>
  BY DEF Defense!UpdatePosture
<1>4. /\ s \in Seq(Actions)
      /\ \A a \in Range(s) : a.kind \notin Lasting
      /\ "all_traffic" \in {a.target : a \in Range(s)} <=> score.overall >= 800
      /\ "segments" \in {a.target : a \in Range(s)} <=> score.overall \in 600 .. 799
      /\ "security_team" \in {a.target : a \in Range(s)} <=> score.overall \in 400 .. 599
  BY <1>4a, ZenonT(60) DEF WellChosen
<1>5. /\ t \in Seq(Actions) /\ Len(action_log) \in Nat /\ Len(s) \in Nat
      /\ Len(t) = Len(action_log) + Len(s)
      /\ \A k \in 1 .. Len(action_log) : t[k] = action_log[k]
      /\ \A k \in 1 .. Len(t) : k \notin 1 .. Len(action_log) => t[k].kind \notin Lasting
  <2>1. Len(action_log) \in Nat /\ Len(s) \in Nat /\ DOMAIN s = 1 .. Len(s)
    BY <1>3, <1>4, LenProperties
  <2>2. /\ t \in Seq(Actions) /\ Len(t) = Len(action_log) + Len(s)
        /\ \A k \in 1 .. Len(action_log) + Len(s) :
             t[k] = IF k <= Len(action_log) THEN action_log[k] ELSE s[k - Len(action_log)]
    BY <1>3, <1>4, ConcatProperties
  <2>3. \A j \in 1 .. Len(s) : s[j].kind \notin Lasting
    <3>1. \A j \in 1 .. Len(s) : s[j] \in Range(s)
      BY <2>1 DEF Range
    <3>2. \A a \in Range(s) : a.kind \notin Lasting
      BY <1>4
    <3>. QED BY <3>1, <3>2
  <2>. QED BY <2>1, <2>2, <2>3
<1>6. DefenseTypes'
  BY <1>2, <1>5 DEF DefenseInv, DefenseTypes
<1>7. Dated'
  <2>1. \A k \in 1 .. Len(t) : t[k].kind = "countermeasure" =>
          k \in 1 .. Len(action_log) /\ t[k] = action_log[k]
    <3>1. "countermeasure" \in Lasting
      BY DEF Lasting
    <3>. QED BY <3>1, <1>5, Zenon
  <2>2. Dated
    BY DEF DefenseInv
  <2>3. \A k \in 1 .. Len(t) : t[k].kind = "countermeasure" =>
          /\ t[k].target \in DOMAIN Templates
          /\ t[k].expires = Defense!Expiry(0, Templates[t[k].target])
    BY <2>1, <2>2, Zenon DEF Dated
  <2>. QED BY <1>2, <2>3, Zenon DEF Dated
<1>8. Recorded'
  <2>1. \A ip : SegmentsOf(ip)' = SegmentsOf(ip)
    BY <1>2, <1>5 DEF SegmentsOf, Lasting
  <2>. QED BY <1>2, <2>1 DEF DefenseInv, Recorded
<1>9. Defense!ResponseMatchesRisk'
  <2>1. {s[k].target : k \in DOMAIN s} = {a.target : a \in Range(s)}
    BY DEF Range
  <2>2. PICK o \in Int : o = score.overall
    BY <1>1
  <2>2b. /\ (Defense!Risk(o) = "CRITICAL") <=> o >= 800
         /\ (Defense!Risk(o) = "HIGH") <=> o \in 600 .. 799
         /\ (Defense!Risk(o) = "MEDIUM") <=> o \in 350 .. 599
    BY DEF Defense!Risk
  <2>3. PICK T : T = {a.target : a \in Range(s)}
    OBVIOUS
  <2>4. /\ "all_traffic" \in T <=> o >= 800
        /\ "segments" \in T <=> o \in 600 .. 799
        /\ "security_team" \in T <=> o \in 400 .. 599
    BY <1>4, <2>2, <2>3
  <2>5. /\ posture'.risk = Defense!Risk(o) /\ posture'.overall = o
        /\ posture'.targets = T
    BY <1>2, <2>1, <2>2, <2>3
  <2>6. posture'.risk = "CRITICAL" <=> "all_traffic" \in posture'.targets
    BY <2>2b, <2>4, <2>5
  <2>7. posture'.risk = "HIGH" <=> "segments" \in posture'.targets
    BY <2>2b, <2>4, <2>5
  <2>8. posture'.risk = "MEDIUM" /\ posture'.overall >= 400 <=> "security_team" \in posture'.targets
    BY <2>2b, <2>4, <2>5
  <2>9. posture'.overall <= 1000
    BY <1>1, <2>2, <2>5
  <2>. QED BY <2>6, <2>7, <2>8, <2>9 DEF Defense!ResponseMatchesRisk
<1>. QED BY <1>6, <1>7, <1>8, <1>9 DEF DefenseInv

\* One action is appended.
LEMMA ActionAppended ==
  ASSUME DefenseInv, NEW a \in Actions, action_log' = Append(action_log, a)
  PROVE  /\ action_log' \in Seq(Actions)
         /\ \A k \in 1 .. Len(action_log') : \/ k \in 1 .. Len(action_log) /\ action_log'[k] = action_log[k]
                                             \/ k = Len(action_log) + 1 /\ action_log'[k] = a
         /\ \A ip : Cardinality(SegmentsOf(ip)') =
              IF a.kind = "segment" /\ a.target = ip
              THEN Cardinality(SegmentsOf(ip)) + 1 ELSE Cardinality(SegmentsOf(ip))
<1>1. action_log \in Seq(Actions) /\ Len(action_log) \in Nat
  BY LenProperties DEF DefenseInv, DefenseTypes
<1>2. /\ action_log' \in Seq(Actions) /\ Len(action_log') = Len(action_log) + 1
      /\ action_log'[Len(action_log) + 1] = a
      /\ \A k \in 1 .. Len(action_log) : action_log'[k] = action_log[k]
  BY <1>1, AppendProperties
<1>3. \A k \in 1 .. Len(action_log') : \/ k \in 1 .. Len(action_log) /\ action_log'[k] = action_log[k]
                                       \/ k = Len(action_log) + 1 /\ action_log'[k] = a
  BY <1>1, <1>2
<1>4. ASSUME NEW ip
      PROVE  Cardinality(SegmentsOf(ip)') =
               IF a.kind = "segment" /\ a.target = ip
               THEN Cardinality(SegmentsOf(ip)) + 1 ELSE Cardinality(SegmentsOf(ip))
  <2>1. SegmentsOf(ip)' = IF a.kind = "segment" /\ a.target = ip
                          THEN SegmentsOf(ip) \cup {Len(action_log) + 1} ELSE SegmentsOf(ip)
    BY <1>1, <1>2 DEF SegmentsOf
  <2>2. Len(action_log) + 1 \notin SegmentsOf(ip)
    BY <1>1 DEF SegmentsOf
  <2>3. Cardinality(SegmentsOf(ip) \cup {Len(action_log) + 1}) = Cardinality(SegmentsOf(ip)) + 1
    BY <2>2, SegmentsFinite, FS_AddElement
  <2>. QED BY <2>1, <2>3
<1>. QED BY <1>2, <1>3, <1>4

LEMMA SegmentKeeps ==
  ASSUME DefenseInv, NEW ip \in IPs, Defense!AutoSegment(ip)
  PROVE  DefenseInv'
<1>. DEFINE a == Defense!Action("segment", ip, defenseNow, default_ttl)
<1>1. /\ ip \notin segmented /\ segmented' = segmented \cup {ip}
      /\ \/ action_log' = Append(action_log, a) /\ UNCHANGED raised
         \/ raised' = [raised EXCEPT ![ip] = raised[ip] + 1] /\ UNCHANGED action_log
      /\ UNCHANGED <<default_ttl, defenseNow, lifts, posture>>
  BY DEF Defense!AutoSegment, Defense!Isolated
<1>2. a \in Actions /\ a.kind = "segment" /\ a.target = ip
  <2>1. default_ttl \in Int /\ defenseNow \in Int /\ "segment" \in Kinds /\ ip \in Targets
    BY DEF DefenseInv, DefenseTypes, Kinds, Targets
  <2>. QED BY <2>1, ActionTyped
<1>. HIDE DEF a
<1>3. Defense!ResponseMatchesRisk'
  BY <1>1 DEF DefenseInv, Defense!ResponseMatchesRisk
<1>4. /\ \A d \in IPs : /\ raised[d] \in Nat /\ lifts[d] \in Nat /\ Cardinality(SegmentsOf(d)) \in Nat
                        /\ Cardinality(SegmentsOf(d)) + raised[d] = lifts[d] + (IF d \in segmented THEN 1 ELSE 0)
  BY SegmentsFinite DEF DefenseInv, DefenseTypes, Recorded
<1>5. CASE action_log' = Append(action_log, a) /\ UNCHANGED raised
  <2>1. DefenseTypes'
    BY <1>1, <1>2, <1>5, ActionAppended DEF DefenseInv, DefenseTypes
  <2>2. Dated'
    BY <1>2, <1>5, ActionAppended DEF DefenseInv, Dated
  <2>3. \A d \in IPs : Cardinality(SegmentsOf(d)') =
          IF d = ip THEN Cardinality(SegmentsOf(d)) + 1 ELSE Cardinality(SegmentsOf(d))
    BY <1>2, <1>5, ActionAppended
  <2>4. \A d \in IPs : (d \in segmented' <=> d = ip \/ d \in segmented) /\ raised'[d] = raised[d]
    BY <1>1, <1>5
  <2>5. ASSUME NEW d \in IPs
        PROVE  Cardinality(SegmentsOf(d)') + raised[d] = lifts[d] + (IF d \in segmented' THEN 1 ELSE 0)
    <3>1. /\ raised[d] \in Nat /\ lifts[d] \in Nat /\ Cardinality(SegmentsOf(d)) \in Nat
          /\ Cardinality(SegmentsOf(d)) + raised[d] = lifts[d] + (IF d \in segmented THEN 1 ELSE 0)
      BY <1>4
    <3>2. CASE d = ip
      <4>1. Cardinality(SegmentsOf(d)') = Cardinality(SegmentsOf(d)) + 1
        BY <2>3, <3>2
      <4>2. d \in segmented' /\ d \notin segmented
        BY <1>1, <2>4, <3>2
      <4>. QED BY <3>1, <4>1, <4>2
    <3>3. CASE d # ip
      <4>1. Cardinality(SegmentsOf(d)') = Cardinality(SegmentsOf(d))
        BY <2>3, <3>3
      <4>2. d \in segmented' <=> d \in segmented
        BY <2>4, <3>3
      <4>. QED BY <3>1, <4>1, <4>2
    <3>. QED BY <3>2, <3>3
  <2>6. Recorded'
    BY <1>1, <1>5, <2>5 DEF Recorded
  <2>. QED BY <1>3, <2>1, <2>2, <2>6 DEF DefenseInv
<1>6. CASE raised' = [raised EXCEPT ![ip] = raised[ip] + 1] /\ UNCHANGED action_log
  <2>1. DefenseTypes' /\ Dated'
    BY <1>1, <1>4, <1>6 DEF DefenseInv, DefenseTypes, Dated
  <2>2. \A d \in IPs : /\ SegmentsOf(d)' = SegmentsOf(d)
                       /\ raised'[d] = IF d = ip THEN raised[d] + 1 ELSE raised[d]
    BY <1>6 DEF DefenseInv, DefenseTypes, SegmentsOf
  <2>3. Recorded'
    BY <1>1, <1>4, <2>2 DEF Recorded
  <2>. QED BY <1>3, <2>1, <2>3 DEF DefenseInv
<1>. QED BY <1>1, <1>5, <1>6

LEMMA LiftKeeps ==
  ASSUME DefenseInv, NEW ip \in IPs, Defense!Lift(ip)
  PROVE  DefenseInv'
<1>1. /\ ip \in segmented /\ segmented' = segmented \ {ip}
      /\ lifts' = [lifts EXCEPT ![ip] = lifts[ip] + 1]
      /\ UNCHANGED <<default_ttl, defenseNow, action_log, raised, posture>>
  BY DEF Defense!Lift
<1>2. DefenseTypes' /\ Dated' /\ Defense!ResponseMatchesRisk'
  BY <1>1 DEF DefenseInv, DefenseTypes, Dated, Defense!ResponseMatchesRisk
<1>3. \A d \in IPs : /\ SegmentsOf(d)' = SegmentsOf(d)
                     /\ lifts'[d] = IF d = ip THEN lifts[d] + 1 ELSE lifts[d]
  BY <1>1 DEF DefenseInv, DefenseTypes, SegmentsOf
<1>4. \A d \in IPs : /\ raised[d] \in Nat /\ lifts[d] \in Nat /\ Cardinality(SegmentsOf(d)) \in Nat
                     /\ Cardinality(SegmentsOf(d)) + raised[d] = lifts[d] + (IF d \in segmented THEN 1 ELSE 0)
  BY SegmentsFinite DEF DefenseInv, DefenseTypes, Recorded
<1>5. Recorded'
  BY <1>1, <1>3, <1>4 DEF Recorded
<1>. QED BY <1>2, <1>5 DEF DefenseInv

LEMMA DeployKeeps ==
  ASSUME DefenseInv, NEW technique \in Techniques, Defense!Deploy(technique)
  PROVE  DefenseInv'
<1>. DEFINE a == Defense!Action("countermeasure", technique, 0, Templates[technique])
<1>1. /\ technique \in DOMAIN Templates /\ action_log' = Append(action_log, a)
      /\ UNCHANGED <<default_ttl, defenseNow, segmented, lifts, raised, posture>>
  BY DEF Defense!Deploy, Defense!Copied
<1>2. /\ a \in Actions /\ a.kind = "countermeasure" /\ a.target = technique
      /\ a.expires = Defense!Expiry(0, Templates[technique])
  <2>1. PICK ttl \in Int : ttl = Templates[technique]
    BY <1>1, DefenseFacts
  <2>2. 0 \in Int /\ "countermeasure" \in Kinds /\ technique \in Targets
    BY <1>1 DEF Kinds, Targets
  <2>3. /\ Defense!Action("countermeasure", technique, 0, ttl) \in Actions
        /\ Defense!Action("countermeasure", technique, 0, ttl).kind = "countermeasure"
        /\ Defense!Action("countermeasure", technique, 0, ttl).target = technique
        /\ Defense!Action("countermeasure", technique, 0, ttl).expires = Defense!Expiry(0, ttl)
    BY <2>2, ActionTyped
  <2>. QED BY <2>1, <2>3, Zenon
<1>. HIDE DEF a
<1>3. DefenseTypes' /\ Defense!ResponseMatchesRisk'
  BY <1>1, <1>2, ActionAppended DEF DefenseInv, DefenseTypes, Defense!ResponseMatchesRisk
<1>4. Dated'
  BY <1>1, <1>2, ActionAppended DEF DefenseInv, Dated
<1>5. Recorded'
  BY <1>1, <1>2, ActionAppended DEF DefenseInv, Recorded, SegmentsOf
<1>. QED BY <1>3, <1>4, <1>5 DEF DefenseInv

LEMMA DefenseInvNext ==
  ASSUME DefenseInv, [Defense!Next]_(Defense!vars) PROVE DefenseInv'
<1>1. CASE UNCHANGED Defense!vars \/ Defense!Tick
  <2>1. /\ UNCHANGED <<default_ttl, action_log, segmented, lifts, raised, posture>>
        /\ defenseNow' = defenseNow \/ defenseNow' = defenseNow + 1
    BY <1>1 DEF Defense!vars, Defense!Tick
  <2>2. DefenseTypes'
    BY <2>1 DEF DefenseInv, DefenseTypes
  <2>3. Dated' /\ Recorded' /\ Defense!ResponseMatchesRisk'
    BY <2>1 DEF DefenseInv, Dated, Recorded, SegmentsOf, Defense!ResponseMatchesRisk
  <2>. QED BY <2>2, <2>3 DEF DefenseInv
<1>. QED BY <1>1, PostureKeeps, SegmentKeeps, LiftKeeps, DeployKeeps DEF Defense!Next

LEMMA DefenseInvHolds ==
  DefenseInv => /\ Defense!IsolationOnRecord
                /\ Defense!CountermeasuresAgeFromImport
                /\ Defense!ResponseMatchesRisk
<1>. SUFFICES ASSUME DefenseInv
              PROVE  Defense!IsolationOnRecord /\ Defense!CountermeasuresAgeFromImport
  BY DEF DefenseInv
<1>1. DOMAIN action_log = 1 .. Len(action_log)
  BY LenProperties DEF DefenseInv, DefenseTypes
<1>2. \A S : Defense!Cardinality(S) = Cardinality(S)
  BY DEF Defense!Cardinality, Cardinality
<1>3. \A ip : Defense!Segments(ip) = SegmentsOf(ip)
  BY <1>1 DEF Defense!Segments, SegmentsOf
<1>4. Defense!IsolationOnRecord
  BY <1>2, <1>3 DEF DefenseInv, Recorded, Defense!IsolationOnRecord
<1>5. ASSUME NEW k \in 1 .. Len(action_log), action_log[k].kind = "countermeasure",
             Defense!Active(action_log[k])
      PROVE  \/ defenseNow < Templates[action_log[k].target]
             \/ Templates[action_log[k].target] = 0
  <2>1. PICK ttl \in Nat : ttl = Templates[action_log[k].target]
    BY <1>5, DefenseFacts DEF DefenseInv, Dated
  <2>2. action_log[k].expires = IF ttl > 0 THEN ttl ELSE -1
    BY <1>5, <2>1 DEF DefenseInv, Dated, Defense!Expiry, Defense!Never
  <2>3. action_log[k].expires = -1 \/ action_log[k].expires > defenseNow
    BY <1>5 DEF Defense!Active, Defense!Never
  <2>4. defenseNow \in Nat
    BY DEF DefenseInv, DefenseTypes
  <2>. QED BY <2>1, <2>2, <2>3, <2>4
<1>6. Defense!CountermeasuresAgeFromImport
  BY <1>1, <1>5 DEF Defense!CountermeasuresAgeFromImport
<1>. QED BY <1>4, <1>6

-----------------------------------------------------------------------------
(* InteractionLogger and AttackerProfiler *)

LogEntries == [session : Sessions, number : Nat, input : Inputs]

RecordsTypes ==
  /\ logs \in [Sessions -> Seq(LogEntries)]
  /\ all_logs \in Seq(LogEntries) /\ everything \in Seq(LogEntries) /\ fetched \in Seq(LogEntries)
  /\ counters \in [Sessions -> Nat] /\ rejected \in [Sessions -> Nat]
  /\ used \in [IPs -> Seq(Seq(LogEntries))]
  /\ DOMAIN profiles = IPs

RingIsLatest ==
  /\ Len(all_logs) = IF Len(everything) < MaxEntries THEN Len(everything) ELSE MaxEntries
  /\ \A k \in 1 .. Len(all_logs) :
       all_logs[k] = everything[Len(everything) - Len(all_logs) + k]

\* No number taken so far is above the session's counter, which the next
\* entry exceeds.
Numbered(entries, c) ==
  /\ \A k \in 1 .. Len(entries) : entries[k].number <= c[entries[k].session]
  /\ \A j, k \in 1 .. Len(entries) :
       j < k /\ entries[j].session = entries[k].session => entries[j].number < entries[k].number

Has(entries, e) == \E k \in 1 .. Len(entries) : entries[k] = e

TimelinesAgree ==
  /\ Numbered(everything, counters)
  /\ \A s \in Sessions :
       /\ Numbered(logs[s], counters)
       /\ counters[s] = Len(logs[s]) + rejected[s]
       /\ \A e : Has(logs[s], e) <=> Has(everything, e) /\ e.session = s

\* Counts only grow, by at least the timeline that is added.
Covered ==
  \A ip \in IPs :
    /\ profiles[ip].sessions = Len(used[ip])
    /\ profiles[ip].commands \in Nat
    /\ \A k \in 1 .. Len(used[ip]) : Len(used[ip][k]) <= profiles[ip].commands

RecordsInv == RecordsTypes /\ RingIsLatest /\ TimelinesAgree /\ Covered

LEMMA RecordsInvInit == Records!Init => RecordsInv
<1>. SUFFICES ASSUME Records!Init PROVE RecordsInv
  OBVIOUS
<1>1. MaxEntries \in Nat
  BY ServicesAssumption DEF ServicesAssumption, Records!RecordsAssumption
<1>2. RecordsTypes
  BY EmptySeq DEF Records!Init, RecordsTypes
<1>3. RingIsLatest
  BY <1>1, EmptySeq DEF Records!Init, RingIsLatest
<1>4. TimelinesAgree
  BY EmptySeq DEF Records!Init, TimelinesAgree, Numbered, Has
<1>5. Covered
  BY EmptySeq DEF Records!Init, Covered, Records!NoProfile
<1>. QED BY <1>2, <1>3, <1>4, <1>5 DEF RecordsInv

LEMMA RingKeeps ==
  ASSUME RecordsInv, NEW e \in LogEntries,
         all_logs' = Records!Ring(e), everything' = Append(everything, e)
  PROVE  all_logs' \in Seq(LogEntries) /\ everything' \in Seq(LogEntries) /\ RingIsLatest'
<1>1. MaxEntries \in Nat
  BY ServicesAssumption DEF ServicesAssumption, Records!RecordsAssumption
<1>. PICK longer : longer = Append(all_logs, e)
  OBVIOUS
<1>2. /\ all_logs \in Seq(LogEntries) /\ everything \in Seq(LogEntries)
      /\ Len(all_logs) \in Nat /\ Len(everything) \in Nat
  BY LenProperties DEF RecordsInv, RecordsTypes
<1>3. /\ longer \in Seq(LogEntries) /\ Len(longer) = Len(all_logs) + 1
      /\ longer[Len(all_logs) + 1] = e
      /\ \A k \in 1 .. Len(all_logs) : longer[k] = all_logs[k]
  BY <1>2, AppendProperties
<1>4. /\ everything' \in Seq(LogEntries) /\ Len(everything') = Len(everything) + 1
      /\ everything'[Len(everything) + 1] = e
      /\ \A k \in 1 .. Len(everything) : everything'[k] = everything[k]
  BY <1>2, AppendProperties
<1>5. /\ Len(all_logs) = IF Len(everything) < MaxEntries THEN Len(everything) ELSE MaxEntries
      /\ \A k \in 1 .. Len(all_logs) :
           all_logs[k] = everything[Len(everything) - Len(all_logs) + k]
  BY DEF RecordsInv, RingIsLatest
<1>6. \A k \in 1 .. Len(longer) : longer[k] = everything'[Len(everything') - Len(longer) + k]
  <2>1. Len(all_logs) <= Len(everything)
    BY <1>1, <1>2, <1>5
  <2>2. ASSUME NEW k \in 1 .. Len(longer)
        PROVE  longer[k] = everything'[Len(everything') - Len(longer) + k]
    <3>1. CASE k = Len(longer)
      BY <1>2, <1>3, <1>4, <3>1
    <3>2. CASE k # Len(longer)
      <4>1. k \in 1 .. Len(all_logs) /\ Len(everything) - Len(all_logs) + k \in 1 .. Len(everything)
        BY <1>2, <1>3, <2>1, <3>2
      <4>2. Len(everything') - Len(longer) + k = Len(everything) - Len(all_logs) + k
        BY <1>2, <1>3, <1>4
      <4>. QED BY <1>3, <1>4, <1>5, <4>1, <4>2
    <3>. QED BY <3>1, <3>2
  <2>. QED BY <2>2
<1>7. CASE Len(longer) > MaxEntries
  <2>1. all_logs' = Tail(longer)
    BY <1>7 DEF Records!Ring
  <2>2. longer # <<>>
    BY <1>2, <1>3, EmptySeq
  <2>3. /\ Tail(longer) \in Seq(LogEntries) /\ Len(Tail(longer)) = Len(longer) - 1
        /\ \A k \in 1 .. Len(longer) - 1 : Tail(longer)[k] = longer[k + 1]
    BY <1>3, <2>2, HeadTailProperties
  <2>4. Len(all_logs') = IF Len(everything') < MaxEntries THEN Len(everything') ELSE MaxEntries
    BY <1>1, <1>2, <1>3, <1>4, <1>5, <1>7, <2>1, <2>3
  <2>5. ASSUME NEW k \in 1 .. Len(all_logs')
        PROVE  all_logs'[k] = everything'[Len(everything') - Len(all_logs') + k]
    <3>1. Len(all_logs') = Len(longer) - 1 /\ k \in 1 .. Len(longer) - 1 /\ k + 1 \in 1 .. Len(longer)
      BY <1>2, <1>3, <2>1, <2>3
    <3>2. all_logs'[k] = everything'[Len(everything') - Len(longer) + (k + 1)]
      BY <1>6, <2>1, <2>3, <3>1
    <3>3. Len(everything') - Len(longer) + (k + 1) = Len(everything') - Len(all_logs') + k
      BY <1>2, <1>3, <1>4, <3>1
    <3>. QED BY <3>2, <3>3
  <2>. QED BY <1>4, <2>1, <2>3, <2>4, <2>5 DEF RingIsLatest
<1>8. CASE ~(Len(longer) > MaxEntries)
  <2>1. all_logs' = longer
    BY <1>8 DEF Records!Ring
  <2>2. Len(all_logs') = IF Len(everything') < MaxEntries THEN Len(everything') ELSE MaxEntries
    BY <1>1, <1>2, <1>3, <1>4, <1>5, <1>8, <2>1
  <2>. QED BY <1>3, <1>4, <1>6, <2>1, <2>2 DEF RingIsLatest
<1>. QED BY <1>7, <1>8

\* An entry with the number after the counter's goes to the end.
LEMMA NumberedKeeps ==
  ASSUME RecordsInv, NEW entries \in Seq(LogEntries), Numbered(entries, counters), NEW e \in LogEntries,
         e.number = counters[e.session] + 1,
         counters' = [counters EXCEPT ![e.session] = counters[e.session] + 1]
  PROVE  Numbered(entries, counters') /\ Numbered(Append(entries, e), counters')
<1>1. counters \in [Sessions -> Nat] /\ e.session \in Sessions /\ e.number \in Nat
  BY DEF RecordsInv, RecordsTypes, LogEntries
<1>2. \A s \in Sessions : /\ counters[s] \in Nat /\ counters'[s] \in Nat
                          /\ counters[s] <= counters'[s]
                          /\ s = e.session => counters'[s] = counters[s] + 1
  BY <1>1
<1>3. Len(entries) \in Nat /\ \A k \in 1 .. Len(entries) :
        entries[k].session \in Sessions /\ entries[k].number \in Nat
  <2>1. \A k \in 1 .. Len(entries) : entries[k] \in LogEntries
    BY LenProperties, ElementOfSeq
  <2>. QED BY <2>1, LenProperties DEF LogEntries
<1>4. ASSUME NEW k \in 1 .. Len(entries)
      PROVE  /\ entries[k].number <= counters'[entries[k].session]
             /\ entries[k].session = e.session => entries[k].number < e.number
  <2>1. PICK n \in Nat : n = entries[k].number
    BY <1>3
  <2>2. PICK s \in Sessions : s = entries[k].session
    BY <1>3
  <2>3. n <= counters[s]
    BY <2>1, <2>2 DEF Numbered
  <2>4. n <= counters'[s] /\ n < counters[s] + 1
    BY <1>2, <2>3
  <2>. QED BY <2>1, <2>2, <2>4
<1>5. ASSUME NEW n, n = Append(entries, e)
      PROVE  Numbered(n, counters')
  <2>1. /\ Len(n) = Len(entries) + 1 /\ n[Len(entries) + 1] = e
        /\ \A k \in 1 .. Len(entries) : n[k] = entries[k]
    BY <1>5, AppendProperties
  <2>2. \A k \in 1 .. Len(n) : (k = Len(n) /\ n[k] = e) \/ (k \in 1 .. Len(entries) /\ n[k] = entries[k])
    BY <1>3, <2>1
  <2>3. e.number <= counters'[e.session]
    BY <1>1, <1>2
  <2>4. \A k \in 1 .. Len(n) : n[k].number <= counters'[n[k].session]
    BY <1>4, <2>2, <2>3
  <2>5. ASSUME NEW j \in 1 .. Len(n), NEW k \in 1 .. Len(n), j < k, n[j].session = n[k].session
        PROVE  n[j].number < n[k].number
    <3>1. j \in 1 .. Len(entries) /\ n[j] = entries[j]
      BY <1>3, <2>1, <2>5
    <3>2. CASE n[k] = e
      BY <1>4, <2>5, <3>1, <3>2
    <3>3. CASE k \in 1 .. Len(entries) /\ n[k] = entries[k]
      BY <2>5, <3>1, <3>3 DEF Numbered
    <3>. QED BY <2>2, <3>2, <3>3
  <2>. QED BY <2>4, <2>5 DEF Numbered
<1>. QED BY <1>4, <1>5 DEF Numbered

LEMMA AppendHas ==
  ASSUME NEW S, NEW entries \in Seq(S), NEW e \in S, NEW x
  PROVE  Has(Append(entries, e), x) <=> Has(entries, x) \/ x = e
<1>. PICK n : n = Append(entries, e)
  OBVIOUS
<1>1. /\ Len(entries) \in Nat /\ Len(n) = Len(entries) + 1 /\ n[Len(entries) + 1] = e
      /\ \A k \in 1 .. Len(entries) : n[k] = entries[k]
  BY AppendProperties, LenProperties
<1>2. Has(n, x) => Has(entries, x) \/ x = e
  BY <1>1 DEF Has
<1>3. Has(entries, x) => Has(n, x)
  BY <1>1 DEF Has
<1>4. x = e => Has(n, x)
  BY <1>1 DEF Has
<1>. QED BY <1>2, <1>3, <1>4

LEMMA LogKeeps ==
  ASSUME RecordsInv, NEW s \in Sessions, NEW input \in Inputs, Records!Log(s, input)
  PROVE  RecordsInv'
<1>. PICK e : e = [session |-> s, number |-> counters[s] + 1, input |-> input]
  OBVIOUS
<1>1. /\ counters' = [counters EXCEPT ![s] = counters[s] + 1]
      /\ logs' = [logs EXCEPT ![s] = Append(logs[s], e)]
      /\ all_logs' = Records!Ring(e)
      /\ everything' = Append(everything, e)
      /\ UNCHANGED <<fetched, profiles, rejected, used>>
  BY DEF Records!Log, Records!Number
<1>2. RecordsTypes
  BY DEF RecordsInv
<1>3. e \in LogEntries /\ e.session = s /\ e.number = counters[e.session] + 1
  BY <1>2 DEF RecordsTypes, LogEntries
<1>4. /\ all_logs' \in Seq(LogEntries) /\ everything' \in Seq(LogEntries) /\ RingIsLatest'
  BY <1>1, <1>3, RingKeeps
<1>5. /\ logs[s] \in Seq(LogEntries) /\ Len(logs[s]) \in Nat
      /\ logs'[s] = Append(logs[s], e) /\ logs'[s] \in Seq(LogEntries)
      /\ Len(logs'[s]) = Len(logs[s]) + 1 /\ logs'[s][Len(logs[s]) + 1] = e
      /\ \A k \in 1 .. Len(logs[s]) : logs'[s][k] = logs[s][k]
  <2>1. logs[s] \in Seq(LogEntries) /\ logs'[s] = Append(logs[s], e)
    BY <1>1, <1>2 DEF RecordsTypes
  <2>. QED BY <1>3, <2>1, AppendProperties, LenProperties
<1>6. \A t \in Sessions : t # s => logs'[t] = logs[t]
  BY <1>1, <1>2 DEF RecordsTypes
<1>7. RecordsTypes'
  <2>1. logs' \in [Sessions -> Seq(LogEntries)]
    BY <1>1, <1>2, <1>5 DEF RecordsTypes
  <2>2. counters' \in [Sessions -> Nat]
    BY <1>1, <1>2 DEF RecordsTypes
  <2>. QED BY <1>1, <1>2, <1>4, <2>1, <2>2 DEF RecordsTypes
<1>8. Covered'
  BY <1>1 DEF RecordsInv, Covered
<1>9. TimelinesAgree'
  <2>1. TimelinesAgree /\ everything \in Seq(LogEntries)
    BY <1>2 DEF RecordsInv, RecordsTypes
  <2>2. counters' = [counters EXCEPT ![e.session] = counters[e.session] + 1]
    BY <1>1, <1>3
  <2>3. Numbered(everything', counters')
    BY <1>1, <1>3, <2>1, <2>2, NumberedKeeps DEF TimelinesAgree
  <2>4. \A x : Has(everything', x) <=> Has(everything, x) \/ x = e
    BY <1>1, <1>3, <2>1, AppendHas
  <2>5. ASSUME NEW t \in Sessions
        PROVE  /\ Numbered(logs'[t], counters')
               /\ counters'[t] = Len(logs'[t]) + rejected'[t]
               /\ \A x : Has(logs'[t], x) <=> Has(everything', x) /\ x.session = t
    <3>1. /\ Numbered(logs[t], counters) /\ logs[t] \in Seq(LogEntries)
          /\ counters[t] = Len(logs[t]) + rejected[t]
          /\ \A x : Has(logs[t], x) <=> Has(everything, x) /\ x.session = t
      BY <1>2, <2>1 DEF TimelinesAgree, RecordsTypes
    <3>2. CASE t = s
      <4>1. Numbered(logs'[t], counters')
        <5>1. Numbered(logs[s], counters) /\ logs[s] \in Seq(LogEntries)
          BY <3>1, <3>2
        <5>2. Numbered(Append(logs[s], e), counters')
          BY <1>3, <2>2, <5>1, NumberedKeeps
        <5>3. logs'[t] = Append(logs[s], e)
          BY <1>5, <3>2
        <5>. QED BY <5>2, <5>3, Zenon
      <4>2. counters'[t] = Len(logs'[t]) + rejected'[t]
        <5>1. counters'[t] = counters[t] + 1 /\ rejected'[t] = rejected[t] /\ rejected[t] \in Nat
          BY <1>1, <1>2, <3>2 DEF RecordsTypes
        <5>. QED BY <1>5, <3>1, <3>2, <5>1
      <4>3. \A x : Has(logs'[t], x) <=> Has(logs[t], x) \/ x = e
        <5>1. \A x : Has(Append(logs[s], e), x) <=> Has(logs[s], x) \/ x = e
          BY <1>3, <1>5, AppendHas
        <5>2. logs'[t] = Append(logs[s], e) /\ logs[t] = logs[s]
          BY <1>5, <3>2
        <5>. QED BY <5>1, <5>2, Zenon
      <4>. QED BY <1>3, <2>4, <3>1, <3>2, <4>1, <4>2, <4>3
    <3>3. CASE t # s
      <4>1. logs'[t] = logs[t] /\ counters'[t] = counters[t] /\ rejected'[t] = rejected[t]
        BY <1>1, <1>2, <1>6, <3>3 DEF RecordsTypes
      <4>2. Numbered(logs'[t], counters')
        BY <1>3, <2>2, <3>1, <4>1, NumberedKeeps
      <4>3. e.session # t
        BY <1>3, <3>3
      <4>. QED BY <2>4, <3>1, <4>1, <4>2, <4>3
    <3>. QED BY <3>2, <3>3
  <2>. QED BY <2>3, <2>5 DEF TimelinesAgree
<1>. QED BY <1>4, <1>7, <1>8, <1>9 DEF RecordsInv

LEMMA LogRejectedKeeps ==
  ASSUME RecordsInv, NEW s \in Sessions, Records!LogRejected(s)
  PROVE  RecordsInv'
<1>1. /\ counters' = [counters EXCEPT ![s] = counters[s] + 1]
      /\ rejected' = [rejected EXCEPT ![s] = rejected[s] + 1]
      /\ UNCHANGED <<logs, all_logs, fetched, profiles, everything, used>>
  BY DEF Records!LogRejected
<1>2. RecordsTypes'
  BY <1>1 DEF RecordsInv, RecordsTypes
<1>3. RingIsLatest' /\ Covered'
  BY <1>1 DEF RecordsInv, RingIsLatest, Covered
<1>4. \A t \in Sessions : /\ counters[t] \in Nat /\ rejected[t] \in Nat /\ Len(logs[t]) \in Nat
                          /\ counters'[t] = IF t = s THEN counters[t] + 1 ELSE counters[t]
                          /\ rejected'[t] = IF t = s THEN rejected[t] + 1 ELSE rejected[t]
  BY <1>1, LenProperties DEF RecordsInv, RecordsTypes
<1>5. ASSUME NEW entries \in Seq(LogEntries), Numbered(entries, counters)
      PROVE  Numbered(entries, counters')
  <2>1. ASSUME NEW k \in 1 .. Len(entries)
        PROVE  entries[k].number <= counters'[entries[k].session]
    <3>1. entries[k] \in LogEntries
      BY ElementOfSeq
    <3>2. PICK n \in Nat, t \in Sessions : n = entries[k].number /\ t = entries[k].session
      BY <3>1 DEF LogEntries
    <3>3. n <= counters[t]
      BY <1>5, <3>2 DEF Numbered
    <3>4. n <= counters'[t]
      BY <1>4, <3>3
    <3>. QED BY <3>2, <3>4
  <2>. QED BY <1>5, <2>1 DEF Numbered
<1>6. TimelinesAgree /\ everything \in Seq(LogEntries)
  BY DEF RecordsInv, RecordsTypes
<1>7. Numbered(everything', counters')
  BY <1>1, <1>5, <1>6 DEF TimelinesAgree
<1>8. ASSUME NEW t \in Sessions
      PROVE  /\ Numbered(logs'[t], counters')
             /\ counters'[t] = Len(logs'[t]) + rejected'[t]
             /\ \A x : Has(logs'[t], x) <=> Has(everything', x) /\ x.session = t
  <2>1. /\ Numbered(logs[t], counters) /\ logs[t] \in Seq(LogEntries)
        /\ counters[t] = Len(logs[t]) + rejected[t]
        /\ \A x : Has(logs[t], x) <=> Has(everything, x) /\ x.session = t
    BY <1>6 DEF TimelinesAgree, RecordsInv, RecordsTypes
  <2>2. logs'[t] = logs[t] /\ everything' = everything
    BY <1>1
  <2>3. Numbered(logs'[t], counters')
    BY <1>5, <2>1, <2>2
  <2>4. counters'[t] = Len(logs'[t]) + rejected'[t]
    BY <1>4, <2>1, <2>2
  <2>. QED BY <2>1, <2>2, <2>3, <2>4
<1>9. TimelinesAgree'
  BY <1>7, <1>8 DEF TimelinesAgree
<1>. QED BY <1>2, <1>3, <1>9 DEF RecordsInv

LEMMA FetchKeeps ==
  ASSUME RecordsInv, NEW s \in Sessions, Records!Fetch(s)
  PROVE  RecordsInv'
<1>1. fetched' = logs[s] /\ UNCHANGED <<logs, all_logs, counters, profiles, everything, rejected, used>>
  BY DEF Records!Fetch
<1>2. RecordsTypes'
  BY <1>1 DEF RecordsInv, RecordsTypes
<1>. QED BY <1>1, <1>2 DEF RecordsInv, RingIsLatest, TimelinesAgree, Covered

LEMMA FingerprintKeeps ==
  ASSUME RecordsInv, NEW ip \in IPs, Records!Fingerprint(ip)
  PROVE  RecordsInv'
<1>1. /\ DOMAIN profiles' = DOMAIN profiles
      /\ used' = [used EXCEPT ![ip] = Append(used[ip], fetched)]
      /\ UNCHANGED <<logs, all_logs, counters, fetched, everything, rejected>>
  BY DEF Records!Fingerprint
<1>2. /\ DOMAIN profiles = IPs /\ used \in [IPs -> Seq(Seq(LogEntries))]
      /\ fetched \in Seq(LogEntries) /\ Len(fetched) \in Nat
  BY LenProperties DEF RecordsInv, RecordsTypes
<1>3. /\ profiles'[ip].sessions = profiles[ip].sessions + 1
      /\ profiles'[ip].commands = profiles[ip].commands + Len(fetched)
      /\ \A a \in IPs : a # ip => profiles'[a] = profiles[a]
  BY <1>2 DEF Records!Fingerprint, Records!CommandsAfter
<1>4. /\ Len(used[ip]) \in Nat /\ used[ip] \in Seq(Seq(LogEntries))
      /\ used'[ip] = Append(used[ip], fetched) /\ used'[ip] \in Seq(Seq(LogEntries))
      /\ Len(used'[ip]) = Len(used[ip]) + 1 /\ used'[ip][Len(used[ip]) + 1] = fetched
      /\ \A k \in 1 .. Len(used[ip]) : used'[ip][k] = used[ip][k]
  <2>1. used[ip] \in Seq(Seq(LogEntries)) /\ used'[ip] = Append(used[ip], fetched)
    BY <1>1, <1>2
  <2>. QED BY <1>2, <2>1, AppendProperties, LenProperties
<1>5. RecordsTypes'
  BY <1>1, <1>2, <1>4 DEF RecordsInv, RecordsTypes
<1>6. RingIsLatest' /\ TimelinesAgree'
  BY <1>1 DEF RecordsInv, RingIsLatest, TimelinesAgree
<1>7. ASSUME NEW a \in IPs
      PROVE  /\ profiles'[a].sessions = Len(used'[a])
             /\ profiles'[a].commands \in Nat
             /\ \A k \in 1 .. Len(used'[a]) : Len(used'[a][k]) <= profiles'[a].commands
  <2>1. CASE a # ip
    BY <1>1, <1>2, <1>3, <2>1 DEF RecordsInv, Covered
  <2>2. CASE a = ip
    <3>1. PICK m \in Nat : m = profiles[ip].commands
      BY DEF RecordsInv, Covered
    <3>2. profiles'[ip].sessions = Len(used'[ip])
      BY <1>3, <1>4 DEF RecordsInv, Covered
    <3>3. profiles'[ip].commands = m + Len(fetched) /\ m + Len(fetched) \in Nat
      BY <1>2, <1>3, <3>1
    <3>4. ASSUME NEW k \in 1 .. Len(used'[ip])
          PROVE  Len(used'[ip][k]) <= m + Len(fetched)
      <4>1. CASE k = Len(used'[ip])
        BY <1>2, <1>4, <3>1, <4>1
      <4>2. CASE k # Len(used'[ip])
        <5>1. k \in 1 .. Len(used[ip]) /\ used'[ip][k] = used[ip][k]
          BY <1>4, <4>2
        <5>2. used[ip][k] \in Seq(LogEntries)
          BY <1>4, <5>1, ElementOfSeq
        <5>3. Len(used[ip][k]) \in Nat /\ Len(used[ip][k]) <= m
          BY <3>1, <5>1, <5>2, LenProperties DEF RecordsInv, Covered
        <5>. QED BY <1>2, <5>1, <5>3
      <4>. QED BY <4>1, <4>2
    <3>. QED BY <2>2, <3>2, <3>3, <3>4
  <2>. QED BY <2>1, <2>2
<1>8. Covered'
  BY <1>7 DEF Covered
<1>. QED BY <1>5, <1>6, <1>8 DEF RecordsInv

LEMMA RecordsInvNext ==
  ASSUME RecordsInv, [Records!Next]_(Records!vars) PROVE RecordsInv'
<1>1. CASE UNCHANGED Records!vars
  <2>1. UNCHANGED <<logs, all_logs, counters, fetched, profiles, everything, rejected, used>>
    BY <1>1 DEF Records!vars
  <2>2. RecordsTypes'
    BY <2>1 DEF RecordsInv, RecordsTypes
  <2>. QED BY <2>1, <2>2 DEF RecordsInv, RingIsLatest, TimelinesAgree, Covered
<1>. QED BY <1>1, LogKeeps, LogRejectedKeeps, FetchKeeps, FingerprintKeeps DEF Records!Next

LEMMA RecordsInvHolds == RecordsInv => Records!LogsAgree /\ Records!ProfileCovers
<1>. SUFFICES ASSUME RecordsInv PROVE Records!LogsAgree /\ Records!ProfileCovers
  OBVIOUS
<1>1. MaxEntries \in Nat
  BY ServicesAssumption DEF ServicesAssumption, Records!RecordsAssumption
<1>2. /\ RecordsTypes /\ RingIsLatest /\ TimelinesAgree /\ Covered
      /\ all_logs \in Seq(LogEntries) /\ everything \in Seq(LogEntries)
      /\ Len(all_logs) \in Nat /\ Len(everything) \in Nat
  BY LenProperties DEF RecordsInv, RecordsTypes
<1>3. Len(all_logs) <= Len(everything)
  BY <1>1, <1>2 DEF RingIsLatest
<1>4. all_logs = SubSeq(everything, Len(everything) - Len(all_logs) + 1, Len(everything))
  <2>. DEFINE first == Len(everything) - Len(all_logs) + 1
              latest == SubSeq(everything, first, Len(everything))
  <2>1. first \in 1 .. Len(everything) + 1
    BY <1>2, <1>3
  <2>2. /\ latest \in Seq(LogEntries) /\ Len(latest) = Len(all_logs)
        /\ \A k \in 1 .. Len(all_logs) : latest[k] = everything[first + k - 1]
    BY <1>2, <2>1, SubSeqProperties
  <2>3. \A k \in 1 .. Len(all_logs) : latest[k] = all_logs[k]
    <3>1. \A k \in 1 .. Len(all_logs) : first + k - 1 = Len(everything) - Len(all_logs) + k
      BY <1>2
    <3>. QED BY <1>2, <2>2, <3>1 DEF RingIsLatest
  <2>. HIDE DEF latest
  <2>4. latest = all_logs
    BY <1>2, <2>2, <2>3, SeqEqual
  <2>. QED BY <2>4 DEF latest
<1>5. ASSUME NEW s \in Sessions
      PROVE  /\ Records!ToSet(logs[s]) = Records!OfSession(everything, s)
             /\ Records!Rise(everything, s) /\ Records!Rise(logs[s], s)
             /\ counters[s] = Len(logs[s]) + rejected[s]
  <2>1. /\ Numbered(everything, counters) /\ Numbered(logs[s], counters)
        /\ counters[s] = Len(logs[s]) + rejected[s]
        /\ \A e : Has(logs[s], e) <=> Has(everything, e) /\ e.session = s
    BY <1>2 DEF TimelinesAgree
  <2>2. DOMAIN logs[s] = 1 .. Len(logs[s]) /\ DOMAIN everything = 1 .. Len(everything)
    BY <1>2, LenProperties DEF RecordsTypes
  <2>3. /\ \A e : e \in Records!ToSet(logs[s]) <=> Has(logs[s], e)
        /\ \A e : e \in Records!OfSession(everything, s) <=> Has(everything, e) /\ e.session = s
    BY <2>2 DEF Records!ToSet, Records!OfSession, Has
  <2>4. Records!ToSet(logs[s]) = Records!OfSession(everything, s)
    BY <2>1, <2>3
  <2>5. Records!Rise(everything, s) /\ Records!Rise(logs[s], s)
    BY <2>1, <2>2 DEF Numbered, Records!Rise
  <2>. QED BY <2>1, <2>4, <2>5
<1>6. Records!LogsAgree
  BY <1>2, <1>4, <1>5 DEF RingIsLatest, Records!LogsAgree
<1>7. Records!ProfileCovers
  <2>1. ASSUME NEW ip \in IPs, NEW k \in DOMAIN used[ip]
        PROVE  profiles[ip].commands >= Len(used[ip][k]) /\ profiles[ip].sessions >= k
    <3>1. used[ip] \in Seq(Seq(LogEntries)) /\ k \in 1 .. Len(used[ip]) /\ Len(used[ip]) \in Nat
      BY <1>2, <2>1, LenProperties DEF RecordsTypes
    <3>2. used[ip][k] \in Seq(LogEntries) /\ Len(used[ip][k]) \in Nat
      BY <3>1, ElementOfSeq, LenProperties
    <3>3. PICK m \in Nat : m = profiles[ip].commands
      BY <1>2 DEF Covered
    <3>4. Len(used[ip][k]) <= m /\ profiles[ip].sessions = Len(used[ip])
      BY <1>2, <3>1, <3>3 DEF Covered
    <3>. QED BY <3>1, <3>2, <3>3, <3>4
  <2>. QED BY <2>1 DEF Records!ProfileCovers
<1>. QED BY <1>6, <1>7

-----------------------------------------------------------------------------
(* Watermark *)

MarkDigits == 0 .. 15
Chars == 0 .. 4
CodeOf(d) == Mark!CodeOf(d)

\* The digit a code stands for, computed.
Decoded(c) ==
  IF Len(c) = 1 THEN c[1]
  ELSE IF c[1] = 0 THEN 4 + c[2]
  ELSE IF c[1] = 1 THEN IF c[2] = 0 THEN 9 ELSE 8 + c[2]
  ELSE IF c[2] = 3 THEN 15 ELSE 13 + c[2]

LEMMA CodeShape ==
  ASSUME NEW d \in MarkDigits
  PROVE  /\ CodeOf(d) \in Seq(Chars)
         /\ Len(CodeOf(d)) \in {1, 2}
         /\ Decoded(CodeOf(d)) = d
<1>1. CASE d \in 0 .. 4
  <2>1. CodeOf(d) = <<d>>
    BY <1>1 DEF CodeOf, Mark!CodeOf, Mark!Code
  <2>. QED BY <1>1, <2>1 DEF Decoded, Chars
<1>5. CASE d = 5
  <2>1. CodeOf(d) = Mark!Code[6]
    BY <1>5 DEF CodeOf, Mark!CodeOf
  <2>2. Mark!Code[6] = <<0, 1>>
    BY DEF Mark!Code
  <2>3. <<0, 1>> \in Seq(Chars) /\ Len(<<0, 1>>) = 2
    BY DEF Chars
  <2>4. Decoded(<<0, 1>>) = 5
    BY DEF Decoded
  <2>. QED BY <1>5, <2>1, <2>2, <2>3, <2>4
<1>6. CASE d = 6
  <2>1. CodeOf(d) = Mark!Code[7]
    BY <1>6 DEF CodeOf, Mark!CodeOf
  <2>2. Mark!Code[7] = <<0, 2>>
    BY DEF Mark!Code
  <2>3. <<0, 2>> \in Seq(Chars) /\ Len(<<0, 2>>) = 2
    BY DEF Chars
  <2>4. Decoded(<<0, 2>>) = 6
    BY DEF Decoded
  <2>. QED BY <1>6, <2>1, <2>2, <2>3, <2>4
<1>7. CASE d = 7
  <2>1. CodeOf(d) = Mark!Code[8]
    BY <1>7 DEF CodeOf, Mark!CodeOf
  <2>2. Mark!Code[8] = <<0, 3>>
    BY DEF Mark!Code
  <2>3. <<0, 3>> \in Seq(Chars) /\ Len(<<0, 3>>) = 2
    BY DEF Chars
  <2>4. Decoded(<<0, 3>>) = 7
    BY DEF Decoded
  <2>. QED BY <1>7, <2>1, <2>2, <2>3, <2>4
<1>8. CASE d = 8
  <2>1. CodeOf(d) = Mark!Code[9]
    BY <1>8 DEF CodeOf, Mark!CodeOf
  <2>2. Mark!Code[9] = <<0, 4>>
    BY DEF Mark!Code
  <2>3. <<0, 4>> \in Seq(Chars) /\ Len(<<0, 4>>) = 2
    BY DEF Chars
  <2>4. Decoded(<<0, 4>>) = 8
    BY DEF Decoded
  <2>. QED BY <1>8, <2>1, <2>2, <2>3, <2>4
<1>9. CASE d = 9
  <2>1. CodeOf(d) = Mark!Code[10]
    BY <1>9 DEF CodeOf, Mark!CodeOf
  <2>2. Mark!Code[10] = <<1, 0>>
    BY DEF Mark!Code
  <2>3. <<1, 0>> \in Seq(Chars) /\ Len(<<1, 0>>) = 2
    BY DEF Chars
  <2>4. Decoded(<<1, 0>>) = 9
    BY DEF Decoded
  <2>. QED BY <1>9, <2>1, <2>2, <2>3, <2>4
<1>10. CASE d = 10
  <2>1. CodeOf(d) = Mark!Code[11]
    BY <1>10 DEF CodeOf, Mark!CodeOf
  <2>2. Mark!Code[11] = <<1, 2>>
    BY DEF Mark!Code
  <2>3. <<1, 2>> \in Seq(Chars) /\ Len(<<1, 2>>) = 2
    BY DEF Chars
  <2>4. Decoded(<<1, 2>>) = 10
    BY DEF Decoded
  <2>. QED BY <1>10, <2>1, <2>2, <2>3, <2>4
<1>11. CASE d = 11
  <2>1. CodeOf(d) = Mark!Code[12]
    BY <1>11 DEF CodeOf, Mark!CodeOf
  <2>2. Mark!Code[12] = <<1, 3>>
    BY DEF Mark!Code
  <2>3. <<1, 3>> \in Seq(Chars) /\ Len(<<1, 3>>) = 2
    BY DEF Chars
  <2>4. Decoded(<<1, 3>>) = 11
    BY DEF Decoded
  <2>. QED BY <1>11, <2>1, <2>2, <2>3, <2>4
<1>12. CASE d = 12
  <2>1. CodeOf(d) = Mark!Code[13]
    BY <1>12 DEF CodeOf, Mark!CodeOf
  <2>2. Mark!Code[13] = <<1, 4>>
    BY DEF Mark!Code
  <2>3. <<1, 4>> \in Seq(Chars) /\ Len(<<1, 4>>) = 2
    BY DEF Chars
  <2>4. Decoded(<<1, 4>>) = 12
    BY DEF Decoded
  <2>. QED BY <1>12, <2>1, <2>2, <2>3, <2>4
<1>13. CASE d = 13
  <2>1. CodeOf(d) = Mark!Code[14]
    BY <1>13 DEF CodeOf, Mark!CodeOf
  <2>2. Mark!Code[14] = <<2, 0>>
    BY DEF Mark!Code
  <2>3. <<2, 0>> \in Seq(Chars) /\ Len(<<2, 0>>) = 2
    BY DEF Chars
  <2>4. Decoded(<<2, 0>>) = 13
    BY DEF Decoded
  <2>. QED BY <1>13, <2>1, <2>2, <2>3, <2>4
<1>14. CASE d = 14
  <2>1. CodeOf(d) = Mark!Code[15]
    BY <1>14 DEF CodeOf, Mark!CodeOf
  <2>2. Mark!Code[15] = <<2, 1>>
    BY DEF Mark!Code
  <2>3. <<2, 1>> \in Seq(Chars) /\ Len(<<2, 1>>) = 2
    BY DEF Chars
  <2>4. Decoded(<<2, 1>>) = 14
    BY DEF Decoded
  <2>. QED BY <1>14, <2>1, <2>2, <2>3, <2>4
<1>15. CASE d = 15
  <2>1. CodeOf(d) = Mark!Code[16]
    BY <1>15 DEF CodeOf, Mark!CodeOf
  <2>2. Mark!Code[16] = <<2, 3>>
    BY DEF Mark!Code
  <2>3. <<2, 3>> \in Seq(Chars) /\ Len(<<2, 3>>) = 2
    BY DEF Chars
  <2>4. Decoded(<<2, 3>>) = 15
    BY DEF Decoded
  <2>. QED BY <1>15, <2>1, <2>2, <2>3, <2>4
<1>. QED
  BY <1>1, <1>5, <1>6, <1>7, <1>8, <1>9, <1>10, <1>11, <1>12, <1>13, <1>14, <1>15
  DEF MarkDigits

\* No code stands for two digits.
LEMMA CodesAreDistinct ==
  ASSUME NEW c \in Mark!Codes
  PROVE  Mark!DigitOf(c) \in MarkDigits /\ CodeOf(Mark!DigitOf(c)) = c
<1>1. PICK d \in MarkDigits : CodeOf(d) = c
  BY DEF Mark!Codes, MarkDigits, Mark!Digits, CodeOf
<1>. QED BY <1>1 DEF Mark!DigitOf, MarkDigits, Mark!Digits, CodeOf

LEMMA CodeIsRead ==
  ASSUME NEW d \in MarkDigits
  PROVE  CodeOf(d) \in Mark!Codes /\ Mark!DigitOf(CodeOf(d)) = d
<1>1. CodeOf(d) \in Mark!Codes
  BY DEF Mark!Codes, MarkDigits, Mark!Digits, CodeOf
<1>2. Mark!DigitOf(CodeOf(d)) \in MarkDigits /\ CodeOf(Mark!DigitOf(CodeOf(d))) = CodeOf(d)
  BY <1>1, CodesAreDistinct
<1>. QED BY <1>1, <1>2, CodeShape

LEMMA EveryCharacterIsACode ==
  ASSUME NEW c \in Chars PROVE <<c>> \in Mark!Codes
<1>1. c \in MarkDigits /\ CodeOf(c) = <<c>>
  BY DEF MarkDigits, Chars, CodeOf, Mark!CodeOf, Mark!Code
<1>. QED BY <1>1, CodeIsRead

MarkTypes ==
  /\ sig \in [1 .. MarkLength -> MarkDigits]
  /\ stray \in Seq(Chars)
  /\ after \in Seq(Chars)
  /\ ex \in Seq(Chars)
  /\ starts \in Seq(Nat \ {0})
  /\ Len(starts) \in 1 .. MarkLength + 2
  /\ i \in Nat \ {0}
  /\ res \in Seq(MarkDigits)

\* The characters c are those of x from start on.
WrittenAt(x, c, start) ==
  /\ start + Len(c) <= Len(x) + 1
  /\ \A k \in 1 .. Len(c) : x[start + k - 1] = c[k]

MarkIsWritten ==
  /\ starts[1] = Len(stray) + 1
  /\ starts[Len(starts)] = Len(ex) + 1
  /\ \A n \in 1 .. Len(starts) - 1 :
       /\ WrittenAt(ex, Mark!Piece(n), starts[n])
       /\ starts[n + 1] = starts[n] + Len(Mark!Piece(n))

WrittenFirst == ~Mark!Written => i = 1 /\ res = <<>> /\ read = Mark!Unread

\* What was read so far are the first digits of the mark.
ReadsAsWritten ==
  Len(res) <= MarkLength /\ \A n \in 1 .. Len(res) : res[n] = sig[n]

\* Digit n does not run together with the next.
Apart(n) ==
  n < MarkLength =>
    \/ Len(CodeOf(sig[n])) = 2
    \/ CodeOf(sig[n]) \o <<CodeOf(sig[n + 1])[1]>> \notin Mark!Codes

\* As long as the digits are the right ones, as many characters were read as
\* written for them; from a payload without characters of its own they are
\* the right ones exactly as long as the digits do not run together.
InStep ==
  Mark!Written =>
    /\ ReadsAsWritten => i = 1 + starts[Len(res) + 1] - starts[1]
    /\ stray = <<>> /\ ReadsAsWritten => \A n \in 1 .. Len(res) : Apart(n)
    /\ stray = <<>> /\ after = <<>> /\ (\A n \in 1 .. MarkLength : Apart(n)) => ReadsAsWritten

MarkInv == MarkTypes /\ MarkIsWritten /\ WrittenFirst /\ InStep /\ Mark!MarkReadBack

LEMMA MarkFacts == MarkLength \in Nat \ {0} /\ Stray \subseteq Seq(Chars)
BY ServicesAssumption DEF ServicesAssumption, Mark!WatermarkAssumption, Chars

\* What is written is the code of a digit, or the rest of the payload.
LEMMA PieceWritten ==
  ASSUME MarkTypes
  PROVE  /\ \A n \in 1 .. MarkLength + 1 : Mark!Piece(n) \in Seq(Chars)
         /\ \A n \in 1 .. MarkLength : Mark!Piece(n) = CodeOf(sig[n])
         /\ Mark!Piece(MarkLength + 1) = after
<1>1. ASSUME NEW n \in 1 .. MarkLength
      PROVE  Mark!Piece(n) = CodeOf(sig[n]) /\ Mark!Piece(n) \in Seq(Chars)
  <2>1. sig[n] \in MarkDigits
    BY DEF MarkTypes
  <2>2. Mark!Piece(n) = CodeOf(sig[n])
    BY DEF Mark!Piece, CodeOf
  <2>. QED BY <2>1, <2>2, CodeShape
<1>2. Mark!Piece(MarkLength + 1) = after /\ after \in Seq(Chars)
  BY MarkFacts DEF Mark!Piece, MarkTypes
<1>3. \A n \in 1 .. MarkLength + 1 : n \in 1 .. MarkLength \/ n = MarkLength + 1
  BY MarkFacts
<1>. QED BY <1>1, <1>2, <1>3

LEMMA MarkInvInit == Mark!Init => MarkInv
<1>. SUFFICES ASSUME Mark!Init PROVE MarkInv
  OBVIOUS
<1>1. /\ sig \in [1 .. MarkLength -> MarkDigits]
      /\ stray \in Seq(Chars) /\ after \in Seq(Chars) /\ ex = stray
      /\ starts = <<Len(stray) + 1>> /\ i = 1 /\ res = <<>> /\ read = Mark!Unread
  BY MarkFacts DEF Mark!Init, MarkDigits, Mark!Digits
<1>2. Len(stray) + 1 \in Nat \ {0}
  BY <1>1, LenProperties
<1>3. starts \in Seq(Nat \ {0}) /\ Len(starts) = 1 /\ starts[1] = Len(stray) + 1
  BY <1>1, <1>2
<1>4. MarkTypes
  BY <1>1, <1>3, MarkFacts DEF MarkTypes
<1>5. MarkIsWritten
  BY <1>1, <1>3 DEF MarkIsWritten
<1>6. ~Mark!Written
  BY <1>3, MarkFacts DEF Mark!Written
<1>7. Mark!MarkReadBack
  BY <1>1 DEF Mark!MarkReadBack
<1>. QED BY <1>1, <1>4, <1>5, <1>6, <1>7 DEF MarkInv, WrittenFirst, InStep

\* What is there stays there when more is written behind it.
LEMMA WrittenStays ==
  ASSUME NEW x \in Seq(Chars), NEW y \in Seq(Chars), NEW c \in Seq(Chars), NEW start \in Nat \ {0},
         Len(x) <= Len(y), \A k \in 1 .. Len(x) : y[k] = x[k], WrittenAt(x, c, start)
  PROVE  WrittenAt(y, c, start)
<1>1. Len(x) \in Nat /\ Len(y) \in Nat /\ Len(c) \in Nat
  BY LenProperties
<1>2. start + Len(c) <= Len(y) + 1
  BY <1>1 DEF WrittenAt
<1>3. ASSUME NEW k \in 1 .. Len(c) PROVE y[start + k - 1] = c[k]
  <2>1. start + k - 1 \in 1 .. Len(x)
    BY <1>1 DEF WrittenAt
  <2>. QED BY <2>1 DEF WrittenAt
<1>. QED BY <1>2, <1>3 DEF WrittenAt

LEMMA MarkWriteStep ==
  ASSUME MarkInv, Mark!WritePiece PROVE MarkInv'
<1>1. PICK n \in 1 .. MarkLength + 1 : n = Len(starts)
  BY MarkFacts DEF Mark!WritePiece, Mark!Written, MarkInv, MarkTypes
<1>2. PICK c \in Seq(Chars) : c = Mark!Piece(n) /\ Len(c) \in Nat
  BY PieceWritten, LenProperties DEF MarkInv
<1>3. /\ ex' = ex \o c
      /\ starts' = Append(starts, Len(ex') + 1)
      /\ UNCHANGED <<sig, stray, after, i, res, read>>
  BY <1>1, <1>2 DEF Mark!WritePiece
<1>4. PICK l \in Nat : l = Len(ex)
  BY LenProperties DEF MarkInv, MarkTypes
<1>5. /\ ex' \in Seq(Chars)
      /\ Len(ex') = l + Len(c)
      /\ \A k \in 1 .. l : ex'[k] = ex[k]
      /\ \A k \in 1 .. Len(c) : ex'[l + k] = c[k]
  BY <1>3, <1>4, ConcatProperties DEF MarkInv, MarkTypes
<1>6. /\ starts' \in Seq(Nat \ {0})
      /\ Len(starts') = n + 1
      /\ \A k \in 1 .. n : starts'[k] = starts[k]
      /\ starts'[n + 1] = Len(ex') + 1
  <2>1. Len(ex') + 1 \in Nat \ {0}
    BY <1>5, LenProperties
  <2>. QED BY <1>1, <1>3, <2>1, AppendProperties DEF MarkInv, MarkTypes
<1>7. MarkTypes'
  BY <1>3, <1>5, <1>6, MarkFacts DEF MarkInv, MarkTypes
<1>8. starts[n] = l + 1 /\ starts[1] = Len(stray) + 1
  BY <1>1, <1>4 DEF MarkInv, MarkIsWritten
<1>9. ASSUME NEW m \in 1 .. n
      PROVE  /\ WrittenAt(ex', Mark!Piece(m)', starts'[m])
             /\ starts'[m + 1] = starts'[m] + Len(Mark!Piece(m)')
  <2>0. Mark!Piece(m)' = Mark!Piece(m)
    BY <1>3 DEF Mark!Piece, Mark!CodeOf
  <2>1. CASE m = n
    <3>1. starts'[m] = l + 1 /\ starts'[m + 1] = l + 1 + Len(c) /\ Mark!Piece(m) = c
      BY <1>2, <1>3, <1>5, <1>6, <1>8, <2>1
    <3>2. WrittenAt(ex', c, l + 1)
      <4>1. l + 1 + Len(c) <= Len(ex') + 1
        BY <1>2, <1>5
      <4>2. \A k \in 1 .. Len(c) : l + 1 + k - 1 = l + k
        BY <1>2
      <4>. QED BY <1>5, <4>1, <4>2 DEF WrittenAt
    <3>. QED BY <2>0, <3>1, <3>2
  <2>2. CASE m # n
    <3>1. /\ WrittenAt(ex, Mark!Piece(m), starts[m])
          /\ starts[m + 1] = starts[m] + Len(Mark!Piece(m))
      BY <1>1, <2>2 DEF MarkInv, MarkIsWritten
    <3>2. m + 1 \in 1 .. n
      BY <2>2
    <3>3. starts'[m] = starts[m] /\ starts'[m + 1] = starts[m + 1]
      BY <1>6, <3>2
    <3>4. starts[m] \in Nat \ {0} /\ Mark!Piece(m) \in Seq(Chars)
      <4>1. starts[m] \in Nat \ {0}
        BY <1>1 DEF MarkInv, MarkTypes
      <4>2. m \in 1 .. MarkLength + 1
        BY <1>1, MarkFacts
      <4>. QED BY <4>1, <4>2, PieceWritten DEF MarkInv
    <3>5. ex \in Seq(Chars) /\ Len(ex) <= Len(ex')
      <4>1. ex \in Seq(Chars)
        BY DEF MarkInv, MarkTypes
      <4>2. Len(ex) <= Len(ex')
        BY <1>2, <1>4, <1>5
      <4>. QED BY <4>1, <4>2
    <3>6. WrittenAt(ex', Mark!Piece(m), starts[m])
      BY <1>4, <1>5, <3>1, <3>4, <3>5, WrittenStays
    <3>. QED BY <2>0, <3>1, <3>3, <3>6
  <2>. QED BY <2>1, <2>2
<1>10. MarkIsWritten'
  <2>1. starts'[1] = Len(stray') + 1 /\ starts'[Len(starts')] = Len(ex') + 1
    BY <1>3, <1>6, <1>8
  <2>2. 1 .. Len(starts') - 1 = 1 .. n
    BY <1>6
  <2>. QED BY <1>9, <2>1, <2>2 DEF MarkIsWritten
<1>11. i = 1 /\ res = <<>> /\ read = Mark!Unread
  BY DEF Mark!WritePiece, MarkInv, WrittenFirst
<1>12. WrittenFirst' /\ Mark!MarkReadBack'
  BY <1>3, <1>11 DEF WrittenFirst, Mark!MarkReadBack
<1>13. InStep'
  <2>1. i' = 1 /\ res' = <<>>
    BY <1>3, <1>11
  <2>2. Len(res') = 0 /\ starts'[Len(res') + 1] = starts'[1] /\ starts'[1] \in Nat
    BY <1>6, <2>1
  <2>3. ReadsAsWritten'
    BY <2>2, MarkFacts DEF ReadsAsWritten
  <2>. QED BY <2>1, <2>2, <2>3 DEF InStep
<1>. QED BY <1>7, <1>10, <1>12, <1>13 DEF MarkInv

LEMMA PieceOf ==
  ASSUME NEW x \in Seq(Chars), NEW j \in Nat \ {0}, NEW m \in {1, 2}, j + m <= Len(x) + 1
  PROVE  /\ SubSeq(x, j, j + m - 1) \in Seq(Chars)
         /\ Len(SubSeq(x, j, j + m - 1)) = m
         /\ WrittenAt(x, SubSeq(x, j, j + m - 1), j)
<1>1. \A k \in j .. j + m - 1 : x[k] \in Chars
  BY ElementOfSeq, LenProperties
<1>2. PICK z \in Int : z = j + m - 1
  OBVIOUS
<1>3. /\ SubSeq(x, j, z) \in Seq(Chars)
      /\ Len(SubSeq(x, j, z)) = IF j <= z THEN z - j + 1 ELSE 0
      /\ \A k \in 1 .. z - j + 1 : SubSeq(x, j, z)[k] = x[j + k - 1]
  BY <1>2, <1>1, SubSeqProperties
<1>4. Len(SubSeq(x, j, z)) = m /\ \A k \in 1 .. m : SubSeq(x, j, z)[k] = x[j + k - 1]
  BY <1>2, <1>3
<1>. QED BY <1>2, <1>3, <1>4 DEF WrittenAt

LEMMA Pair ==
  ASSUME NEW S, NEW c \in Seq(S), Len(c) = 1, NEW a, NEW x \in Seq(S), Len(x) = 2,
         x[1] = c[1], x[2] = a
  PROVE  x = c \o <<a>>
<1>1. a \in S
  BY ElementOfSeq
<1>2. <<a>> \in Seq(S) /\ Len(<<a>>) = 1 /\ <<a>>[1] = a
  BY <1>1
<1>3. PICK y : y = c \o <<a>>
  OBVIOUS
<1>4. y \in Seq(S) /\ Len(y) = 2 /\ y[1] = c[1] /\ y[2] = a
  BY <1>2, <1>3, ConcatProperties
<1>. QED BY <1>3, <1>4, SeqEqual

\* What is taken is always a code, and the digit read is the one it stands for.
LEMMA TakenIsACode ==
  ASSUME MarkInv, Mark!ReadDigit
  PROVE  \E c \in Mark!Codes :
           /\ c \in Seq(Chars)
           /\ Len(c) = Mark!Taken(i)
           /\ WrittenAt(ex, c, i)
           /\ res' = Append(res, Mark!DigitOf(c))
           /\ i' = i + Len(c)
<1>1. /\ Mark!Written /\ i \in Nat \ {0} /\ i <= Len(ex)
      /\ res' = Append(res, Mark!DigitOf(SubSeq(ex, i, i + Mark!Taken(i) - 1)))
      /\ i' = i + Mark!Taken(i)
      /\ ex \in Seq(Chars)
  BY DEF Mark!ReadDigit, MarkInv, MarkTypes
<1>2. PICK l \in Nat : l = Len(ex) /\ DOMAIN ex = 1 .. l
  BY <1>1, LenProperties
<1>3. Mark!Taken(i) \in {1, 2} /\ i + Mark!Taken(i) <= Len(ex) + 1
  BY <1>1, <1>2 DEF Mark!Taken
<1>4. PICK c : c = SubSeq(ex, i, i + Mark!Taken(i) - 1)
  OBVIOUS
<1>5. c \in Seq(Chars) /\ Len(c) = Mark!Taken(i) /\ WrittenAt(ex, c, i)
  BY <1>1, <1>3, <1>4, PieceOf
<1>6. c \in Mark!Codes
  <2>1. CASE i < Len(ex) /\ SubSeq(ex, i, i + 1) \in Mark!Codes
    <3>1. Mark!Taken(i) = 2 /\ i + 2 - 1 = i + 1
      BY <1>1, <2>1 DEF Mark!Taken
    <3>. QED BY <1>4, <2>1, <3>1
  <2>2. CASE ~(i < Len(ex) /\ SubSeq(ex, i, i + 1) \in Mark!Codes)
    <3>1. Mark!Taken(i) = 1
      BY <2>2 DEF Mark!Taken
    <3>2. Len(c) = 1
      BY <1>5, <3>1
    <3>3. c = <<c[1]>> /\ c[1] \in Chars
      BY <1>5, <3>2
    <3>. QED BY <3>3, EveryCharacterIsACode
  <2>. QED BY <2>1, <2>2
<1>. QED BY <1>1, <1>4, <1>5, <1>6

\* Where the digits are, and how much of the payload is behind them.
LEMMA DigitsWritten ==
  ASSUME MarkInv, Mark!Written
  PROVE  /\ Len(starts) = MarkLength + 2
         /\ \A n \in 1 .. MarkLength :
              /\ WrittenAt(ex, CodeOf(sig[n]), starts[n])
              /\ starts[n + 1] = starts[n] + Len(CodeOf(sig[n]))
         /\ Len(ex) + 1 = starts[MarkLength + 1] + Len(after)
<1>1. Len(starts) = MarkLength + 2
  BY MarkFacts DEF MarkInv, MarkTypes, Mark!Written
<1>2. ASSUME NEW n \in 1 .. MarkLength + 1
      PROVE  /\ WrittenAt(ex, Mark!Piece(n), starts[n])
             /\ starts[n + 1] = starts[n] + Len(Mark!Piece(n))
  <2>1. n \in 1 .. Len(starts) - 1
    BY <1>1, MarkFacts
  <2>. QED BY <2>1 DEF MarkInv, MarkIsWritten
<1>3. ASSUME NEW n \in 1 .. MarkLength
      PROVE  /\ WrittenAt(ex, CodeOf(sig[n]), starts[n])
             /\ starts[n + 1] = starts[n] + Len(CodeOf(sig[n]))
  <2>1. n \in 1 .. MarkLength + 1 /\ Mark!Piece(n) = CodeOf(sig[n])
    BY PieceWritten, MarkFacts DEF MarkInv
  <2>. QED BY <1>2, <2>1
<1>4. Len(ex) + 1 = starts[MarkLength + 1] + Len(after)
  <2>1. MarkLength + 1 \in 1 .. MarkLength + 1 /\ Mark!Piece(MarkLength + 1) = after
    BY PieceWritten, MarkFacts DEF MarkInv
  <2>2. starts[MarkLength + 1 + 1] = starts[MarkLength + 1] + Len(after)
    BY <1>2, <2>1
  <2>3. starts[Len(starts)] = Len(ex) + 1
    BY DEF MarkInv, MarkIsWritten
  <2>4. MarkLength + 1 + 1 = MarkLength + 2
    BY MarkFacts
  <2>. QED BY <1>1, <2>2, <2>3, <2>4
<1>. QED BY <1>1, <1>3, <1>4

\* A digit of one character, and the first of the next.
LEMMA NextToEachOther ==
  ASSUME MarkInv, Mark!Written, NEW n \in 1 .. MarkLength - 1, Len(CodeOf(sig[n])) = 1
  PROVE  /\ starts[n] < Len(ex)
         /\ SubSeq(ex, starts[n], starts[n] + 1) = CodeOf(sig[n]) \o <<CodeOf(sig[n + 1])[1]>>
<1>1. Len(starts) = MarkLength + 2
  BY DigitsWritten
<1>2. n \in 1 .. MarkLength /\ n + 1 \in 1 .. MarkLength
  BY MarkFacts
<1>0. n \in 1 .. Len(starts) - 1 /\ n + 1 \in 1 .. Len(starts) - 1
  BY <1>1, MarkFacts
<1>3. PICK c \in Seq(Chars) : c = CodeOf(sig[n]) /\ Len(c) = 1
  BY <1>2, CodeShape, MarkFacts DEF MarkInv, MarkTypes
<1>4. PICK e \in Seq(Chars) : e = CodeOf(sig[n + 1]) /\ Len(e) \in {1, 2}
  BY <1>2, CodeShape, MarkFacts DEF MarkInv, MarkTypes
<1>5. PICK s \in Nat \ {0} : s = starts[n]
  BY <1>0, SMTT(30) DEF MarkInv, MarkTypes
<1>6. starts[n + 1] = s + 1 /\ WrittenAt(ex, c, s) /\ WrittenAt(ex, e, starts[n + 1])
  BY <1>2, <1>3, <1>4, <1>5, DigitsWritten
<1>7. ex \in Seq(Chars) /\ Len(ex) \in Nat
  BY LenProperties DEF MarkInv, MarkTypes
<1>8. /\ s + 1 + Len(e) <= Len(ex) + 1 /\ ex[s] = c[1] /\ ex[s + 1] = e[1]
  BY <1>3, <1>4, <1>6 DEF WrittenAt
<1>9. PICK x : x = SubSeq(ex, s, s + 1)
  OBVIOUS
<1>10. x \in Seq(Chars) /\ Len(x) = 2 /\ x[1] = ex[s] /\ x[2] = ex[s + 1]
  <2>1. s + 2 <= Len(ex) + 1 /\ s + 2 - 1 = s + 1
    BY <1>4, <1>7, <1>8
  <2>2. x \in Seq(Chars) /\ Len(x) = 2 /\ WrittenAt(ex, x, s)
    BY <1>7, <1>9, <2>1, PieceOf
  <2>. QED BY <2>2 DEF WrittenAt
<1>11. x = c \o <<e[1]>>
  BY <1>3, <1>8, <1>10, Pair
<1>12. s < Len(ex)
  BY <1>4, <1>7, <1>8
<1>. QED BY <1>3, <1>4, <1>5, <1>9, <1>11, <1>12

\* Where the next digit begins, as long as all of them were the right ones.
LEMMA NextDigit ==
  ASSUME MarkInv, Mark!Written, ReadsAsWritten
  PROVE  /\ Len(starts) = MarkLength + 2
         /\ Len(res) \in 0 .. MarkLength
         /\ starts[1] = Len(stray) + 1
         /\ Len(ex) + 1 = starts[MarkLength + 1] + Len(after)
         /\ i = 1 + starts[Len(res) + 1] - starts[1]
         /\ Len(res) < MarkLength =>
              /\ CodeOf(sig[Len(res) + 1]) \in Seq(Chars)
              /\ Len(CodeOf(sig[Len(res) + 1])) \in {1, 2}
              /\ WrittenAt(ex, CodeOf(sig[Len(res) + 1]), starts[Len(res) + 1])
              /\ starts[Len(res) + 2] = starts[Len(res) + 1] + Len(CodeOf(sig[Len(res) + 1]))
<1>1. Len(starts) = MarkLength + 2 /\ Len(res) \in 0 .. MarkLength
  BY MarkFacts, DigitsWritten, LenProperties DEF MarkInv, MarkTypes, ReadsAsWritten
<1>2. PICK m \in 0 .. MarkLength : m = Len(res)
  BY <1>1
<1>3. m < MarkLength =>
        /\ WrittenAt(ex, CodeOf(sig[m + 1]), starts[m + 1])
        /\ starts[m + 2] = starts[m + 1] + Len(CodeOf(sig[m + 1]))
  <2>. SUFFICES ASSUME m < MarkLength
                PROVE  /\ WrittenAt(ex, CodeOf(sig[m + 1]), starts[m + 1])
                       /\ starts[m + 2] = starts[m + 1] + Len(CodeOf(sig[m + 1]))
    OBVIOUS
  <2>1. m + 1 \in 1 .. MarkLength /\ m + 1 + 1 = m + 2
    BY MarkFacts
  <2>. QED BY <2>1, DigitsWritten
<1>4. m < MarkLength => CodeOf(sig[m + 1]) \in Seq(Chars) /\ Len(CodeOf(sig[m + 1])) \in {1, 2}
  <2>. SUFFICES ASSUME m < MarkLength
                PROVE  CodeOf(sig[m + 1]) \in Seq(Chars) /\ Len(CodeOf(sig[m + 1])) \in {1, 2}
    OBVIOUS
  <2>1. sig[m + 1] \in MarkDigits
    BY MarkFacts DEF MarkInv, MarkTypes
  <2>. QED BY <2>1, CodeShape
<1>5. /\ starts[1] = Len(stray) + 1
      /\ Len(ex) + 1 = starts[MarkLength + 1] + Len(after)
      /\ i = 1 + starts[Len(res) + 1] - starts[1]
  BY <1>1, DigitsWritten DEF MarkInv, MarkIsWritten, InStep
<1>. QED BY <1>1, <1>2, <1>3, <1>4, <1>5

\* A digit that does not run together with the next is read as it was written.
LEMMA ApartIsTaken ==
  ASSUME MarkInv, Mark!ReadDigit, ReadsAsWritten, stray = <<>>, after = <<>>,
         \A n \in 1 .. MarkLength : Apart(n)
  PROVE  /\ Len(res) < MarkLength
         /\ Mark!Taken(i) = Len(CodeOf(sig[Len(res) + 1]))
<1>1. Mark!Written /\ i <= Len(ex)
  BY DEF Mark!ReadDigit
<1>2. PICK m \in 0 .. MarkLength : m = Len(res)
  BY <1>1, NextDigit
<1>3. i = starts[m + 1] /\ i \in Nat \ {0} /\ starts[m + 1] \in Nat \ {0} /\ Len(ex) \in Nat
  <2>1. starts[1] = 1
    BY <1>1, NextDigit
  <2>2. i \in Nat \ {0} /\ starts[m + 1] \in Nat \ {0} /\ Len(ex) \in Nat
    BY <1>1, <1>2, NextDigit, MarkFacts, LenProperties DEF MarkInv, MarkTypes
  <2>3. i = 1 + starts[m + 1] - starts[1]
    BY <1>1, <1>2, NextDigit
  <2>. QED BY <2>1, <2>2, <2>3
<1>4. m # MarkLength /\ starts[MarkLength + 1] = Len(ex) + 1
  <2>1. Len(after) = 0 /\ Len(ex) + 1 = starts[MarkLength + 1] + Len(after)
    BY <1>1, NextDigit
  <2>2. MarkLength + 1 \in 1 .. Len(starts)
    BY <1>1, NextDigit, MarkFacts
  <2>3. starts[MarkLength + 1] \in Nat
    BY <2>2 DEF MarkInv, MarkTypes
  <2>4. starts[MarkLength + 1] = Len(ex) + 1
    BY <2>1, <2>3
  <2>. QED BY <1>1, <1>3, <2>4
<1>5. PICK c \in Seq(Chars) :
        /\ c = CodeOf(sig[m + 1]) /\ Len(c) \in {1, 2}
        /\ WrittenAt(ex, c, i)
        /\ starts[m + 2] = i + Len(c)
  BY <1>1, <1>2, <1>3, <1>4, NextDigit, MarkFacts
<1>6. Len(res) < MarkLength /\ c = CodeOf(sig[Len(res) + 1])
  <2>1. m < MarkLength
    BY <1>4, MarkFacts
  <2>. QED BY <1>2, <1>5, <2>1
<1>7. c \in Mark!Codes
  <2>1. sig[m + 1] \in MarkDigits
    BY <1>4, MarkFacts DEF MarkInv, MarkTypes
  <2>. QED BY <1>5, <2>1, CodeIsRead
<1>8. CASE Len(c) = 2
  <2>1. i < Len(ex)
    BY <1>3, <1>5, <1>8 DEF WrittenAt
  <2>2. PICK x : x = SubSeq(ex, i, i + 1)
    OBVIOUS
  <2>3. x \in Seq(Chars) /\ Len(x) = 2 /\ WrittenAt(ex, x, i)
    <3>1. i + 2 <= Len(ex) + 1 /\ i + 2 - 1 = i + 1
      BY <1>3, <2>1
    <3>. QED BY <1>3, <2>2, <3>1, PieceOf DEF MarkInv, MarkTypes
  <2>4. \A k \in 1 .. 2 : x[k] = c[k]
    BY <1>5, <1>8, <2>3 DEF WrittenAt
  <2>5. x = c
    BY <1>5, <1>8, <2>3, <2>4, SeqEqual
  <2>6. Mark!Taken(i) = 2
    BY <1>7, <2>1, <2>2, <2>5 DEF Mark!Taken
  <2>. QED BY <1>8, <1>6, <2>6
<1>9. CASE Len(c) = 1
  <2>1. ~(i < Len(ex) /\ SubSeq(ex, i, i + 1) \in Mark!Codes)
    <3>1. CASE m + 1 < MarkLength
      <4>1. m + 1 \in 1 .. MarkLength - 1 /\ m + 1 \in 1 .. MarkLength /\ Apart(m + 1)
        BY <3>1, MarkFacts
      <4>2. CodeOf(sig[m + 1]) \o <<CodeOf(sig[m + 2])[1]>> \notin Mark!Codes
        BY <1>5, <1>9, <3>1, <4>1 DEF Apart
      <4>3. SubSeq(ex, starts[m + 1], starts[m + 1] + 1)
              = CodeOf(sig[m + 1]) \o <<CodeOf(sig[m + 1 + 1])[1]>>
        BY <1>1, <1>5, <1>9, <4>1, NextToEachOther
      <4>4. m + 1 + 1 = m + 2
        OBVIOUS
      <4>. QED BY <1>3, <4>2, <4>3, <4>4
    <3>2. CASE m + 1 >= MarkLength
      <4>1. m + 2 = MarkLength + 1
        BY <1>4, <3>2, MarkFacts
      <4>2. starts[m + 2] = Len(ex) + 1
        BY <1>4, <4>1
      <4>. QED BY <1>3, <1>5, <1>9, <4>2
    <3>. QED BY <3>1, <3>2, MarkFacts
  <2>2. Mark!Taken(i) = 1
    BY <2>1 DEF Mark!Taken
  <2>. QED BY <1>9, <1>6, <2>2
<1>. QED BY <1>5, <1>8, <1>9

LEMMA MarkReadStep ==
  ASSUME MarkInv, Mark!ReadDigit PROVE MarkInv'
<1>1. /\ Mark!Written
      /\ i <= Len(ex)
      /\ UNCHANGED <<sig, stray, after, ex, starts, read>>
  BY DEF Mark!ReadDigit
<1>2. PICK c \in Mark!Codes :
        /\ c \in Seq(Chars)
        /\ Len(c) = Mark!Taken(i)
        /\ WrittenAt(ex, c, i)
        /\ res' = Append(res, Mark!DigitOf(c))
        /\ i' = i + Len(c)
  BY TakenIsACode
<1>3. PICK d \in MarkDigits : d = Mark!DigitOf(c) /\ CodeOf(d) = c
  BY CodesAreDistinct
<1>4. PICK m \in Nat : m = Len(res)
  BY LenProperties DEF MarkInv, MarkTypes
<1>5. /\ res' \in Seq(MarkDigits)
      /\ Len(res') = m + 1
      /\ \A k \in 1 .. m : res'[k] = res[k]
      /\ res'[m + 1] = d
  BY <1>2, <1>3, <1>4, AppendProperties DEF MarkInv, MarkTypes
<1>6. Len(c) \in {1, 2} /\ i \in Nat \ {0} /\ i' = i + Len(c)
  <2>1. Len(c) \in {1, 2}
    BY <1>3, CodeShape
  <2>. QED BY <1>2, <2>1 DEF MarkInv, MarkTypes
<1>7. MarkTypes'
  BY <1>1, <1>5, <1>6 DEF MarkInv, MarkTypes
<1>8. MarkIsWritten'
  BY <1>1 DEF MarkInv, MarkIsWritten, Mark!Piece, Mark!CodeOf
<1>9. WrittenFirst' /\ Mark!Written'
  BY <1>1 DEF WrittenFirst, Mark!Written
<1>10. Mark!MarkReadBack'
  BY <1>1 DEF MarkInv, Mark!MarkReadBack, Mark!Readable, Mark!CodeOf
<1>11. ASSUME ReadsAsWritten'
       PROVE  ReadsAsWritten /\ m < MarkLength /\ c = CodeOf(sig[m + 1])
  <2>1. m + 1 <= MarkLength /\ \A k \in 1 .. m + 1 : res'[k] = sig[k]
    BY <1>1, <1>5, <1>11 DEF ReadsAsWritten
  <2>2. ReadsAsWritten
    BY <1>4, <1>5, <2>1, MarkFacts DEF ReadsAsWritten
  <2>3. sig[m + 1] = d
    BY <1>5, <2>1
  <2>. QED BY <1>3, <2>1, <2>2, <2>3, MarkFacts
<1>12. ReadsAsWritten' => i' = 1 + starts'[Len(res') + 1] - starts'[1]
  <2>. SUFFICES ASSUME ReadsAsWritten' PROVE i' = 1 + starts[m + 2] - starts[1]
    BY <1>1, <1>5
  <2>1. i = 1 + starts[m + 1] - starts[1] /\ starts[m + 2] = starts[m + 1] + Len(c)
    BY <1>1, <1>4, <1>11, NextDigit
  <2>2. starts[1] \in Nat /\ starts[m + 1] \in Nat
    <3>1. m + 1 \in 1 .. Len(starts) /\ 1 \in 1 .. Len(starts)
      BY <1>1, <1>4, <1>11, NextDigit, MarkFacts
    <3>. QED BY <3>1 DEF MarkInv, MarkTypes
  <2>. QED BY <1>6, <2>1, <2>2
<1>13. stray = <<>> /\ ReadsAsWritten' => \A n \in 1 .. m + 1 : Apart(n)
  <2>. SUFFICES ASSUME stray = <<>>, ReadsAsWritten' PROVE \A n \in 1 .. m + 1 : Apart(n)
    OBVIOUS
  <2>1. \A n \in 1 .. m : Apart(n)
    BY <1>1, <1>4, <1>11 DEF MarkInv, InStep
  <2>2. Apart(m + 1)
    <3>. SUFFICES ASSUME m + 1 < MarkLength, Len(c) # 2
                  PROVE  c \o <<CodeOf(sig[m + 2])[1]>> \notin Mark!Codes
      BY <1>11 DEF Apart
    <3>1. i = starts[m + 1]
      <4>1. starts[1] = 1 /\ i = 1 + starts[m + 1] - starts[1]
        BY <1>1, <1>4, <1>11, NextDigit
      <4>2. m + 1 \in 1 .. Len(starts)
        BY <1>1, <1>4, <1>11, NextDigit, MarkFacts
      <4>3. starts[m + 1] \in Nat
        BY <4>2 DEF MarkInv, MarkTypes
      <4>. QED BY <1>6, <4>1, <4>3
    <3>2. Len(CodeOf(sig[m + 1])) = 1 /\ m + 1 \in 1 .. MarkLength - 1 /\ m + 1 + 1 = m + 2
      BY <1>6, <1>11, MarkFacts
    <3>3. /\ i < Len(ex)
          /\ SubSeq(ex, i, i + 1) = c \o <<CodeOf(sig[m + 2])[1]>>
      BY <1>1, <1>11, <3>1, <3>2, NextToEachOther
    <3>4. Mark!Taken(i) # 2
      BY <1>2, <1>6
    <3>. QED BY <3>3, <3>4 DEF Mark!Taken
  <2>. QED BY <2>1, <2>2
<1>14. stray = <<>> /\ after = <<>> /\ (\A n \in 1 .. MarkLength : Apart(n)) => ReadsAsWritten'
  <2>. SUFFICES ASSUME stray = <<>>, after = <<>>, \A n \in 1 .. MarkLength : Apart(n)
                PROVE  ReadsAsWritten'
    OBVIOUS
  <2>1. ReadsAsWritten
    BY <1>1 DEF MarkInv, InStep
  <2>2. m < MarkLength /\ Len(c) = Len(CodeOf(sig[m + 1]))
    BY <1>2, <1>4, <2>1, ApartIsTaken
  <2>3. PICK e \in Seq(Chars) : e = CodeOf(sig[m + 1]) /\ WrittenAt(ex, e, starts[m + 1])
    BY <1>1, <1>4, <2>1, <2>2, NextDigit
  <2>4. i = starts[m + 1]
    <3>1. starts[1] = 1 /\ i = 1 + starts[m + 1] - starts[1]
      BY <1>1, <1>4, <2>1, NextDigit
    <3>2. m + 1 \in 1 .. Len(starts)
      BY <1>1, <1>4, <2>1, <2>2, NextDigit, MarkFacts
    <3>3. starts[m + 1] \in Nat
      BY <3>2 DEF MarkInv, MarkTypes
    <3>. QED BY <1>6, <3>1, <3>3
  <2>5. c = e
    <3>1. \A k \in 1 .. Len(c) : c[k] = e[k]
      BY <1>2, <2>2, <2>3, <2>4 DEF WrittenAt
    <3>. QED BY <1>2, <2>2, <2>3, <3>1, SeqEqual
  <2>6. sig[m + 1] \in MarkDigits
    BY <2>2, MarkFacts DEF MarkInv, MarkTypes
  <2>7. d = sig[m + 1]
    BY <1>3, <2>3, <2>5, <2>6, CodeIsRead
  <2>8. \A k \in 1 .. m + 1 : res'[k] = sig[k]
    BY <1>4, <1>5, <2>1, <2>7 DEF ReadsAsWritten
  <2>. QED BY <1>1, <1>5, <2>2, <2>8, MarkFacts DEF ReadsAsWritten
<1>15. InStep'
  <2>1. \A n \in 1 .. Len(res') : Apart(n)' <=> Apart(n)
    BY <1>1 DEF Apart
  <2>2. (\A n \in 1 .. MarkLength : Apart(n))' <=> \A n \in 1 .. MarkLength : Apart(n)
    BY <1>1 DEF Apart
  <2>3. stray' = stray /\ after' = after /\ Len(res') = m + 1
    BY <1>1, <1>5
  <2>. QED BY <1>12, <1>13, <1>14, <2>1, <2>2, <2>3 DEF InStep
<1>. QED BY <1>7, <1>8, <1>9, <1>10, <1>15 DEF MarkInv

LEMMA MarkFinishStep ==
  ASSUME MarkInv, Mark!Finish PROVE MarkInv'
<1>1. /\ Mark!Written
      /\ i > Len(ex)
      /\ read' = IF Mark!Accepts THEN res ELSE Mark!NoMark
      /\ UNCHANGED <<sig, stray, after, ex, starts, i, res>>
  BY DEF Mark!Finish
<1>2. /\ sig \in [1 .. MarkLength -> MarkDigits] /\ sig \in Seq(MarkDigits) /\ Len(sig) = MarkLength
      /\ res \in Seq(MarkDigits) /\ stray \in Seq(Chars) /\ after \in Seq(Chars)
      /\ i \in Nat \ {0}
  BY MarkFacts DEF MarkInv, MarkTypes
<1>3. Mark!Readable(sig) <=> \A n \in 1 .. MarkLength : Apart(n)
  <2>1. \A n \in 1 .. MarkLength : Apart(n) <=>
          (n \in 1 .. MarkLength - 1 =>
             \/ Len(CodeOf(sig[n])) = 2
             \/ CodeOf(sig[n]) \o <<CodeOf(sig[n + 1])[1]>> \notin Mark!Codes)
    BY MarkFacts DEF Apart
  <2>2. \A n \in 1 .. MarkLength - 1 : n \in 1 .. MarkLength
    BY MarkFacts
  <2>. QED BY <1>2, <2>1, <2>2 DEF Mark!Readable, CodeOf
<1>4. read' = sig <=> ReadsAsWritten /\ Len(res) = MarkLength
  <2>1. CASE Len(res) = MarkLength
    <3>1. read' = res
      BY <1>1, <2>1 DEF Mark!Accepts
    <3>2. ReadsAsWritten => res = sig
      BY <1>2, <2>1, SeqEqual DEF ReadsAsWritten
    <3>3. res = sig => ReadsAsWritten
      BY <2>1, MarkFacts DEF ReadsAsWritten
    <3>. QED BY <2>1, <3>1, <3>2, <3>3
  <2>2. CASE Len(res) # MarkLength
    <3>1. read' = <<-2>>
      BY <1>1, <2>2 DEF Mark!Accepts, Mark!NoMark
    <3>2. sig[1] \in MarkDigits
      BY <1>2, MarkFacts
    <3>3. <<-2>>[1] = -2 /\ -2 \notin MarkDigits
      BY DEF MarkDigits
    <3>4. sig # <<-2>>
      BY <3>2, <3>3
    <3>. QED BY <2>2, <3>1, <3>4
  <2>. QED BY <2>1, <2>2
<1>5. ReadsAsWritten /\ Len(res) = MarkLength => stray = <<>> /\ after = <<>> /\ Mark!Readable(sig)
  <2>. SUFFICES ASSUME ReadsAsWritten, Len(res) = MarkLength
                PROVE  stray = <<>> /\ after = <<>> /\ \A n \in 1 .. MarkLength : Apart(n)
    BY <1>3
  <2>1. /\ i = 1 + starts[MarkLength + 1] - (Len(stray) + 1)
        /\ Len(ex) + 1 = starts[MarkLength + 1] + Len(after)
        /\ MarkLength + 1 \in 1 .. Len(starts)
    BY <1>1, NextDigit, MarkFacts
  <2>2. /\ Len(ex) \in Nat /\ Len(stray) \in Nat /\ Len(after) \in Nat
        /\ starts[MarkLength + 1] \in Nat
    BY <2>1, LenProperties DEF MarkInv, MarkTypes
  <2>3. Len(stray) = 0 /\ Len(after) = 0
    BY <1>1, <2>1, <2>2
  <2>4. stray = <<>> /\ after = <<>>
    BY <1>2, <2>3, EmptySeq
  <2>. QED BY <1>1, <2>4 DEF MarkInv, InStep
<1>6. stray = <<>> /\ after = <<>> /\ Mark!Readable(sig) => ReadsAsWritten /\ Len(res) = MarkLength
  <2>. SUFFICES ASSUME stray = <<>>, after = <<>>, Mark!Readable(sig)
                PROVE  ReadsAsWritten /\ Len(res) = MarkLength
    OBVIOUS
  <2>1. ReadsAsWritten
    BY <1>1, <1>3 DEF MarkInv, InStep
  <2>2. PICK m \in 0 .. MarkLength : m = Len(res)
    BY <1>1, <2>1, NextDigit
  <2>3. i = starts[m + 1] /\ Len(ex) \in Nat
    <3>1. starts[1] = 1 /\ i = 1 + starts[m + 1] - starts[1] /\ m + 1 \in 1 .. Len(starts)
      BY <1>1, <2>1, <2>2, NextDigit, MarkFacts
    <3>2. starts[m + 1] \in Nat
      BY <3>1 DEF MarkInv, MarkTypes
    <3>. QED BY <3>1, <3>2, LenProperties DEF MarkInv, MarkTypes
  <2>4. m < MarkLength => i <= Len(ex)
    <3>. SUFFICES ASSUME m < MarkLength PROVE i <= Len(ex)
      OBVIOUS
    <3>1. PICK l \in {1, 2} : l = Len(CodeOf(sig[m + 1])) /\ i + l <= Len(ex) + 1
      BY <1>1, <2>1, <2>2, <2>3, NextDigit DEF WrittenAt
    <3>2. i \in Nat /\ Len(ex) \in Nat
      BY <1>2, <2>3
    <3>3. i + l <= Len(ex) + 1
      BY <3>1
    <3>. QED BY <3>2, <3>3
  <2>5. m = MarkLength
    <3>1. ~(i <= Len(ex))
      BY <1>1, <1>2, <2>3
    <3>. QED BY <2>4, <3>1, MarkFacts
  <2>. QED BY <2>1, <2>2, <2>5
<1>7. Mark!MarkReadBack'
  BY <1>1, <1>4, <1>5, <1>6 DEF Mark!MarkReadBack, Mark!Readable, Mark!CodeOf
<1>8. MarkTypes' /\ MarkIsWritten' /\ InStep'
  BY <1>1 DEF MarkInv, MarkTypes, MarkIsWritten, InStep, Mark!Written, Mark!Piece, Mark!CodeOf,
              ReadsAsWritten, Apart
<1>9. WrittenFirst'
  BY <1>1 DEF WrittenFirst, Mark!Written
<1>. QED BY <1>7, <1>8, <1>9 DEF MarkInv

LEMMA MarkInvNext ==
  ASSUME MarkInv, [Mark!Next]_(Mark!vars) PROVE MarkInv'
<1>1. CASE UNCHANGED Mark!vars
  BY <1>1 DEF Mark!vars, MarkInv, MarkTypes, MarkIsWritten, WrittenFirst, InStep, Mark!Written,
              ReadsAsWritten, Apart, Mark!Piece, Mark!MarkReadBack, Mark!Readable, Mark!CodeOf
<1>. QED BY <1>1, MarkWriteStep, MarkReadStep, MarkFinishStep DEF Mark!Next

-----------------------------------------------------------------------------
(* IntelExtractors *)

Elems(s) == {s[n] : n \in DOMAIN s}
Taught == Elems(TechniqueOrder)
Types == {"ip", "domain", "hash", "url", "cve"}
Values == UNION {{p.found[n].value : n \in DOMAIN p.found} : p \in Payloads}
TurnRecords == [id : LogIds, session : Sessions, payload : Payloads, at : Times]
TTPRecords ==
  [session : Sessions, technique : Taught, confidence : Int, sources : Seq(LogIds)]
IOCRecords ==
  [type : Types, value : Values, count : Nat, confidence : Int, first : Times, last : Int]

PayloadOf(k) == interaction[list[k]].payload
Shows(s, t) == Extractors!Shows(s, t)
Met == Extractors!Met
MetAs(e) == Extractors!MetAs(e)
At(w) == interaction[list[w[1]]].at
IndicatorAt(w) == PayloadOf(w[1]).found[w[2]]
IdOf(obj) == interaction[obj].id
IdsOf(S) == {IdOf(obj) : obj \in S}
Strong(obj, t) == Extractors!Strength(interaction[obj].payload.hits[t])

IntelTypes ==
  /\ interaction \in [Interactions -> TurnRecords]
  /\ list \in Seq(Interactions)
  /\ records \in Seq(TTPRecords)
  /\ ioc_map \in Seq(IOCRecords)

\* What is left to do is of the last turn.
LeftToDo ==
  /\ list = <<>> => matching = {} /\ meeting = {}
  /\ list # <<>> =>
       /\ matching \subseteq Extractors!Matched(PayloadOf(Len(list)))
       /\ meeting \subseteq Extractors!ExtractAll(PayloadOf(Len(list)))
  /\ iocs = Extractors!TypeError => meeting = {}

\* The record r has those of S as sources and is as strong as the strongest.
Supported(r, S) ==
  /\ Elems(r.sources) = IdsOf(S)
  /\ Extractors!IsInjective(r.sources)
  /\ \E obj \in S : r.confidence = Strong(obj, r.technique)
  /\ \A obj \in S : Strong(obj, r.technique) <= r.confidence

SameKey(r, q) == r.session = q.session /\ r.technique = q.technique

\* One record in rs for each session and technique that sh says were shown.
RecordsFit(rs, sh) ==
  /\ \A m, n \in DOMAIN rs : SameKey(rs[m], rs[n]) => m = n
  /\ \A n \in DOMAIN rs : Supported(rs[n], sh[rs[n].session][rs[n].technique])
  /\ \A s \in Sessions, t \in Taught :
       sh[s][t] # {} => \E n \in DOMAIN rs : rs[n].session = s /\ rs[n].technique = t

Shown == [s \in Sessions |-> [t \in Taught |-> Shows(s, t)]]

RecordsCounted == RecordsFit(records, Shown)

\* The entry e counts the meetings S.
Counts(e, S) ==
  /\ IsFiniteSet(S)
  /\ e.count = Cardinality(S)
  /\ e.confidence = Extractors!Min({100, Extractors!Initially[e.type] + 5 * (e.count - 1)})
  /\ \E w \in S :
       /\ \A v \in S : w[1] <= v[1]
       /\ e.first = At(w)
       /\ S = {w} => e.last = Extractors!Unseen
       /\ S # {w} => \E v \in S \ {w} : e.last = At(v)
       /\ \A v \in S \ {w} : At(v) <= e.last

SameIOC(e, f) == e.type = f.type /\ e.value = f.value

\* Those of the meetings M that are of the indicator of e.
Alike(e, M) == {w \in M : SameIOC(e, IndicatorAt(w))}

\* One entry in es for each indicator of the meetings M.
EntriesFit(es, M) ==
  /\ \A m, n \in DOMAIN es : SameIOC(es[m], es[n]) => m = n
  /\ \A n \in DOMAIN es : Counts(es[n], Alike(es[n], M))
  /\ \A w \in M : \E n \in DOMAIN es : SameIOC(es[n], IndicatorAt(w))

IndicatorsCounted == iocs # Extractors!TypeError => EntriesFit(ioc_map, Met)
MixedOnly == iocs = Extractors!TypeError => Extractors!Mixed

\* The answers rank what was recorded.
Ranks(s, r) ==
  /\ Elems(s) = Elems(r)
  /\ \A m, n \in DOMAIN s : m < n => s[m].confidence >= s[n].confidence

Answered ==
  ttps.done =>
    /\ matching = {} /\ meeting = {}
    /\ Ranks(ttps.sorted, records)
    /\ iocs # Extractors!TypeError => Ranks(iocs.sorted, ioc_map)

IntelInv ==
  /\ IntelTypes
  /\ LeftToDo
  /\ RecordsCounted
  /\ IndicatorsCounted
  /\ MixedOnly
  /\ Answered

LEMMA IntelFacts ==
  /\ Times \subseteq Nat
  /\ \A p \in Payloads :
       /\ p.hits \in [Taught -> Nat]
       /\ \A n \in DOMAIN p.found : p.found[n].type \in Types
<1>1. DOMAIN Extractors!TypeOrder = Types
  BY DEF Extractors!TypeOrder, Types
<1>2. Extractors!ToSet(TechniqueOrder) = Taught
  BY DEF Extractors!ToSet, Taught, Elems
<1>. QED
  BY <1>1, <1>2, ServicesAssumption DEF ServicesAssumption, Extractors!ExtractorsAssumption

LEMMA LeastOfTwo ==
  ASSUME NEW a \in Int, NEW b \in Int
  PROVE  Extractors!Min({a, b}) = IF a <= b THEN a ELSE b
<1>1. PICK m \in {a, b} : \A y \in {a, b} : m <= y
  OBVIOUS
<1>2. Extractors!Min({a, b}) \in {a, b} /\ \A y \in {a, b} : Extractors!Min({a, b}) <= y
  BY <1>1 DEF Extractors!Min
<1>. QED BY <1>2

LEMMA LargestIs ==
  ASSUME NEW S, S \subseteq Int, NEW m \in S, \A y \in S : y <= m
  PROVE  Extractors!Max(S) = m
<1>1. \A y \in S : m >= y
  OBVIOUS
<1>2. Extractors!Max(S) \in S /\ \A y \in S : Extractors!Max(S) >= y
  BY <1>1 DEF Extractors!Max
<1>3. PICK n \in S : n = Extractors!Max(S)
  BY <1>2
<1>. QED BY <1>1, <1>2, <1>3

LEMMA StrongerIs ==
  ASSUME NEW a \in Int, NEW b \in Int
  PROVE  Extractors!Stronger(a, b) = IF a <= b THEN b ELSE a
<1>1. CASE a <= b
  BY <1>1, LargestIs DEF Extractors!Stronger
<1>2. CASE ~(a <= b)
  BY <1>2, LargestIs DEF Extractors!Stronger
<1>. QED BY <1>1, <1>2

LEMMA StrengthIsInt ==
  ASSUME IntelTypes, NEW obj \in Interactions, NEW t \in Taught
  PROVE  Strong(obj, t) \in Int
<1>1. interaction[obj].payload \in Payloads
  BY DEF IntelTypes, TurnRecords
<1>2. interaction[obj].payload.hits[t] \in Nat
  BY <1>1, IntelFacts
<1>3. PICK h \in Nat : h = interaction[obj].payload.hits[t]
  BY <1>2
<1>4. Strong(obj, t) = Extractors!Min({100, 40 + 15 * h})
  BY <1>3 DEF Strong, Extractors!Strength
<1>. QED BY <1>4, LeastOfTwo

LEMMA TurnIsKnown ==
  ASSUME IntelTypes, NEW k \in DOMAIN list
  PROVE  /\ list[k] \in Interactions
         /\ interaction[list[k]].session \in Sessions
         /\ PayloadOf(k) \in Payloads
         /\ interaction[list[k]].at \in Times
<1>1. list[k] \in Interactions
  BY ElementOfSeq DEF IntelTypes
<1>. QED BY <1>1 DEF IntelTypes, TurnRecords, PayloadOf

LEMMA IdIsKnown ==
  ASSUME IntelTypes, NEW obj \in Interactions PROVE IdOf(obj) \in LogIds
BY DEF IntelTypes, TurnRecords, IdOf

\* A new turn shows nothing yet, and what was shown before stays.
LEMMA ShownAfterTake ==
  ASSUME IntelTypes, NEW obj \in Interactions, Extractors!Take(obj), NEW s, NEW t
  PROVE  Shows(s, t)' = Shows(s, t)
<1>1. /\ matching = {}
      /\ list' = Append(list, obj)
      /\ matching' = Extractors!Matched(interaction[obj].payload)
      /\ interaction' = interaction
  BY DEF Extractors!Take, Extractors!Between
<1>2. PICK l \in Nat : l = Len(list)
  BY LenProperties DEF IntelTypes
<1>3. /\ DOMAIN list = 1 .. l /\ DOMAIN list' = 1 .. l + 1 /\ Len(list') = l + 1
      /\ list'[l + 1] = obj /\ \A k \in 1 .. l : list'[k] = list[k]
  BY <1>1, <1>2, AppendProperties, LenProperties DEF IntelTypes
<1>4. \A k \in 1 .. l : Extractors!PayloadOf(k)' = Extractors!PayloadOf(k)
  BY <1>1, <1>3 DEF Extractors!PayloadOf
<1>5. Extractors!PayloadOf(l + 1)' = interaction[obj].payload
  BY <1>1, <1>3 DEF Extractors!PayloadOf
<1>6. ASSUME NEW x \in Shows(s, t) PROVE x \in Shows(s, t)'
  <2>1. PICK k \in 1 .. l : /\ x = list[k]
                            /\ interaction[list[k]].session = s
                            /\ t \in Extractors!Matched(Extractors!PayloadOf(k))
    BY <1>3, <1>6 DEF Shows, Extractors!Shows
  <2>2. k \in DOMAIN list' /\ list'[k] = list[k] /\ k # Len(list')
    BY <1>2, <1>3
  <2>. QED BY <1>1, <1>4, <2>1, <2>2 DEF Shows, Extractors!Shows, Extractors!Matched
<1>7. ASSUME NEW x \in Shows(s, t)' PROVE x \in Shows(s, t)
  <2>1. PICK k \in DOMAIN list' : /\ x = list'[k]
                                  /\ interaction'[list'[k]].session = s
                                  /\ t \in Extractors!Matched(Extractors!PayloadOf(k))'
                                  /\ k = Len(list') => t \notin matching'
    BY <1>7 DEF Shows, Extractors!Shows
  <2>2. k # l + 1
    BY <1>1, <1>3, <1>5, <2>1 DEF Extractors!Matched
  <2>3. k \in 1 .. l
    BY <1>3, <2>2
  <2>. QED BY <1>1, <1>3, <1>4, <2>1, <2>3 DEF Shows, Extractors!Shows, Extractors!Matched
<1>. QED BY <1>6, <1>7

\* One turn of the inner loop adds the current object to what shows the technique.
LEMMA ShownAfterMatch ==
  ASSUME IntelTypes, LeftToDo, NEW j \in DOMAIN TechniqueOrder, Extractors!MatchTechnique(j),
         NEW s, NEW t
  PROVE  Shows(s, t)' = IF s = interaction[Extractors!Current].session /\ t = TechniqueOrder[j]
                        THEN Shows(s, t) \cup {Extractors!Current} ELSE Shows(s, t)
<1>1. PICK t0 : t0 = TechniqueOrder[j]
  OBVIOUS
<1>2. /\ t0 \in matching
      /\ matching' = matching \ {t0}
      /\ list' = list /\ interaction' = interaction
  BY <1>1 DEF Extractors!MatchTechnique
<1>3. PICK l \in Nat : l = Len(list) /\ DOMAIN list = 1 .. l
  BY LenProperties DEF IntelTypes
<1>4. list # <<>>
  BY <1>2 DEF LeftToDo
<1>5. l \in 1 .. l
  BY <1>3, <1>4, EmptySeq DEF IntelTypes
<1>6. t0 \in Extractors!Matched(Extractors!PayloadOf(l))
  BY <1>2, <1>3, <1>4 DEF LeftToDo, PayloadOf, Extractors!PayloadOf
<1>7. Extractors!Current = list[l]
  BY <1>3 DEF Extractors!Current
<1>8. \A x : x \in Shows(s, t) <=>
        \E k \in 1 .. l : /\ x = list[k]
                          /\ interaction[list[k]].session = s
                          /\ t \in Extractors!Matched(Extractors!PayloadOf(k))
                          /\ k = l => t \notin matching
  BY <1>3 DEF Shows, Extractors!Shows
<1>9. \A x : x \in Shows(s, t)' <=>
        \E k \in 1 .. l : /\ x = list[k]
                          /\ interaction[list[k]].session = s
                          /\ t \in Extractors!Matched(Extractors!PayloadOf(k))
                          /\ k = l => t \notin matching \ {t0}
  BY <1>2, <1>3 DEF Shows, Extractors!Shows, Extractors!PayloadOf, Extractors!Matched
<1>10. CASE t # t0
  BY <1>1, <1>8, <1>9, <1>10
<1>11. CASE t = t0
  <2>1. \A x : x \in Shows(s, t)' <=>
          x \in Shows(s, t) \/ (x = list[l] /\ interaction[list[l]].session = s)
    BY <1>2, <1>5, <1>6, <1>8, <1>9, <1>11
  <2>. QED BY <1>1, <1>7, <1>11, <2>1
<1>. QED BY <1>10, <1>11

\* The record of a technique that one more object shows.
LEMMA SupportedMore ==
  ASSUME IntelTypes, NEW r \in TTPRecords, NEW S, S \subseteq Interactions, Supported(r, S),
         NEW obj \in Interactions, NEW q \in TTPRecords,
         q = [r EXCEPT !.confidence = Extractors!Stronger(@, Strong(obj, r.technique)),
                       !.sources = Extractors!Sourced(@, IdOf(obj))]
  PROVE  Supported(q, S \cup {obj})
<1>1. /\ r.technique \in Taught /\ r.confidence \in Int /\ r.sources \in Seq(LogIds)
  BY DEF TTPRecords
<1>2. /\ q.technique = r.technique
      /\ q.confidence = Extractors!Stronger(r.confidence, Strong(obj, r.technique))
      /\ q.sources = Extractors!Sourced(r.sources, IdOf(obj))
  BY DEF TTPRecords
<1>3. \A x \in Interactions : Strong(x, r.technique) \in Int
  BY <1>1, StrengthIsInt
<1>4. Elems(r.sources) = IdsOf(S) /\ Extractors!IsInjective(r.sources)
  BY DEF Supported
<1>5. DOMAIN r.sources = 1 .. Len(r.sources) /\ Len(r.sources) \in Nat
  BY <1>1, LenProperties
<1>6. Extractors!Contains(r.sources, IdOf(obj)) <=> IdOf(obj) \in IdsOf(S)
  BY <1>4, <1>5 DEF Extractors!Contains, Elems
<1>7. Elems(q.sources) = IdsOf(S \cup {obj}) /\ Extractors!IsInjective(q.sources)
  <2>0. IdsOf(S \cup {obj}) = IdsOf(S) \cup {IdOf(obj)}
    BY DEF IdsOf
  <2>1. CASE IdOf(obj) \in IdsOf(S)
    BY <1>2, <1>4, <1>6, <2>0, <2>1 DEF Extractors!Sourced
  <2>2. CASE IdOf(obj) \notin IdsOf(S)
    <3>1. q.sources = Append(r.sources, IdOf(obj))
      BY <1>2, <1>6, <2>2 DEF Extractors!Sourced
    <3>2. PICK l \in Nat : l = Len(r.sources)
      BY <1>5
    <3>3. /\ DOMAIN q.sources = 1 .. l + 1
          /\ q.sources[l + 1] = IdOf(obj)
          /\ \A k \in 1 .. l : q.sources[k] = r.sources[k]
      BY <1>1, <3>1, <3>2, AppendProperties, LenProperties, IdIsKnown
    <3>4. Elems(q.sources) = IdsOf(S \cup {obj})
      <4>1. PICK a : a = IdOf(obj)
        OBVIOUS
      <4>2. Elems(r.sources) = {r.sources[k] : k \in 1 .. l}
        BY <1>5, <3>2 DEF Elems
      <4>3. Elems(q.sources) = {q.sources[k] : k \in 1 .. l + 1}
        BY <3>3 DEF Elems
      <4>4. \A k \in 1 .. l + 1 : k \in 1 .. l \/ k = l + 1
        BY <3>2
      <4>5. \A k \in 1 .. l : k \in 1 .. l + 1
        BY <3>2
      <4>6. l + 1 \in 1 .. l + 1
        BY <3>2
      <4>7. Elems(q.sources) = Elems(r.sources) \cup {a}
        BY <3>3, <4>1, <4>2, <4>3, <4>4, <4>5, <4>6
      <4>. QED BY <1>4, <2>0, <4>1, <4>7
    <3>5. \A k \in 1 .. l : r.sources[k] # IdOf(obj)
      BY <1>4, <1>5, <2>2, <3>2 DEF Elems
    <3>6. Extractors!IsInjective(q.sources)
      BY <1>4, <1>5, <3>2, <3>3, <3>5 DEF Extractors!IsInjective
    <3>. QED BY <3>4, <3>6
  <2>. QED BY <2>1, <2>2
<1>8. PICK c \in Int : c = Strong(obj, r.technique)
  BY <1>3
<1>9. q.confidence = IF r.confidence <= c THEN c ELSE r.confidence
  BY <1>1, <1>2, <1>8, StrongerIs
<1>10. PICK a \in Int : a = r.confidence
  BY <1>1
<1>11. \E x \in S \cup {obj} : q.confidence = Strong(x, q.technique)
  BY <1>2, <1>8, <1>9 DEF Supported
<1>12. ASSUME NEW x \in S \cup {obj} PROVE Strong(x, q.technique) <= q.confidence
  <2>1. CASE x = obj
    BY <1>2, <1>8, <1>9, <1>10, <2>1
  <2>2. CASE x \in S
    <3>1. PICK b \in Int : b = Strong(x, r.technique)
      BY <1>3, <2>2
    <3>2. b <= a
      BY <1>10, <2>2, <3>1 DEF Supported
    <3>. QED BY <1>2, <1>8, <1>9, <1>10, <3>1, <3>2
  <2>. QED BY <2>1, <2>2
<1>. QED BY <1>7, <1>11, <1>12 DEF Supported

LEMMA SupportedFirst ==
  ASSUME NEW obj, NEW q, q.sources = <<IdOf(obj)>>, q.confidence = Strong(obj, q.technique),
         Strong(obj, q.technique) \in Int
  PROVE  Supported(q, {obj})
<1>1. DOMAIN q.sources = 1 .. 1 /\ q.sources[1] = IdOf(obj)
  OBVIOUS
<1>2. Elems(q.sources) = IdsOf({obj}) /\ Extractors!IsInjective(q.sources)
  BY <1>1 DEF Elems, IdsOf, Extractors!IsInjective
<1>. QED BY <1>2 DEF Supported

\* No record is of the technique t in the session s.
Unrecorded(rs, s, t) == \A n \in DOMAIN rs : ~(rs[n].session = s /\ rs[n].technique = t)

FirstRecord(s, t, obj) ==
  [session |-> s, technique |-> t, confidence |-> Strong(obj, t), sources |-> <<IdOf(obj)>>]

\* In rs2 the record of t in s has one source more than in rs.
Rerecorded(rs, rs2, s, t, obj) ==
  /\ \E m \in DOMAIN rs : rs[m].session = s /\ rs[m].technique = t
  /\ DOMAIN rs2 = DOMAIN rs
  /\ rs2 = [n \in DOMAIN rs2 |-> rs2[n]]
  /\ \A n \in DOMAIN rs : rs2[n] =
       IF rs[n].session = s /\ rs[n].technique = t
       THEN [rs[n] EXCEPT !.confidence = Extractors!Stronger(@, Strong(obj, t)),
                          !.sources = Extractors!Sourced(@, IdOf(obj))]
       ELSE rs[n]

\* The records after one turn of extract_ttp's inner loop.
LEMMA RecordsAfterMatch ==
  ASSUME IntelTypes, LeftToDo, NEW j \in DOMAIN TechniqueOrder, Extractors!MatchTechnique(j),
         NEW obj, obj = Extractors!Current, NEW t, t = TechniqueOrder[j],
         NEW s, s = interaction[obj].session
  PROVE  /\ obj \in Interactions /\ t \in Taught /\ s \in Sessions
         /\ \/ Unrecorded(records, s, t) /\ records' = Append(records, FirstRecord(s, t, obj))
            \/ Rerecorded(records, records', s, t, obj)
<1>1. t \in matching /\ records' = Extractors!RecordTTP(obj, t)
  BY DEF Extractors!MatchTechnique
<1>2. list # <<>>
  BY <1>1 DEF LeftToDo
<1>3. Len(list) \in DOMAIN list
  BY <1>2, EmptySeq, LenProperties DEF IntelTypes
<1>4. obj \in Interactions /\ s \in Sessions
  BY <1>3, TurnIsKnown DEF Extractors!Current
<1>5. t \in Taught
  BY DEF Taught, Elems
<1>6. PICK same : same = {n \in DOMAIN records :
                            records[n].session = s /\ records[n].technique = t}
  OBVIOUS
<1>7. same = {n \in DOMAIN records : Extractors!SameTTP(records[n], s, t)}
  BY <1>6 DEF Extractors!SameTTP
<1>8. records' =
        IF same = {}
        THEN Append(records, [session |-> s, technique |-> t,
                              confidence |-> Strong(obj, t), sources |-> <<IdOf(obj)>>])
        ELSE [n \in DOMAIN records |->
                IF n \in same
                THEN [records[n] EXCEPT !.confidence = Extractors!Stronger(@, Strong(obj, t)),
                                        !.sources = Extractors!Sourced(@, IdOf(obj))]
                ELSE records[n]]
  BY <1>1, <1>7, Zenon DEF Extractors!RecordTTP, Strong, IdOf
<1>9. CASE same = {}
  <2>1. Unrecorded(records, s, t)
    BY <1>6, <1>9 DEF Unrecorded
  <2>. QED BY <1>4, <1>5, <1>8, <1>9, <2>1 DEF FirstRecord
<1>10. CASE same # {}
  <2>1. PICK m \in DOMAIN records : records[m].session = s /\ records[m].technique = t
    BY <1>6, <1>10
  <2>2. records' = [n \in DOMAIN records |->
                IF n \in same
                THEN [records[n] EXCEPT !.confidence = Extractors!Stronger(@, Strong(obj, t)),
                                        !.sources = Extractors!Sourced(@, IdOf(obj))]
                ELSE records[n]]
    BY <1>8, <1>10, Zenon
  <2>3. /\ DOMAIN records' = DOMAIN records
        /\ records' = [n \in DOMAIN records' |-> records'[n]]
    BY <2>2, Zenon
  <2>4. ASSUME NEW n \in DOMAIN records
        PROVE  records'[n] = IF records[n].session = s /\ records[n].technique = t
                      THEN [records[n] EXCEPT !.confidence = Extractors!Stronger(@, Strong(obj, t)),
                                              !.sources = Extractors!Sourced(@, IdOf(obj))]
                      ELSE records[n]
    BY <1>6, <2>2, Zenon
  <2>5. Rerecorded(records, records', s, t, obj)
    BY <2>1, <2>3, <2>4, Zenon DEF Rerecorded
  <2>. QED BY <1>4, <1>5, <2>5
<1>. QED BY <1>9, <1>10

\* One object more shows the technique t in the session s.
Grows(sh, sh2, s, t, obj) ==
  \A u \in Sessions, v \in Taught :
    sh2[u][v] = IF u = s /\ v = t THEN sh[u][v] \cup {obj} ELSE sh[u][v]

LEMMA RecordedFirst ==
  ASSUME IntelTypes, NEW rs \in Seq(TTPRecords), NEW sh, RecordsFit(rs, sh),
         NEW obj \in Interactions, NEW t \in Taught, NEW s \in Sessions,
         Unrecorded(rs, s, t), NEW q, q = FirstRecord(s, t, obj),
         NEW sh2, Grows(sh, sh2, s, t, obj)
  PROVE  Append(rs, q) \in Seq(TTPRecords) /\ RecordsFit(Append(rs, q), sh2)
<1>1. Strong(obj, t) \in Int
  BY StrengthIsInt
<1>2. q \in TTPRecords /\ q.session = s /\ q.technique = t
  BY <1>1, IdIsKnown DEF TTPRecords, FirstRecord
<1>3. PICK l \in Nat : l = Len(rs) /\ DOMAIN rs = 1 .. l
  BY LenProperties
<1>4. PICK rs2 : rs2 = Append(rs, q)
  OBVIOUS
<1>5. /\ rs2 \in Seq(TTPRecords)
      /\ DOMAIN rs2 = 1 .. l + 1
      /\ rs2[l + 1] = q
      /\ \A n \in 1 .. l : rs2[n] = rs[n]
  BY <1>2, <1>3, <1>4, AppendProperties, LenProperties
<1>6. \A m, n \in DOMAIN rs2 : SameKey(rs2[m], rs2[n]) => m = n
  BY <1>2, <1>3, <1>5 DEF RecordsFit, SameKey, Unrecorded
<1>7. sh[s][t] = {}
  BY DEF RecordsFit, Unrecorded
<1>8. ASSUME NEW n \in DOMAIN rs2
      PROVE  Supported(rs2[n], sh2[rs2[n].session][rs2[n].technique])
  <2>1. CASE n = l + 1
    <3>1. sh2[s][t] = {obj}
      BY <1>7 DEF Grows
    <3>2. Supported(q, {obj})
      BY <1>1, SupportedFirst DEF FirstRecord
    <3>3. rs2[n] = q /\ sh2[rs2[n].session][rs2[n].technique] = {obj}
      BY <1>2, <1>5, <2>1, <3>1
    <3>. QED BY <3>2, <3>3, Zenon
  <2>2. CASE n \in 1 .. l
    <3>1. PICK r \in TTPRecords : r = rs[n]
      BY <1>3, <2>2, ElementOfSeq
    <3>2. /\ rs2[n] = r
          /\ Supported(r, sh[r.session][r.technique])
          /\ ~(r.session = s /\ r.technique = t)
      BY <1>3, <1>5, <2>2, <3>1 DEF RecordsFit, Unrecorded
    <3>3. r.session \in Sessions /\ r.technique \in Taught
      BY DEF TTPRecords
    <3>4. sh2[r.session][r.technique] = sh[r.session][r.technique]
      BY <3>2, <3>3 DEF Grows
    <3>. QED BY <3>2, <3>4
  <2>. QED BY <1>5, <2>1, <2>2
<1>9. ASSUME NEW u \in Sessions, NEW v \in Taught, sh2[u][v] # {}
      PROVE  \E n \in DOMAIN rs2 : rs2[n].session = u /\ rs2[n].technique = v
  <2>1. CASE u = s /\ v = t
    BY <1>2, <1>5, <2>1
  <2>2. CASE ~(u = s /\ v = t)
    <3>1. sh[u][v] # {}
      BY <1>9, <2>2 DEF Grows
    <3>2. PICK n \in DOMAIN rs : rs[n].session = u /\ rs[n].technique = v
      BY <3>1 DEF RecordsFit
    <3>. QED BY <1>3, <1>5, <3>2
  <2>. QED BY <2>1, <2>2
<1>. QED BY <1>4, <1>5, <1>6, <1>8, <1>9 DEF RecordsFit

\* The records rs2 are those of rs, and fit sh2 one by one.
StillFit(rs, rs2, sh2) ==
  /\ DOMAIN rs2 = DOMAIN rs
  /\ rs2 = [n \in DOMAIN rs2 |-> rs2[n]]
  /\ \A n \in DOMAIN rs :
       /\ rs2[n] \in TTPRecords
       /\ SameKey(rs2[n], rs[n])
       /\ Supported(rs2[n], sh2[rs2[n].session][rs2[n].technique])

LEMMA RecordsKept ==
  ASSUME NEW rs \in Seq(TTPRecords), NEW sh, RecordsFit(rs, sh),
         NEW obj, NEW t \in Taught, NEW s \in Sessions,
         NEW m \in DOMAIN rs, rs[m].session = s, rs[m].technique = t,
         NEW sh2, Grows(sh, sh2, s, t, obj),
         NEW rs2, StillFit(rs, rs2, sh2)
  PROVE  rs2 \in Seq(TTPRecords) /\ RecordsFit(rs2, sh2)
<1>1. PICK l \in Nat : DOMAIN rs = 1 .. l
  BY LenProperties
<1>2. rs2 \in [1 .. l -> TTPRecords]
  BY <1>1 DEF StillFit
<1>3. rs2 \in Seq(TTPRecords)
  BY <1>1, <1>2
<1>4. \A n \in DOMAIN rs : rs2[n].session = rs[n].session /\ rs2[n].technique = rs[n].technique
  BY DEF SameKey, StillFit
<1>5. \A n, k \in DOMAIN rs2 : SameKey(rs2[n], rs2[k]) => n = k
  BY <1>4 DEF RecordsFit, SameKey, StillFit
<1>6. ASSUME NEW u \in Sessions, NEW v \in Taught, sh2[u][v] # {}
      PROVE  \E n \in DOMAIN rs2 : rs2[n].session = u /\ rs2[n].technique = v
  <2>1. CASE u = s /\ v = t
    BY <1>4, <2>1 DEF StillFit
  <2>2. CASE ~(u = s /\ v = t)
    <3>1. sh[u][v] # {}
      BY <1>6, <2>2 DEF Grows
    <3>2. PICK n \in DOMAIN rs : rs[n].session = u /\ rs[n].technique = v
      BY <3>1 DEF RecordsFit
    <3>. QED BY <1>4, <3>2 DEF StillFit
  <2>. QED BY <2>1, <2>2
<1>. QED BY <1>3, <1>5, <1>6 DEF RecordsFit, StillFit

\* Only interactions are shown.
ShowsKnown(sh) == \A u \in Sessions, v \in Taught : sh[u][v] \subseteq Interactions

LEMMA RecordedAgain ==
  ASSUME IntelTypes, NEW rs \in Seq(TTPRecords), NEW sh, RecordsFit(rs, sh), ShowsKnown(sh),
         NEW obj \in Interactions, NEW t \in Taught, NEW s \in Sessions,
         NEW rs2, Rerecorded(rs, rs2, s, t, obj),
         NEW sh2, Grows(sh, sh2, s, t, obj)
  PROVE  rs2 \in Seq(TTPRecords) /\ RecordsFit(rs2, sh2)
<1>1. PICK l \in Nat : l = Len(rs) /\ DOMAIN rs = 1 .. l
  BY LenProperties
<1>2. Strong(obj, t) \in Int
  BY StrengthIsInt
<1>3. ASSUME NEW n \in DOMAIN rs
      PROVE  /\ rs2[n] \in TTPRecords
             /\ SameKey(rs2[n], rs[n])
             /\ Supported(rs2[n], sh2[rs2[n].session][rs2[n].technique])
  <2>1. PICK r \in TTPRecords : r = rs[n]
    BY <1>1, ElementOfSeq
  <2>2. /\ r.session \in Sessions /\ r.technique \in Taught
        /\ r.confidence \in Int /\ r.sources \in Seq(LogIds)
        /\ Supported(r, sh[r.session][r.technique])
    BY <2>1 DEF TTPRecords, RecordsFit
  <2>3. CASE r.session = s /\ r.technique = t
    <3>1. PICK q : q = [r EXCEPT !.confidence = Extractors!Stronger(@, Strong(obj, t)),
                                 !.sources = Extractors!Sourced(@, IdOf(obj))]
      OBVIOUS
    <3>2. rs2[n] = q
      BY <2>1, <2>3, <3>1, Zenon DEF Rerecorded
    <3>3. Extractors!Stronger(r.confidence, Strong(obj, t)) \in Int
      <4>1. PICK a \in Int : a = r.confidence
        BY <2>2
      <4>2. Extractors!Stronger(a, Strong(obj, t)) = IF a <= Strong(obj, t) THEN Strong(obj, t) ELSE a
        BY <1>2, StrongerIs
      <4>. QED BY <1>2, <4>1, <4>2
    <3>4. Extractors!Sourced(r.sources, IdOf(obj)) \in Seq(LogIds)
      BY <2>2, AppendProperties, IdIsKnown DEF Extractors!Sourced
    <3>5. q \in TTPRecords /\ q.session = s /\ q.technique = t
      BY <2>2, <2>3, <3>1, <3>3, <3>4 DEF TTPRecords
    <3>6. Supported(q, sh[s][t] \cup {obj})
      BY <2>2, <2>3, <3>1, <3>5, SupportedMore, Zenon DEF ShowsKnown
    <3>7. sh2[s][t] = sh[s][t] \cup {obj}
      BY DEF Grows
    <3>. QED BY <2>1, <2>3, <3>2, <3>5, <3>6, <3>7 DEF SameKey
  <2>4. CASE ~(r.session = s /\ r.technique = t)
    <3>1. rs2[n] = r
      BY <2>1, <2>4, Zenon DEF Rerecorded
    <3>2. sh2[r.session][r.technique] = sh[r.session][r.technique]
      BY <2>2, <2>4 DEF Grows
    <3>3. sh2[rs2[n].session][rs2[n].technique] = sh[r.session][r.technique]
      BY <3>1, <3>2
    <3>4. Supported(rs2[n], sh2[rs2[n].session][rs2[n].technique])
      BY <2>2, <3>1, <3>3, Zenon
    <3>5. SameKey(rs2[n], rs[n])
      BY <2>1, <3>1 DEF SameKey
    <3>. QED BY <2>1, <3>1, <3>4, <3>5
  <2>. QED BY <2>3, <2>4
<1>4. StillFit(rs, rs2, sh2)
  BY <1>3, Zenon DEF StillFit, Rerecorded
<1>5. PICK m \in DOMAIN rs : rs[m].session = s /\ rs[m].technique = t
  BY Zenon DEF Rerecorded
<1>. QED BY <1>4, <1>5, RecordsKept

LEMMA RecordsStillCounted ==
  ASSUME interaction' = interaction, RecordsFit(records', Shown')
  PROVE  RecordsCounted'
<1>1. PICK rs, sh : rs = records' /\ sh = Shown'
  OBVIOUS
<1>2. ASSUME NEW r, NEW S, Supported(r, S) PROVE Supported(r, S)'
  <2>1. IdsOf(S)' = IdsOf(S)
    BY DEF IdsOf, IdOf
  <2>2. \A obj, t : Strong(obj, t)' = Strong(obj, t)
    BY DEF Strong
  <2>. QED BY <1>2, <2>1, <2>2 DEF Supported
<1>3. RecordsFit(rs, sh)'
  BY <1>1, <1>2 DEF RecordsFit
<1>. QED BY <1>1, <1>3 DEF RecordsCounted

LEMMA ShownAreKnown ==
  ASSUME IntelTypes, NEW s, NEW t PROVE Shows(s, t) \subseteq Interactions
BY TurnIsKnown DEF Shows, Extractors!Shows

LEMMA TakeKeepsRecords ==
  ASSUME IntelTypes, RecordsCounted, NEW obj \in Interactions, Extractors!Take(obj)
  PROVE  RecordsCounted'
<1>1. interaction' = interaction /\ records' = records
  BY DEF Extractors!Take
<1>2. \A s, t : Shows(s, t)' = Shows(s, t)
  BY ShownAfterTake
<1>3. Shown' = Shown
  BY <1>2 DEF Shown
<1>4. RecordsFit(records', Shown')
  BY <1>1, <1>3 DEF RecordsCounted
<1>. QED BY <1>1, <1>4, RecordsStillCounted

LEMMA MatchKeepsRecords ==
  ASSUME IntelTypes, LeftToDo, RecordsCounted,
         NEW j \in DOMAIN TechniqueOrder, Extractors!MatchTechnique(j)
  PROVE  records' \in Seq(TTPRecords) /\ RecordsCounted'
<1>1. PICK obj : obj = Extractors!Current
  OBVIOUS
<1>2. PICK t : t = TechniqueOrder[j]
  OBVIOUS
<1>3. PICK s : s = interaction[obj].session
  OBVIOUS
<1>4. interaction' = interaction
  BY DEF Extractors!MatchTechnique
<1>5. PICK sh, sh2 : sh = Shown /\ sh2 = Shown'
  OBVIOUS
<1>6. Grows(sh, sh2, s, t, obj)
  <2>1. \A u, v : Shows(u, v)' = IF u = s /\ v = t THEN Shows(u, v) \cup {obj} ELSE Shows(u, v)
    BY <1>1, <1>2, <1>3, ShownAfterMatch
  <2>. QED BY <1>5, <2>1 DEF Grows, Shown
<1>7. ShowsKnown(sh)
  BY <1>5, ShownAreKnown DEF Shown, ShowsKnown
<1>8. records \in Seq(TTPRecords) /\ RecordsFit(records, sh)
  BY <1>5 DEF IntelTypes, RecordsCounted
<1>9. obj \in Interactions /\ t \in Taught /\ s \in Sessions
  BY <1>1, <1>2, <1>3, RecordsAfterMatch
<1>10. CASE Unrecorded(records, s, t) /\ records' = Append(records, FirstRecord(s, t, obj))
  <2>1. PICK q : q = FirstRecord(s, t, obj)
    OBVIOUS
  <2>2. PICK rs : rs = records
    OBVIOUS
  <2>3. Append(rs, q) \in Seq(TTPRecords) /\ RecordsFit(Append(rs, q), sh2)
    BY <1>6, <1>8, <1>9, <1>10, <2>1, <2>2, RecordedFirst
  <2>. QED BY <1>4, <1>5, <1>10, <2>1, <2>2, <2>3, RecordsStillCounted
<1>11. CASE Rerecorded(records, records', s, t, obj)
  <2>1. PICK rs, rs2 : rs = records /\ rs2 = records'
    OBVIOUS
  <2>2. rs2 \in Seq(TTPRecords) /\ RecordsFit(rs2, sh2)
    BY <1>6, <1>7, <1>8, <1>9, <1>11, <2>1, RecordedAgain
  <2>. QED BY <1>4, <1>5, <2>1, <2>2, RecordsStillCounted
<1>. QED BY <1>1, <1>2, <1>3, <1>10, <1>11, RecordsAfterMatch

\* The entry of an indicator met for the first time, and for another.
FirstEntry(f, at) ==
  [type |-> f.type, value |-> f.value, count |-> 1,
   confidence |-> Extractors!Initially[f.type], first |-> at, last |-> Extractors!Unseen]
OnceMore(e, at) ==
  [e EXCEPT !.count = @ + 1, !.confidence = Extractors!Raised(@),
            !.last = Extractors!Later(@, at)]

LEMMA InitiallyIs ==
  ASSUME NEW type \in Types
  PROVE  Extractors!Initially[type] \in 0 .. 100
BY DEF Extractors!Initially, Types

LEMMA CountedFirst ==
  ASSUME NEW f, f.type \in Types, NEW w, w[1] \in Int, NEW at, at = At(w)
  PROVE  Counts(FirstEntry(f, at), {w})
<1>1. PICK e : e = FirstEntry(f, at)
  OBVIOUS
<1>2. /\ e.type = f.type /\ e.count = 1 /\ e.first = at /\ e.last = Extractors!Unseen
      /\ e.confidence = Extractors!Initially[f.type]
  BY <1>1 DEF FirstEntry
<1>3. IsFiniteSet({w}) /\ Cardinality({w}) = 1
  BY FS_Singleton
<1>4. PICK a \in 0 .. 100 : a = Extractors!Initially[e.type]
  BY <1>2, InitiallyIs
<1>5. Extractors!Min({100, a}) = a
  BY LeastOfTwo
<1>6. Extractors!Initially[e.type] + 5 * (e.count - 1) = a
  BY <1>2, <1>4
<1>7. e.confidence = Extractors!Min({100, Extractors!Initially[e.type] + 5 * (e.count - 1)})
  BY <1>2, <1>4, <1>5, <1>6
<1>. QED BY <1>1, <1>2, <1>3, <1>7 DEF Counts

LEMMA CountedAgain ==
  ASSUME NEW e \in IOCRecords, NEW S, Counts(e, S), NEW w, w \notin S,
         \A v \in S : At(v) \in Nat /\ v[1] <= w[1],
         NEW at \in Nat, at = At(w)
  PROVE  Counts(OnceMore(e, at), S \cup {w})
<1>1. PICK q : q = OnceMore(e, at)
  OBVIOUS
<1>2. /\ e.type \in Types /\ e.count \in Nat /\ e.confidence \in Int /\ e.last \in Int
  BY DEF IOCRecords
<1>3. /\ q.type = e.type /\ q.count = e.count + 1 /\ q.first = e.first
      /\ q.confidence = Extractors!Raised(e.confidence)
      /\ q.last = Extractors!Later(e.last, at)
  BY <1>1 DEF OnceMore, IOCRecords
<1>4. IsFiniteSet(S \cup {w}) /\ Cardinality(S \cup {w}) = Cardinality(S) + 1
  BY FS_AddElement DEF Counts
<1>5. q.count = Cardinality(S \cup {w})
  BY <1>3, <1>4 DEF Counts
<1>6. q.confidence = Extractors!Min({100, Extractors!Initially[q.type] + 5 * (q.count - 1)})
  <2>1. PICK a \in 0 .. 100 : a = Extractors!Initially[e.type]
    BY <1>2, InitiallyIs
  <2>2. PICK c \in Nat : c = e.count
    BY <1>2
  <2>3. PICK b \in Int : b = e.confidence
    BY <1>2
  <2>4. b = Extractors!Min({100, a + 5 * (c - 1)})
    BY <2>1, <2>2, <2>3 DEF Counts
  <2>5. b = IF 100 <= a + 5 * (c - 1) THEN 100 ELSE a + 5 * (c - 1)
    BY <2>4, LeastOfTwo
  <2>6. Extractors!Raised(b) = IF 100 <= b + 5 THEN 100 ELSE b + 5
    BY LeastOfTwo DEF Extractors!Raised
  <2>7. Extractors!Min({100, a + 5 * c}) = IF 100 <= a + 5 * c THEN 100 ELSE a + 5 * c
    BY LeastOfTwo
  <2>8. Extractors!Raised(b) = Extractors!Min({100, a + 5 * c})
    BY <2>5, <2>6, <2>7
  <2>9. Extractors!Initially[q.type] + 5 * (q.count - 1) = a + 5 * c
    BY <1>3, <2>1, <2>2
  <2>. QED BY <1>3, <2>3, <2>8, <2>9
<1>7. PICK v0 \in S : /\ \A v \in S : v0[1] <= v[1]
                      /\ e.first = At(v0)
                      /\ S = {v0} => e.last = Extractors!Unseen
                      /\ S # {v0} => \E v \in S \ {v0} : e.last = At(v)
                      /\ \A v \in S \ {v0} : At(v) <= e.last
  BY DEF Counts
<1>8. \A v \in S \cup {w} : v0[1] <= v[1]
  BY <1>7
<1>9. S \cup {w} # {v0}
  BY <1>7
<1>10. q.last = IF e.last = -1 \/ at > e.last THEN at ELSE e.last
  BY <1>3 DEF Extractors!Later, Extractors!Unseen
<1>11. /\ \E v \in (S \cup {w}) \ {v0} : q.last = At(v)
       /\ \A v \in (S \cup {w}) \ {v0} : At(v) <= q.last
  <2>1. CASE S = {v0}
    <3>1. q.last = at
      BY <1>7, <1>10, <2>1 DEF Extractors!Unseen
    <3>2. (S \cup {w}) \ {v0} = {w}
      BY <1>7, <2>1
    <3>. QED BY <3>1, <3>2
  <2>2. CASE S # {v0}
    <3>1. PICK v1 \in S \ {v0} : e.last = At(v1)
      BY <1>7, <2>2
    <3>2. PICK x \in Nat : x = e.last
      BY <3>1
    <3>3. q.last = IF at > x THEN at ELSE x
      BY <1>10, <3>2
    <3>4. \E v \in (S \cup {w}) \ {v0} : q.last = At(v)
      BY <1>7, <3>1, <3>2, <3>3
    <3>5. ASSUME NEW v \in (S \cup {w}) \ {v0} PROVE At(v) <= q.last
      <4>1. CASE v = w
        BY <3>3, <4>1
      <4>2. CASE v \in S \ {v0}
        <5>1. PICK y \in Nat : y = At(v)
          BY <4>2
        <5>2. y <= x
          BY <1>7, <3>2, <4>2, <5>1
        <5>3. y <= IF at > x THEN at ELSE x
          BY <5>2
        <5>. QED BY <3>3, <5>1, <5>3
      <4>. QED BY <4>1, <4>2
    <3>. QED BY <3>4, <3>5
  <2>. QED BY <2>1, <2>2
<1>. QED BY <1>1, <1>3, <1>4, <1>5, <1>6, <1>7, <1>8, <1>9, <1>11 DEF Counts

\* w is met after the meetings M, and M2 are all of them.
Joins(w, M, M2) ==
  /\ w \notin M /\ M2 = M \cup {w}
  /\ w[1] \in Int
  /\ \A v \in M2 : At(v) \in Times
  /\ \A v \in M : v[1] <= w[1]

Unmet(es, f) == \A n \in DOMAIN es : ~SameIOC(es[n], f)

\* In es2 the entry of f is met once more than in es.
MetAgain(es, es2, f, at) ==
  /\ \E n \in DOMAIN es : SameIOC(es[n], f)
  /\ DOMAIN es2 = DOMAIN es
  /\ es2 = [n \in DOMAIN es2 |-> es2[n]]
  /\ \A n \in DOMAIN es : es2[n] = IF SameIOC(es[n], f) THEN OnceMore(es[n], at) ELSE es[n]

LEMMA AlikeMore ==
  ASSUME NEW w, NEW M, NEW M2, Joins(w, M, M2), NEW e
  PROVE  Alike(e, M2) = IF SameIOC(e, IndicatorAt(w)) THEN Alike(e, M) \cup {w} ELSE Alike(e, M)
BY DEF Alike, Joins

LEMMA EntryFirst ==
  ASSUME NEW es \in Seq(IOCRecords), NEW M, EntriesFit(es, M),
         NEW w, NEW M2, Joins(w, M, M2),
         NEW f, f = IndicatorAt(w), f.type \in Types, f.value \in Values,
         Unmet(es, f), NEW q, q = FirstEntry(f, At(w))
  PROVE  Append(es, q) \in Seq(IOCRecords) /\ EntriesFit(Append(es, q), M2)
<1>1. At(w) \in Times /\ w[1] \in Int
  BY DEF Joins
<1>2. q \in IOCRecords /\ q.type = f.type /\ q.value = f.value
  <2>1. PICK at \in Times : at = At(w)
    BY <1>1
  <2>2. PICK c \in 0 .. 100 : c = Extractors!Initially[f.type]
    BY InitiallyIs
  <2>3. q = [type |-> f.type, value |-> f.value, count |-> 1,
             confidence |-> c, first |-> at, last |-> -1]
    BY <2>1, <2>2 DEF FirstEntry, Extractors!Unseen
  <2>4. c \in Int /\ -1 \in Int
    BY <2>2
  <2>. QED BY <2>3, <2>4 DEF IOCRecords
<1>3. PICK l \in Nat : l = Len(es) /\ DOMAIN es = 1 .. l
  BY LenProperties
<1>4. PICK es2 : es2 = Append(es, q)
  OBVIOUS
<1>5. /\ es2 \in Seq(IOCRecords)
      /\ DOMAIN es2 = 1 .. l + 1
      /\ es2[l + 1] = q
      /\ \A n \in 1 .. l : es2[n] = es[n]
  BY <1>2, <1>3, <1>4, AppendProperties, LenProperties
<1>6. \A m, n \in DOMAIN es2 : SameIOC(es2[m], es2[n]) => m = n
  BY <1>2, <1>3, <1>5 DEF EntriesFit, SameIOC, Unmet
<1>7. Alike(q, M2) = {w}
  <2>1. Alike(q, M) = {}
    <3>1. SUFFICES ASSUME NEW v \in M, SameIOC(q, IndicatorAt(v)) PROVE FALSE
      BY DEF Alike
    <3>2. PICK n \in DOMAIN es : SameIOC(es[n], IndicatorAt(v))
      BY DEF EntriesFit
    <3>. QED BY <1>2, <3>1, <3>2 DEF SameIOC, Unmet
  <2>. QED BY <1>2, <2>1, AlikeMore DEF SameIOC
<1>8. ASSUME NEW n \in DOMAIN es2 PROVE Counts(es2[n], Alike(es2[n], M2))
  <2>1. CASE n = l + 1
    <3>1. Counts(q, {w})
      BY <1>1, CountedFirst
    <3>2. es2[n] = q /\ Alike(es2[n], M2) = {w}
      BY <1>5, <1>7, <2>1
    <3>. QED BY <3>1, <3>2, Zenon
  <2>2. CASE n \in 1 .. l
    <3>1. PICK r : r = es[n]
      OBVIOUS
    <3>2. es2[n] = r /\ Counts(r, Alike(r, M)) /\ ~SameIOC(r, f)
      BY <1>3, <1>5, <2>2, <3>1 DEF EntriesFit, Unmet
    <3>3. Alike(r, M2) = Alike(r, M)
      BY <3>2, AlikeMore
    <3>. QED BY <3>2, <3>3, Zenon
  <2>. QED BY <1>5, <2>1, <2>2
<1>9. ASSUME NEW v \in M2 PROVE \E n \in DOMAIN es2 : SameIOC(es2[n], IndicatorAt(v))
  <2>1. CASE v = w
    BY <1>2, <1>5, <2>1 DEF SameIOC
  <2>2. CASE v \in M
    <3>1. PICK n \in DOMAIN es : SameIOC(es[n], IndicatorAt(v))
      BY <2>2 DEF EntriesFit
    <3>. QED BY <1>3, <1>5, <3>1
  <2>. QED BY <2>1, <2>2 DEF Joins
<1>. QED BY <1>4, <1>5, <1>6, <1>8, <1>9 DEF EntriesFit

LEMMA OnceMoreIs ==
  ASSUME NEW e \in IOCRecords, NEW at \in Times
  PROVE  OnceMore(e, at) \in IOCRecords /\ SameIOC(OnceMore(e, at), e)
<1>1. PICK q : q = OnceMore(e, at)
  OBVIOUS
<1>2. /\ e.type \in Types /\ e.value \in Values /\ e.count \in Nat
      /\ e.confidence \in Int /\ e.first \in Times /\ e.last \in Int
  BY DEF IOCRecords
<1>3. at \in Int
  BY IntelFacts
<1>4. Extractors!Later(e.last, at) \in Int
  BY <1>2, <1>3 DEF Extractors!Later
<1>5. Extractors!Raised(e.confidence) \in Int
  <2>1. PICK c \in Int : c = e.confidence
    BY <1>2
  <2>2. Extractors!Raised(c) = IF 100 <= c + 5 THEN 100 ELSE c + 5
    BY LeastOfTwo DEF Extractors!Raised
  <2>. QED BY <2>1, <2>2
<1>6. e.count + 1 \in Nat
  BY <1>2
<1>. QED BY <1>1, <1>2, <1>4, <1>5, <1>6 DEF OnceMore, IOCRecords, SameIOC

LEMMA EntryAgain ==
  ASSUME NEW es \in Seq(IOCRecords), NEW M, EntriesFit(es, M),
         NEW w, NEW M2, Joins(w, M, M2),
         NEW f, f = IndicatorAt(w), NEW at, at = At(w),
         NEW es2, MetAgain(es, es2, f, at)
  PROVE  es2 \in Seq(IOCRecords) /\ EntriesFit(es2, M2)
<1>1. PICK l \in Nat : l = Len(es) /\ DOMAIN es = 1 .. l
  BY LenProperties
<1>2. at \in Times /\ at \in Nat
  BY IntelFacts DEF Joins
<1>3. ASSUME NEW n \in DOMAIN es
      PROVE  /\ es2[n] \in IOCRecords
             /\ SameIOC(es2[n], es[n])
             /\ Counts(es2[n], Alike(es2[n], M2))
  <2>1. PICK r \in IOCRecords : r = es[n]
    BY <1>1, ElementOfSeq
  <2>2. Counts(r, Alike(r, M))
    BY <2>1 DEF EntriesFit
  <2>3. CASE SameIOC(r, f)
    <3>1. PICK q : q = OnceMore(r, at)
      OBVIOUS
    <3>2. es2[n] = q
      BY <2>1, <2>3, <3>1 DEF MetAgain
    <3>3. q \in IOCRecords /\ SameIOC(q, r)
      BY <1>2, <3>1, OnceMoreIs
    <3>4. PICK S : S = Alike(r, M)
      OBVIOUS
    <3>5. \A v \in S : At(v) \in Nat /\ v[1] <= w[1]
      BY <3>4, IntelFacts DEF Alike, Joins
    <3>6. w \notin S
      BY <3>4 DEF Alike, Joins
    <3>7. Counts(r, S)
      BY <2>2, <3>4
    <3>8. Counts(q, S \cup {w})
      BY <1>2, <3>1, <3>5, <3>6, <3>7, CountedAgain
    <3>9. Alike(r, M2) = S \cup {w}
      BY <2>3, <3>4, AlikeMore
    <3>10. Alike(q, M2) = Alike(r, M2)
      BY <3>3 DEF Alike, SameIOC
    <3>11. Counts(es2[n], Alike(es2[n], M2))
      BY <3>2, <3>8, <3>9, <3>10
    <3>. QED BY <2>1, <3>2, <3>3, <3>11
  <2>4. CASE ~SameIOC(r, f)
    <3>1. es2[n] = r
      BY <2>1, <2>4 DEF MetAgain
    <3>2. Alike(r, M2) = Alike(r, M)
      BY <2>4, AlikeMore
    <3>3. Counts(es2[n], Alike(es2[n], M2))
      BY <2>2, <3>1, <3>2, Zenon
    <3>4. SameIOC(es2[n], es[n])
      BY <2>1, <3>1 DEF SameIOC
    <3>. QED BY <2>1, <3>1, <3>3, <3>4
  <2>. QED BY <2>3, <2>4
<1>4. DOMAIN es2 = DOMAIN es /\ es2 = [n \in DOMAIN es2 |-> es2[n]]
  BY DEF MetAgain
<1>5. es2 \in Seq(IOCRecords)
  <2>1. es2 \in [1 .. l -> IOCRecords]
    BY <1>1, <1>3, <1>4
  <2>. QED BY <2>1
<1>6. \A m, n \in DOMAIN es2 : SameIOC(es2[m], es2[n]) => m = n
  BY <1>3, <1>4 DEF EntriesFit, SameIOC
<1>7. ASSUME NEW v \in M2 PROVE \E n \in DOMAIN es2 : SameIOC(es2[n], IndicatorAt(v))
  <2>1. CASE v = w
    <3>1. PICK n \in DOMAIN es : SameIOC(es[n], f)
      BY DEF MetAgain
    <3>. QED BY <1>3, <1>4, <2>1, <3>1 DEF SameIOC
  <2>2. CASE v \in M
    <3>1. PICK n \in DOMAIN es : SameIOC(es[n], IndicatorAt(v))
      BY <2>2 DEF EntriesFit
    <3>. QED BY <1>3, <1>4, <3>1 DEF SameIOC
  <2>. QED BY <2>1, <2>2 DEF Joins
<1>. QED BY <1>3, <1>4, <1>5, <1>6, <1>7 DEF EntriesFit

\* w is an indicator of a payload that is in the list.
IsPair(w) == w = <<w[1], w[2]>>
Extracted(k) == Extractors!ExtractAll(PayloadOf(k))

LEMMA MetIs ==
  \A w : w \in Met <=> /\ IsPair(w) /\ w[1] \in DOMAIN list /\ w[2] \in Extracted(w[1])
                       /\ ~(w[1] = Len(list) /\ w[2] \in meeting)
<1>1. \A k : Extracted(k) = Extractors!ExtractAll(Extractors!PayloadOf(k))
  BY DEF Extracted, PayloadOf, Extractors!PayloadOf
<1>2. Met = (UNION {{k} \X Extracted(k) : k \in DOMAIN list}) \ ({Len(list)} \X meeting)
  BY <1>1 DEF Met, Extractors!Met
<1>. QED BY <1>2 DEF IsPair

LEMMA MetAreKnown ==
  ASSUME IntelTypes, NEW w \in Met
  PROVE  /\ w[1] \in DOMAIN list /\ w[1] \in 1 .. Len(list)
         /\ At(w) \in Times
         /\ IndicatorAt(w).type \in Types
         /\ IndicatorAt(w).value \in Values
<1>1. PICK k, n : k = w[1] /\ n = w[2]
  OBVIOUS
<1>2. k \in DOMAIN list /\ n \in Extracted(k)
  BY <1>1, MetIs
<1>3. PICK p \in Payloads : p = PayloadOf(k)
  BY <1>2, TurnIsKnown
<1>4. n \in DOMAIN p.found
  BY <1>2, <1>3 DEF Extracted, Extractors!ExtractAll
<1>5. IndicatorAt(w) = p.found[n]
  BY <1>1, <1>3 DEF IndicatorAt
<1>6. p.found[n].value \in Values
  BY <1>4 DEF Values
<1>. QED BY <1>1, <1>2, <1>3, <1>4, <1>5, <1>6, TurnIsKnown, IntelFacts, LenProperties DEF At, IntelTypes

\* No indicator of a new turn has been met yet.
LEMMA MetAfterTake ==
  ASSUME IntelTypes, NEW obj \in Interactions, Extractors!Take(obj), iocs # Extractors!TypeError
  PROVE  /\ Met' = Met
         /\ \A w \in Met : At(w)' = At(w) /\ IndicatorAt(w)' = IndicatorAt(w)
<1>1. /\ meeting = {}
      /\ list' = Append(list, obj)
      /\ meeting' = Extractors!ExtractAll(interaction[obj].payload)
      /\ interaction' = interaction
  BY DEF Extractors!Take, Extractors!Between
<1>2. PICK l \in Nat : l = Len(list)
  BY LenProperties DEF IntelTypes
<1>3. /\ DOMAIN list = 1 .. l /\ DOMAIN list' = 1 .. l + 1 /\ Len(list') = l + 1
      /\ list'[l + 1] = obj /\ \A k \in 1 .. l : list'[k] = list[k]
  BY <1>1, <1>2, AppendProperties, LenProperties DEF IntelTypes
<1>4. \A k \in 1 .. l : PayloadOf(k)' = PayloadOf(k)
  BY <1>1, <1>3 DEF PayloadOf
<1>5. PayloadOf(l + 1)' = interaction[obj].payload
  BY <1>1, <1>3 DEF PayloadOf
<1>6. \A k \in 1 .. l : Extracted(k)' = Extracted(k)
  BY <1>4 DEF Extracted, Extractors!ExtractAll
<1>7. Extracted(l + 1)' = meeting'
  BY <1>1, <1>5 DEF Extracted, Extractors!ExtractAll
<1>8. \A w : w \in Met <=> IsPair(w) /\ w[1] \in 1 .. l /\ w[2] \in Extracted(w[1])
  BY <1>1, <1>3, MetIs
<1>9. \A w : w \in Met' <=>
        /\ IsPair(w) /\ w[1] \in 1 .. l + 1 /\ w[2] \in Extracted(w[1])'
        /\ ~(w[1] = l + 1 /\ w[2] \in meeting')
  <2>1. \A k : Extracted(k)' = Extractors!ExtractAll(Extractors!PayloadOf(k))'
    BY DEF Extracted, PayloadOf, Extractors!PayloadOf, Extractors!ExtractAll
  <2>2. Met' = (UNION {{k} \X Extracted(k)' : k \in DOMAIN list'}) \ ({Len(list')} \X meeting')
    BY <2>1 DEF Met, Extractors!Met
  <2>. QED BY <1>3, <2>2 DEF IsPair
<1>10. \A w : w \in Met' <=> w \in Met
  <2>1. TAKE w
  <2>2. CASE w[1] = l + 1
    BY <1>2, <1>7, <1>8, <1>9, <2>2
  <2>3. CASE w[1] # l + 1
    BY <1>2, <1>6, <1>8, <1>9, <2>3
  <2>. QED BY <2>2, <2>3
<1>11. ASSUME NEW w \in Met PROVE At(w)' = At(w) /\ IndicatorAt(w)' = IndicatorAt(w)
  <2>1. w[1] \in 1 .. l
    BY <1>2, MetAreKnown
  <2>. QED BY <1>1, <1>3, <1>4, <2>1 DEF At, IndicatorAt
<1>. QED BY <1>10, <1>11

\* One turn of generate_iocs' inner loop.
LEMMA MetAfterMeet ==
  ASSUME IntelTypes, LeftToDo, NEW n \in meeting, Extractors!MeetIndicator(n),
         NEW w, w = <<Len(list), n>>
  PROVE  /\ Joins(w, Met, Met')
         /\ Extractors!Current = list[w[1]]
         /\ interaction[Extractors!Current].payload.found[n] = IndicatorAt(w)
         /\ IndicatorAt(w).type \in Types /\ IndicatorAt(w).value \in Values
<1>1. meeting' = meeting \ {n} /\ list' = list /\ interaction' = interaction
  BY DEF Extractors!MeetIndicator
<1>2. PICK l \in Nat : l = Len(list) /\ DOMAIN list = 1 .. l
  BY LenProperties DEF IntelTypes
<1>3. list # <<>>
  BY DEF LeftToDo
<1>4. l \in 1 .. l
  BY <1>2, <1>3, EmptySeq DEF IntelTypes
<1>5. n \in Extracted(l)
  BY <1>2, <1>3 DEF LeftToDo, Extracted
<1>6. w[1] = l /\ w[2] = n /\ IsPair(w)
  BY <1>2 DEF IsPair
<1>7. \A v : v \in Met <=>
        /\ IsPair(v) /\ v[1] \in 1 .. l /\ v[2] \in Extracted(v[1])
        /\ ~(v[1] = l /\ v[2] \in meeting)
  BY <1>2, MetIs
<1>8. \A v : v \in Met' <=>
        /\ IsPair(v) /\ v[1] \in 1 .. l /\ v[2] \in Extracted(v[1])
        /\ ~(v[1] = l /\ v[2] \in meeting \ {n})
  <2>1. \A k : Extractors!ExtractAll(Extractors!PayloadOf(k))' = Extracted(k)
    BY <1>1 DEF Extracted, PayloadOf, Extractors!PayloadOf, Extractors!ExtractAll
  <2>2. Met' = (UNION {{k} \X Extracted(k) : k \in DOMAIN list}) \ ({l} \X (meeting \ {n}))
    BY <1>1, <1>2, <2>1 DEF Met, Extractors!Met
  <2>. QED BY <1>2, <2>2 DEF IsPair
<1>9. w \notin Met
  BY <1>6, <1>7
<1>10. w \in Met'
  BY <1>4, <1>5, <1>6, <1>8
<1>11. Met \subseteq Met'
  BY <1>7, <1>8
<1>12. Met' \subseteq Met \cup {w}
  <2>1. SUFFICES ASSUME NEW v \in Met', v \notin Met PROVE v = w
    OBVIOUS
  <2>2. IsPair(v) /\ v[1] = l /\ v[2] = n
    BY <1>7, <1>8, <2>1
  <2>. QED BY <1>6, <2>2 DEF IsPair
<1>13. ASSUME NEW v \in Met' PROVE At(v) \in Times
  <2>1. v[1] \in DOMAIN list
    BY <1>2, <1>8
  <2>. QED BY <2>1, TurnIsKnown DEF At
<1>14. \A v \in Met : v[1] <= w[1]
  BY <1>2, <1>6, MetAreKnown
<1>15. Joins(w, Met, Met')
  BY <1>6, <1>9, <1>10, <1>11, <1>12, <1>13, <1>14 DEF Joins
<1>16. /\ Extractors!Current = list[w[1]]
       /\ interaction[Extractors!Current].payload.found[n] = IndicatorAt(w)
  BY <1>2, <1>6 DEF Extractors!Current, IndicatorAt, PayloadOf
<1>17. IndicatorAt(w).type \in Types /\ IndicatorAt(w).value \in Values
  <2>1. PICK p \in Payloads : p = PayloadOf(l)
    BY <1>2, <1>4, TurnIsKnown
  <2>2. n \in DOMAIN p.found
    BY <1>5, <2>1 DEF Extracted, Extractors!ExtractAll
  <2>3. p.found[n].value \in Values
    BY <2>2 DEF Values
  <2>. QED BY <1>6, <2>1, <2>2, <2>3, IntelFacts DEF IndicatorAt
<1>. QED BY <1>15, <1>16, <1>17

LEMMA EntriesAfterMeet ==
  ASSUME IntelTypes, LeftToDo, NEW n \in meeting, Extractors!MeetIndicator(n),
         NEW w, w = <<Len(list), n>>, NEW f, f = IndicatorAt(w)
  PROVE  \/ Unmet(ioc_map, f) /\ ioc_map' = Append(ioc_map, FirstEntry(f, At(w)))
         \/ MetAgain(ioc_map, ioc_map', f, At(w))
<1>1. PICK at : at = At(w)
  OBVIOUS
<1>2. ioc_map' = Extractors!RecordIOC(Extractors!Current, f)
  BY MetAfterMeet DEF Extractors!MeetIndicator, Extractors!FoundNow
<1>3. interaction[Extractors!Current].at = at
  BY <1>1, MetAfterMeet DEF At
<1>4. PICK same : same = {m \in DOMAIN ioc_map : SameIOC(ioc_map[m], f)}
  OBVIOUS
<1>5. same = {m \in DOMAIN ioc_map : Extractors!SameIOC(ioc_map[m], f)}
  BY <1>4 DEF SameIOC, Extractors!SameIOC
<1>6. ioc_map' =
        IF same = {}
        THEN Append(ioc_map, FirstEntry(f, at))
        ELSE [m \in DOMAIN ioc_map |->
                IF m \in same THEN OnceMore(ioc_map[m], at) ELSE ioc_map[m]]
  BY <1>2, <1>3, <1>5, Zenon DEF Extractors!RecordIOC, FirstEntry, OnceMore
<1>7. CASE same = {}
  <2>1. Unmet(ioc_map, f)
    BY <1>4, <1>7 DEF Unmet
  <2>. QED BY <1>1, <1>6, <1>7, <2>1
<1>8. CASE same # {}
  <2>1. \E m \in DOMAIN ioc_map : SameIOC(ioc_map[m], f)
    BY <1>4, <1>8
  <2>2. ioc_map' = [m \in DOMAIN ioc_map |->
                      IF m \in same THEN OnceMore(ioc_map[m], at) ELSE ioc_map[m]]
    BY <1>6, <1>8
  <2>3. /\ DOMAIN ioc_map' = DOMAIN ioc_map
        /\ ioc_map' = [m \in DOMAIN ioc_map' |-> ioc_map'[m]]
    BY <2>2
  <2>4. \A m \in DOMAIN ioc_map :
          ioc_map'[m] = IF SameIOC(ioc_map[m], f) THEN OnceMore(ioc_map[m], at) ELSE ioc_map[m]
    BY <1>4, <2>2
  <2>5. MetAgain(ioc_map, ioc_map', f, at)
    BY <2>1, <2>3, <2>4 DEF MetAgain
  <2>. QED BY <1>1, <2>5
<1>. QED BY <1>7, <1>8

\* While the meetings stay where they are, so does what counts them.
LEMMA EntriesRigid ==
  ASSUME NEW es, NEW M, EntriesFit(es, M),
         \A w \in M : At(w)' = At(w) /\ IndicatorAt(w)' = IndicatorAt(w)
  PROVE  EntriesFit(es, M)'
<1>1. ASSUME NEW e PROVE Alike(e, M)' = Alike(e, M)
  BY DEF Alike
<1>2. ASSUME NEW e, NEW S, S \subseteq M, Counts(e, S) PROVE Counts(e, S)'
  BY <1>2 DEF Counts
<1>3. \A m, n \in DOMAIN es : SameIOC(es[m], es[n]) => m = n
  BY DEF EntriesFit
<1>4. ASSUME NEW n \in DOMAIN es PROVE Counts(es[n], Alike(es[n], M))'
  <2>1. PICK e, S : e = es[n] /\ S = Alike(es[n], M)
    OBVIOUS
  <2>2. S \subseteq M /\ Counts(e, S)
    BY <2>1 DEF EntriesFit, Alike
  <2>3. Counts(e, S)'
    BY <1>2, <2>2
  <2>4. Alike(es[n], M)' = S
    BY <1>1, <2>1
  <2>. QED BY <2>1, <2>3, <2>4 DEF Counts
<1>5. \A w \in M : \E n \in DOMAIN es : SameIOC(es[n], IndicatorAt(w)')
  BY DEF EntriesFit
<1>. QED BY <1>3, <1>4, <1>5 DEF EntriesFit

LEMMA EntriesStillCounted ==
  ASSUME list' = list, interaction' = interaction, EntriesFit(ioc_map', Met')
  PROVE  IndicatorsCounted'
<1>1. PICK es, M : es = ioc_map' /\ M = Met'
  OBVIOUS
<1>2. \A w : At(w)' = At(w) /\ IndicatorAt(w)' = IndicatorAt(w)
  BY DEF At, IndicatorAt, PayloadOf
<1>3. EntriesFit(es, M)'
  BY <1>1, <1>2, EntriesRigid
<1>. QED BY <1>1, <1>3 DEF IndicatorsCounted

LEMMA TakeKeepsEntries ==
  ASSUME IntelTypes, IndicatorsCounted, NEW obj \in Interactions, Extractors!Take(obj)
  PROVE  IndicatorsCounted'
<1>0. SUFFICES ASSUME iocs # Extractors!TypeError PROVE EntriesFit(ioc_map, Met)'
  BY DEF IndicatorsCounted, Extractors!Take
<1>1. ioc_map' = ioc_map
  BY DEF Extractors!Take
<1>2. PICK es, M : es = ioc_map /\ M = Met
  OBVIOUS
<1>3. Met' = M /\ \A w \in M : At(w)' = At(w) /\ IndicatorAt(w)' = IndicatorAt(w)
  BY <1>0, <1>2, MetAfterTake
<1>4. EntriesFit(es, M)
  BY <1>0, <1>2 DEF IndicatorsCounted
<1>5. EntriesFit(es, M)'
  BY <1>3, <1>4, EntriesRigid
<1>. QED BY <1>1, <1>2, <1>3, <1>5

LEMMA MatchKeepsEntries ==
  ASSUME IndicatorsCounted, NEW j \in DOMAIN TechniqueOrder, Extractors!MatchTechnique(j)
  PROVE  IndicatorsCounted'
<1>0. SUFFICES ASSUME iocs # Extractors!TypeError PROVE IndicatorsCounted'
  BY DEF IndicatorsCounted, Extractors!MatchTechnique
<1>1. list' = list /\ interaction' = interaction /\ meeting' = meeting /\ ioc_map' = ioc_map
  BY DEF Extractors!MatchTechnique
<1>2. Met' = Met
  BY <1>1 DEF Met, Extractors!Met, Extractors!PayloadOf, Extractors!ExtractAll
<1>3. EntriesFit(ioc_map', Met')
  BY <1>0, <1>1, <1>2 DEF IndicatorsCounted
<1>. QED BY <1>1, <1>3, EntriesStillCounted

LEMMA MeetKeepsEntries ==
  ASSUME IntelTypes, LeftToDo, IndicatorsCounted,
         NEW n \in meeting, Extractors!MeetIndicator(n)
  PROVE  ioc_map' \in Seq(IOCRecords) /\ IndicatorsCounted'
<1>1. list' = list /\ interaction' = interaction
  BY DEF Extractors!MeetIndicator
<1>2. PICK w : w = <<Len(list), n>>
  OBVIOUS
<1>3. PICK f : f = IndicatorAt(w)
  OBVIOUS
<1>4. PICK es, M, M2 : es = ioc_map /\ M = Met /\ M2 = Met'
  OBVIOUS
<1>5. Joins(w, M, M2) /\ f.type \in Types /\ f.value \in Values
  BY <1>2, <1>3, <1>4, MetAfterMeet
<1>6. es \in Seq(IOCRecords) /\ EntriesFit(es, M)
  <2>1. iocs # Extractors!TypeError
    BY DEF LeftToDo
  <2>. QED BY <1>4, <2>1 DEF IntelTypes, IndicatorsCounted
<1>7. PICK at : at = At(w)
  OBVIOUS
<1>8. CASE Unmet(ioc_map, f) /\ ioc_map' = Append(ioc_map, FirstEntry(f, at))
  <2>1. PICK q : q = FirstEntry(f, at)
    OBVIOUS
  <2>2. Append(es, q) \in Seq(IOCRecords) /\ EntriesFit(Append(es, q), M2)
    BY <1>3, <1>4, <1>5, <1>6, <1>7, <1>8, <2>1, EntryFirst
  <2>. QED BY <1>1, <1>4, <1>8, <2>1, <2>2, EntriesStillCounted
<1>9. CASE MetAgain(ioc_map, ioc_map', f, at)
  <2>1. PICK es2 : es2 = ioc_map'
    OBVIOUS
  <2>2. es2 \in Seq(IOCRecords) /\ EntriesFit(es2, M2)
    BY <1>3, <1>4, <1>5, <1>6, <1>7, <1>9, <2>1, EntryAgain
  <2>. QED BY <1>1, <1>4, <2>1, <2>2, EntriesStillCounted
<1>. QED BY <1>2, <1>3, <1>7, <1>8, <1>9, EntriesAfterMeet

LEMMA SameListKeepsRecords ==
  ASSUME RecordsCounted, list' = list, interaction' = interaction,
         matching' = matching, records' = records
  PROVE  RecordsCounted'
<1>2. \A s, t : Shows(s, t)' = Shows(s, t)
  BY DEF Shows, Extractors!Shows, Extractors!PayloadOf, Extractors!Matched
<1>3. Shown' = Shown
  BY <1>2 DEF Shown
<1>4. RecordsFit(records', Shown')
  BY <1>3 DEF RecordsCounted
<1>. QED BY <1>4, RecordsStillCounted

\* The entries of s can be put in an order of confidence.
Rankable(s) == /\ Len(s) \in Nat /\ DOMAIN s = 1 .. Len(s)
               /\ \A n \in DOMAIN s : s[n].confidence \in Int

Ahead(s, n) == {m \in DOMAIN s : Extractors!Before(s, m, n)}

LEMMA PlaceIs ==
  ASSUME NEW s, Rankable(s), NEW n \in DOMAIN s
  PROVE  /\ IsFiniteSet(Ahead(s, n)) /\ Cardinality(Ahead(s, n)) \in Nat
         /\ Extractors!Place(s, n) = 1 + Cardinality(Ahead(s, n))
         /\ Extractors!Place(s, n) \in 1 .. Len(s)
<1>1. PICK l \in Nat : l = Len(s) /\ DOMAIN s = 1 .. l
  BY Zenon DEF Rankable
<1>2. IsFiniteSet(1 .. l) /\ Cardinality(1 .. l) = l
  BY FS_Interval
<1>3. PICK rest : rest = (1 .. l) \ {n}
  OBVIOUS
<1>4. IsFiniteSet(rest) /\ Cardinality(rest) = l - 1
  BY <1>1, <1>2, <1>3, FS_RemoveElement
<1>5. PICK c \in Int : c = s[n].confidence
  BY DEF Rankable
<1>6. ~Extractors!Before(s, n, n)
  BY <1>1, <1>5 DEF Extractors!Before
<1>7. PICK A : A = Ahead(s, n)
  OBVIOUS
<1>8. A \in SUBSET rest
  BY <1>1, <1>3, <1>6, <1>7 DEF Ahead
<1>9. IsFiniteSet(A) /\ Cardinality(A) <= l - 1
  BY <1>4, <1>8, FS_Subset
<1>10. Cardinality(A) \in Nat
  BY <1>9, FS_CardinalityType
<1>11. Extractors!Cardinality(A) = Cardinality(A)
  BY DEF Extractors!Cardinality, Cardinality
<1>12. Extractors!Place(s, n) = 1 + Cardinality(A)
  BY <1>7, <1>11 DEF Extractors!Place, Ahead
<1>13. 1 + Cardinality(A) \in 1 .. l
  BY <1>9, <1>10
<1>. QED BY <1>1, <1>7, <1>9, <1>10, <1>12, <1>13

\* One of two entries is before the other, and has the lower place.
LEMMA PlacesDiffer ==
  ASSUME NEW s, Rankable(s), NEW m \in DOMAIN s, NEW n \in DOMAIN s
  PROVE  /\ m # n => Extractors!Before(s, m, n) \/ Extractors!Before(s, n, m)
         /\ Extractors!Before(s, m, n) => Extractors!Place(s, m) < Extractors!Place(s, n)
         /\ Extractors!Before(s, m, n) => s[m].confidence >= s[n].confidence
<1>1. PICK l \in Nat : DOMAIN s = 1 .. l
  BY DEF Rankable
<1>2. PICK a \in Int, b \in Int : a = s[m].confidence /\ b = s[n].confidence
  BY DEF Rankable
<1>3. m # n => Extractors!Before(s, m, n) \/ Extractors!Before(s, n, m)
  BY <1>1, <1>2 DEF Extractors!Before
<1>4. ASSUME Extractors!Before(s, m, n)
      PROVE  Extractors!Place(s, m) < Extractors!Place(s, n)
  <2>1. PICK A, B : A = Ahead(s, m) /\ B = Ahead(s, n)
    OBVIOUS
  <2>2. ASSUME NEW x \in A PROVE x \in B
    <3>1. x \in DOMAIN s /\ Extractors!Before(s, x, m)
      BY <2>1, <2>2 DEF Ahead
    <3>2. PICK c \in Int : c = s[x].confidence
      BY <3>1 DEF Rankable
    <3>3. x \in Int /\ m \in Int /\ n \in Int
      BY <1>1, <3>1
    <3>4. Extractors!Before(s, x, n)
      BY <1>2, <1>4, <3>1, <3>2, <3>3 DEF Extractors!Before
    <3>. QED BY <2>1, <3>1, <3>4 DEF Ahead
  <2>3. m \in B
    BY <1>4, <2>1 DEF Ahead
  <2>4. m \notin A
    <3>1. ~Extractors!Before(s, m, m)
      BY <1>1, <1>2 DEF Extractors!Before
    <3>. QED BY <2>1, <3>1 DEF Ahead
  <2>5. /\ IsFiniteSet(A) /\ Cardinality(A) \in Nat /\ IsFiniteSet(B) /\ Cardinality(B) \in Nat
        /\ Extractors!Place(s, m) = 1 + Cardinality(A)
        /\ Extractors!Place(s, n) = 1 + Cardinality(B)
    BY <2>1, PlaceIs
  <2>6. Cardinality(A \cup {m}) = Cardinality(A) + 1
    BY <2>4, <2>5, FS_AddElement
  <2>7. A \cup {m} \in SUBSET B
    BY <2>2, <2>3
  <2>8. Cardinality(A \cup {m}) <= Cardinality(B)
    BY <2>5, <2>7, FS_Subset
  <2>. QED BY <2>5, <2>6, <2>8
<1>5. Extractors!Before(s, m, n) => s[m].confidence >= s[n].confidence
  BY <1>2 DEF Extractors!Before
<1>. QED BY <1>3, <1>4, <1>5

\* Every place is that of some entry.
LEMMA PlacesAreTaken ==
  ASSUME NEW s, Rankable(s), NEW k \in DOMAIN s
  PROVE  \E n \in DOMAIN s : Extractors!Place(s, n) = k
<1>1. PICK l \in Nat : l = Len(s) /\ DOMAIN s = 1 .. l
  BY DEF Rankable
<1>2. SUFFICES ASSUME \A n \in 1 .. l : Extractors!Place(s, n) # k PROVE FALSE
  BY <1>1
<1>3. PICK rest : rest = (1 .. l) \ {k}
  OBVIOUS
<1>4. IsFiniteSet(1 .. l) /\ Cardinality(1 .. l) = l
  BY FS_Interval
<1>5. IsFiniteSet(rest) /\ Cardinality(rest) = l - 1
  BY <1>1, <1>3, <1>4, FS_RemoveElement
<1>6. PICK f : f = [n \in 1 .. l |-> Extractors!Place(s, n)]
  OBVIOUS
<1>7. f \in [1 .. l -> rest]
  <2>1. \A n \in 1 .. l : Extractors!Place(s, n) \in rest
    BY <1>1, <1>2, <1>3, PlaceIs
  <2>. QED BY <1>6, <2>1
<1>8. Cardinality(rest) < Cardinality(1 .. l)
  BY <1>4, <1>5
<1>9. PICK x, y \in 1 .. l : x # y /\ f[x] = f[y]
  BY <1>4, <1>5, <1>7, <1>8, FS_PigeonHole
<1>10. PICK p \in Int, q \in Int : p = Extractors!Place(s, x) /\ q = Extractors!Place(s, y)
  BY <1>1, PlaceIs
<1>11. p < q \/ q < p
  BY <1>1, <1>9, <1>10, PlacesDiffer
<1>. QED BY <1>6, <1>9, <1>10, <1>11

LEMMA RankedRanks ==
  ASSUME NEW s, Rankable(s)
  PROVE  Ranks(Extractors!Ranked(s), s)
<1>1. PICK l \in Nat : l = Len(s) /\ DOMAIN s = 1 .. l
  BY Zenon DEF Rankable
<1>2. PICK holder : holder = [k \in 1 .. l |-> CHOOSE n \in DOMAIN s : Extractors!Place(s, n) = k]
  OBVIOUS
<1>3. ASSUME NEW k \in 1 .. l
      PROVE  holder[k] \in 1 .. l /\ Extractors!Place(s, holder[k]) = k
  BY <1>1, <1>2, PlacesAreTaken
<1>4. PICK r : r = Extractors!Ranked(s)
  OBVIOUS
<1>5. DOMAIN r = 1 .. l /\ \A k \in 1 .. l : r[k] = s[holder[k]]
  BY <1>1, <1>2, <1>4 DEF Extractors!Ranked
<1>6. ASSUME NEW n \in 1 .. l PROVE \E k \in 1 .. l : holder[k] = n
  <2>1. PICK k \in 1 .. l : k = Extractors!Place(s, n)
    BY <1>1, PlaceIs
  <2>2. PICK h \in 1 .. l : h = holder[k]
    BY <1>3
  <2>3. Extractors!Place(s, h) = k
    BY <1>3, <2>2
  <2>4. h = n
    <3>1. ~(Extractors!Place(s, h) < Extractors!Place(s, n))
      BY <2>1, <2>3
    <3>2. ~(Extractors!Place(s, n) < Extractors!Place(s, h))
      BY <2>1, <2>3
    <3>. QED BY <1>1, <3>1, <3>2, PlacesDiffer
  <2>. QED BY <2>2, <2>4
<1>7. Elems(r) = Elems(s)
  <2>1. ASSUME NEW k \in 1 .. l PROVE r[k] \in Elems(s)
    <3>1. PICK h \in DOMAIN s : h = holder[k]
      BY <1>1, <1>3
    <3>2. r[k] = s[h]
      BY <1>5, <3>1
    <3>. QED BY <3>2 DEF Elems
  <2>2. ASSUME NEW n \in 1 .. l PROVE s[n] \in Elems(r)
    <3>1. PICK k \in DOMAIN r : holder[k] = n
      BY <1>5, <1>6
    <3>2. r[k] = s[n]
      BY <1>5, <3>1
    <3>. QED BY <3>2 DEF Elems
  <2>3. Elems(r) \subseteq Elems(s)
    BY <1>5, <2>1 DEF Elems
  <2>4. Elems(s) \subseteq Elems(r)
    BY <1>1, <2>2 DEF Elems
  <2>. QED BY <2>3, <2>4
<1>8. ASSUME NEW m \in 1 .. l, NEW n \in 1 .. l, m < n
      PROVE  r[m].confidence >= r[n].confidence
  <2>1. PICK g \in 1 .. l, h \in 1 .. l : g = holder[m] /\ h = holder[n]
    BY <1>3
  <2>2. Extractors!Place(s, g) = m /\ Extractors!Place(s, h) = n
    BY <1>3, <2>1
  <2>3. ~(Extractors!Place(s, h) < Extractors!Place(s, g))
    BY <1>8, <2>2
  <2>4. g # h
    BY <1>8, <2>2
  <2>5. Extractors!Before(s, g, h)
    BY <1>1, <2>3, <2>4, PlacesDiffer
  <2>6. s[g].confidence >= s[h].confidence
    BY <1>1, <2>5, PlacesDiffer
  <2>. QED BY <1>5, <2>1, <2>6
<1>9. Ranks(r, s)
  BY <1>5, <1>7, <1>8 DEF Ranks
<1>. QED BY <1>4, <1>9

LEMMA TTPsAreRankable ==
  ASSUME NEW rs \in Seq(TTPRecords) PROVE Rankable(rs)
<1>1. Len(rs) \in Nat /\ DOMAIN rs = 1 .. Len(rs)
  BY LenProperties
<1>2. \A n \in DOMAIN rs : rs[n] \in TTPRecords
  BY <1>1, ElementOfSeq
<1>3. \A r \in TTPRecords : r.confidence \in Int
  BY DEF TTPRecords
<1>. QED BY <1>1, <1>2, <1>3 DEF Rankable

LEMMA IOCsAreRankable ==
  ASSUME NEW es \in Seq(IOCRecords) PROVE Rankable(es)
<1>1. Len(es) \in Nat /\ DOMAIN es = 1 .. Len(es)
  BY LenProperties
<1>2. \A n \in DOMAIN es : es[n] \in IOCRecords
  BY <1>1, ElementOfSeq
<1>3. \A e \in IOCRecords : e.confidence \in Int
  BY DEF IOCRecords
<1>. QED BY <1>1, <1>2, <1>3 DEF Rankable

LEMMA IntelInvInit == Extractors!Init => IntelInv
<1>. SUFFICES ASSUME Extractors!Init PROVE IntelInv
  OBVIOUS
<1>1. /\ interaction \in [Interactions -> TurnRecords]
      /\ list = <<>> /\ matching = {} /\ meeting = {} /\ records = <<>> /\ ioc_map = <<>>
      /\ ~ttps.done /\ iocs # Extractors!TypeError
  BY DEF Extractors!Init, TurnRecords, Extractors!Unanswered, Extractors!TypeError
<1>2. \A s, t : Shows(s, t) = {}
  BY <1>1 DEF Shows, Extractors!Shows
<1>3. RecordsCounted
  <2>1. \A s \in Sessions, t \in Taught : Shown[s][t] = {}
    BY <1>2 DEF Shown
  <2>. QED BY <1>1, <2>1 DEF RecordsCounted, RecordsFit
<1>4. Met = {}
  BY <1>1, MetIs
<1>5. IndicatorsCounted
  BY <1>1, <1>4 DEF IndicatorsCounted, EntriesFit
<1>. QED BY <1>1, <1>3, <1>5 DEF IntelInv, IntelTypes, LeftToDo, MixedOnly, Answered

LEMMA TakeKeepsTypes ==
  ASSUME IntelTypes, NEW obj \in Interactions, Extractors!Take(obj)
  PROVE  IntelTypes' /\ LeftToDo'
<1>1. /\ list' = Append(list, obj)
      /\ matching' = Extractors!Matched(interaction[obj].payload)
      /\ meeting' \subseteq Extractors!ExtractAll(interaction[obj].payload)
      /\ iocs' = Extractors!TypeError => meeting' = {}
      /\ interaction' = interaction /\ records' = records /\ ioc_map' = ioc_map
  BY DEF Extractors!Take
<1>2. PICK l \in Nat : l = Len(list)
  BY LenProperties DEF IntelTypes
<1>3. list' \in Seq(Interactions) /\ Len(list') = l + 1 /\ list'[l + 1] = obj
  BY <1>1, <1>2, AppendProperties DEF IntelTypes
<1>4. PICK p : p = interaction[obj].payload
  OBVIOUS
<1>5. interaction'[list'[Len(list')]].payload = p
  BY <1>1, <1>3, <1>4
<1>6. list' # <<>>
  BY <1>3
<1>7. LeftToDo'
  BY <1>1, <1>4, <1>5, <1>6 DEF LeftToDo, PayloadOf, Extractors!Matched, Extractors!ExtractAll
<1>8. IntelTypes'
  BY <1>1, <1>3 DEF IntelTypes
<1>. QED BY <1>7, <1>8

LEMMA LessLeftToDo ==
  ASSUME LeftToDo, list' = list, interaction' = interaction,
         matching' \subseteq matching, meeting' \subseteq meeting,
         iocs' = Extractors!TypeError => meeting' = {}
  PROVE  LeftToDo'
<1>1. \A k : PayloadOf(k)' = PayloadOf(k)
  BY DEF PayloadOf
<1>. QED BY <1>1 DEF LeftToDo, Extractors!Matched, Extractors!ExtractAll

\* Report changes the answers only.
LEMMA RestKeepsCounts ==
  ASSUME RecordsCounted, IndicatorsCounted,
         UNCHANGED <<interaction, list, matching, meeting, records, ioc_map>>,
         iocs' # Extractors!TypeError => iocs # Extractors!TypeError
  PROVE  RecordsCounted' /\ IndicatorsCounted'
<1>1. \A s, t : Shows(s, t)' = Shows(s, t)
  BY DEF Shows, Extractors!Shows, Extractors!PayloadOf, Extractors!Matched
<1>2. Shown' = Shown
  BY <1>1 DEF Shown
<1>3. RecordsFit(records', Shown')
  BY <1>2 DEF RecordsCounted
<1>4. Met' = Met
  BY DEF Met, Extractors!Met, Extractors!PayloadOf, Extractors!ExtractAll
<1>5. iocs' # Extractors!TypeError => EntriesFit(ioc_map', Met')
  BY <1>4 DEF IndicatorsCounted
<1>6. IndicatorsCounted'
  BY <1>5, EntriesStillCounted DEF IndicatorsCounted
<1>. QED BY <1>3, <1>6, RecordsStillCounted

\* A list that mixes the times does so when it grows.
LEMMA MixedStays ==
  ASSUME IntelTypes, MixedOnly, interaction' = interaction,
         list' = list \/ \E obj \in Interactions : list' = Append(list, obj),
         iocs' = Extractors!TypeError => iocs = Extractors!TypeError
  PROVE  MixedOnly'
<1>1. SUFFICES ASSUME Extractors!Mixed PROVE Extractors!Mixed'
  BY DEF MixedOnly
<1>2. PICK j \in DOMAIN list, k \in DOMAIN list :
        interaction[list[j]].at \in Naive /\ interaction[list[k]].at \notin Naive
  BY <1>1 DEF Extractors!Mixed
<1>3. \A n \in DOMAIN list : n \in DOMAIN list' /\ list'[n] = list[n]
  <2>1. CASE list' = list
    BY <2>1
  <2>2. ASSUME NEW obj \in Interactions, list' = Append(list, obj)
        PROVE  \A n \in DOMAIN list : n \in DOMAIN list' /\ list'[n] = list[n]
    <3>1. PICK l \in Nat : l = Len(list) /\ DOMAIN list = 1 .. l
      BY LenProperties DEF IntelTypes
    <3>2. /\ list' \in Seq(Interactions) /\ Len(list') = l + 1
          /\ \A n \in 1 .. l : list'[n] = list[n]
      BY <2>2, <3>1, AppendProperties DEF IntelTypes
    <3>3. DOMAIN list' = 1 .. l + 1
      BY <3>2, LenProperties
    <3>. QED BY <3>1, <3>2, <3>3
  <2>. QED BY <2>1, <2>2
<1>4. j \in DOMAIN list' /\ k \in DOMAIN list' /\ list'[j] = list[j] /\ list'[k] = list[k]
  BY <1>3
<1>. QED BY <1>2, <1>4 DEF Extractors!Mixed

\* The comparison fails on two times of the list.
LEMMA UntimelyIsMixed ==
  ASSUME IntelTypes, LeftToDo, IndicatorsCounted, NEW n \in meeting, Extractors!MeetUntimely(n)
  PROVE  Extractors!Mixed
<1>1. PICK m \in DOMAIN ioc_map :
        ~Extractors!Comparable(ioc_map[m], interaction[Extractors!Current].at)
  BY DEF Extractors!MeetUntimely, Extractors!Untimely
<1>2. PICK e, S : e = ioc_map[m] /\ S = Alike(e, Met)
  OBVIOUS
<1>3. Counts(e, S)
  <2>1. iocs # Extractors!TypeError
    BY DEF LeftToDo
  <2>. QED BY <1>2, <2>1 DEF IndicatorsCounted, EntriesFit
<1>4. PICK now0 : now0 = interaction[Extractors!Current].at
  OBVIOUS
<1>5. e.last # Extractors!Unseen /\ ~(e.last \in Naive <=> now0 \in Naive)
  BY <1>1, <1>2, <1>4 DEF Extractors!Comparable
<1>6. PICK v \in S : e.last = At(v)
  BY <1>3, <1>5 DEF Counts
<1>7. v[1] \in DOMAIN list
  BY <1>2, <1>6, MetAreKnown DEF Alike
<1>8. Len(list) \in DOMAIN list /\ now0 = interaction[list[Len(list)]].at
  BY <1>4, EmptySeq, LenProperties DEF IntelTypes, LeftToDo, Extractors!Current
<1>9. e.last = interaction[list[v[1]]].at
  BY <1>6 DEF At
<1>. QED BY <1>5, <1>7, <1>8, <1>9 DEF Extractors!Mixed

LEMMA IntelInvNext ==
  ASSUME IntelInv, [Extractors!Next]_(Extractors!vars)
  PROVE  IntelInv'
<1>1. /\ IntelTypes /\ LeftToDo /\ RecordsCounted /\ IndicatorsCounted
      /\ MixedOnly /\ Answered
  BY DEF IntelInv
<1>2. CASE Extractors!Report
  <2>1. /\ UNCHANGED <<interaction, list, matching, meeting, records, ioc_map>>
        /\ matching = {} /\ meeting = {}
        /\ ttps'.sorted = Extractors!Ranked(records)
        /\ iocs = Extractors!TypeError => iocs' = iocs
        /\ iocs # Extractors!TypeError =>
             iocs' = [done |-> TRUE, sorted |-> Extractors!Ranked(ioc_map)]
    BY <1>2 DEF Extractors!Report, Extractors!Between
  <2>2. iocs' = Extractors!TypeError => iocs = Extractors!TypeError
    BY <2>1 DEF Extractors!TypeError
  <2>3. IntelTypes' /\ LeftToDo'
    BY <1>1, <2>1, LessLeftToDo DEF IntelTypes
  <2>4. MixedOnly'
    BY <1>1, <2>2, <2>1, MixedStays
  <2>5. RecordsCounted' /\ IndicatorsCounted'
    BY <1>1, <2>1, RestKeepsCounts
  <2>6. PICK rs, es : rs = records /\ es = ioc_map
    OBVIOUS
  <2>7. rs \in Seq(TTPRecords) /\ es \in Seq(IOCRecords)
    BY <1>1, <2>6 DEF IntelTypes
  <2>8. Ranks(Extractors!Ranked(rs), rs) /\ Ranks(Extractors!Ranked(es), es)
    BY <2>7, TTPsAreRankable, IOCsAreRankable, RankedRanks
  <2>9. /\ Ranks(ttps'.sorted, records')
        /\ iocs' # Extractors!TypeError => Ranks(iocs'.sorted, ioc_map')
    BY <2>1, <2>6, <2>8
  <2>10. Answered'
    BY <2>1, <2>9 DEF Answered, Ranks, Elems
  <2>. QED BY <2>3, <2>5, <2>10, <2>4 DEF IntelInv
<1>3. ASSUME NEW obj \in Interactions, Extractors!Take(obj)
      PROVE  IntelInv'
  <2>1. /\ ttps' = ttps /\ iocs' = iocs /\ ~ttps.done
        /\ interaction' = interaction /\ list' = Append(list, obj)
    BY <1>3 DEF Extractors!Take
  <2>2. IntelTypes' /\ LeftToDo' /\ RecordsCounted' /\ IndicatorsCounted'
    BY <1>1, <1>3, TakeKeepsTypes, TakeKeepsRecords, TakeKeepsEntries
  <2>3. MixedOnly'
    BY <1>1, <2>1, MixedStays
  <2>. QED BY <2>1, <2>2, <2>3 DEF IntelInv, Answered
<1>4. ASSUME NEW j \in DOMAIN TechniqueOrder, Extractors!MatchTechnique(j)
      PROVE  IntelInv'
  <2>1. /\ list' = list /\ interaction' = interaction /\ ioc_map' = ioc_map /\ ttps' = ttps
        /\ iocs' = iocs /\ matching' \subseteq matching /\ meeting' = meeting
        /\ matching # {}
    BY <1>4 DEF Extractors!MatchTechnique
  <2>2. ~ttps'.done
    BY <1>1, <2>1 DEF Answered
  <2>3. RecordsCounted' /\ records' \in Seq(TTPRecords)
    BY <1>1, <1>4, MatchKeepsRecords
  <2>4. IndicatorsCounted'
    BY <1>1, <1>4, MatchKeepsEntries
  <2>5. LeftToDo' /\ IntelTypes'
    BY <1>1, <2>1, <2>3, LessLeftToDo DEF IntelTypes, LeftToDo
  <2>6. MixedOnly'
    BY <1>1, <2>1, MixedStays
  <2>. QED BY <2>2, <2>3, <2>4, <2>5, <2>6 DEF IntelInv, Answered
<1>5. ASSUME NEW n \in meeting, Extractors!MeetIndicator(n)
      PROVE  IntelInv'
  <2>1. /\ list' = list /\ interaction' = interaction /\ records' = records /\ ttps' = ttps
        /\ iocs' = iocs /\ matching' = matching /\ meeting' \subseteq meeting
    BY <1>5 DEF Extractors!MeetIndicator
  <2>2. ~ttps'.done
    BY <1>1, <1>5, <2>1 DEF Answered
  <2>3. IndicatorsCounted' /\ ioc_map' \in Seq(IOCRecords)
    BY <1>1, <1>5, MeetKeepsEntries
  <2>4. RecordsCounted'
    BY <1>1, <2>1, SameListKeepsRecords
  <2>5. LeftToDo' /\ IntelTypes'
    <3>1. iocs' # Extractors!TypeError
      BY <1>1, <1>5, <2>1 DEF LeftToDo
    <3>. QED BY <1>1, <2>1, <2>3, <3>1, LessLeftToDo DEF IntelTypes
  <2>6. MixedOnly'
    BY <1>1, <2>1, MixedStays
  <2>. QED BY <2>2, <2>3, <2>4, <2>5, <2>6 DEF IntelInv, Answered
<1>6. ASSUME NEW n \in meeting, Extractors!MeetUntimely(n)
      PROVE  IntelInv'
  <2>1. /\ list' = list /\ interaction' = interaction /\ records' = records
        /\ ioc_map' = ioc_map /\ ttps' = ttps /\ matching' = matching
        /\ meeting' = {} /\ iocs' = Extractors!TypeError
    BY <1>6 DEF Extractors!MeetUntimely
  <2>2. ~ttps'.done
    BY <1>1, <1>6, <2>1 DEF Answered
  <2>3. IndicatorsCounted'
    BY <2>1 DEF IndicatorsCounted
  <2>4. RecordsCounted'
    BY <1>1, <2>1, SameListKeepsRecords
  <2>5. LeftToDo' /\ IntelTypes'
    BY <1>1, <2>1, LessLeftToDo DEF IntelTypes
  <2>6. MixedOnly'
    <3>1. Extractors!Mixed
      BY <1>1, <1>6, UntimelyIsMixed
    <3>. QED BY <2>1, <3>1 DEF MixedOnly, Extractors!Mixed
  <2>. QED BY <2>2, <2>3, <2>4, <2>5, <2>6 DEF IntelInv, Answered
<1>7. CASE UNCHANGED Extractors!vars
  <2>1. /\ UNCHANGED <<interaction, list, matching, meeting, records, ioc_map>>
        /\ ttps' = ttps /\ iocs' = iocs
    BY <1>7 DEF Extractors!vars
  <2>2. IntelTypes' /\ LeftToDo'
    BY <1>1, <2>1, LessLeftToDo DEF IntelTypes, LeftToDo
  <2>3. RecordsCounted' /\ IndicatorsCounted'
    BY <1>1, <2>1, RestKeepsCounts
  <2>4. MixedOnly'
    BY <1>1, <2>1, MixedStays
  <2>5. Answered'
    BY <1>1, <2>1, SMTT(30) DEF Answered, Ranks, Elems
  <2>. QED BY <2>2, <2>3, <2>5, <2>4 DEF IntelInv
<1>. QED BY <1>2, <1>3, <1>4, <1>5, <1>6, <1>7 DEF Extractors!Next

LEMMA IntelInvHolds ==
  ASSUME IntelInv
  PROVE  /\ Extractors!TechniquesAddUp
         /\ Extractors!IndicatorsAddUp
         /\ Extractors!AnswersAreRanked
<1>1. IntelTypes /\ RecordsCounted /\ IndicatorsCounted /\ MixedOnly /\ Answered
  BY DEF IntelInv
<1>2. \A s : Extractors!ToSet(s) = Elems(s)
  BY DEF Extractors!ToSet, Elems
<1>3. \A S : Extractors!Cardinality(S) = Cardinality(S)
  BY DEF Extractors!Cardinality, Cardinality
<1>4. ASSUME NEW s \in Sessions, NEW t \in Taught
      PROVE  Cardinality({n \in DOMAIN records :
                            records[n].session = s /\ records[n].technique = t})
               = (IF Shows(s, t) = {} THEN 0 ELSE 1)
  <2>1. PICK C : C = {n \in DOMAIN records :
                        records[n].session = s /\ records[n].technique = t}
    OBVIOUS
  <2>2. Shown[s][t] = Shows(s, t)
    BY DEF Shown
  <2>3. CASE Shows(s, t) = {}
    <3>1. C = {}
      <4>1. SUFFICES ASSUME NEW n \in C PROVE FALSE
        OBVIOUS
      <4>2. Supported(records[n], Shows(s, t))
        BY <1>1, <2>1, <2>2 DEF RecordsCounted, RecordsFit
      <4>. QED BY <2>3, <4>2 DEF Supported
    <3>2. Cardinality(C) = 0
      BY <3>1, FS_EmptySet, Zenon
    <3>. QED BY <2>1, <2>3, <3>2
  <2>4. CASE Shows(s, t) # {}
    <3>1. PICK n \in DOMAIN records : records[n].session = s /\ records[n].technique = t
      BY <1>1, <2>2, <2>4 DEF RecordsCounted, RecordsFit
    <3>2. C = {n}
      BY <1>1, <2>1, <3>1 DEF RecordsCounted, RecordsFit, SameKey
    <3>3. Cardinality(C) = 1
      BY <3>2, FS_Singleton
    <3>. QED BY <2>1, <2>4, <3>3
  <2>. QED BY <2>3, <2>4
<1>5. ASSUME NEW n \in DOMAIN records, NEW r, r = records[n]
      PROVE  /\ Extractors!ToSet(r.sources) = {interaction[obj].id :
                                  obj \in Extractors!Shows(r.session, r.technique)}
             /\ Extractors!IsInjective(r.sources)
             /\ r.confidence = Extractors!Max(
                  {Extractors!Strength(interaction[obj].payload.hits[r.technique]) :
                     obj \in Extractors!Shows(r.session, r.technique)})
  <2>1. r \in TTPRecords
    BY <1>1, <1>5, ElementOfSeq, LenProperties DEF IntelTypes
  <2>2. r.session \in Sessions /\ r.technique \in Taught /\ r.confidence \in Int
    BY <2>1 DEF TTPRecords
  <2>3. PICK S : S = Shows(r.session, r.technique)
    OBVIOUS
  <2>4. Supported(r, S)
    <3>1. Shown[r.session][r.technique] = S
      BY <2>2, <2>3 DEF Shown
    <3>2. Supported(r, Shown[r.session][r.technique])
      BY <1>1, <1>5 DEF RecordsCounted, RecordsFit
    <3>. QED BY <3>1, <3>2
  <2>5. S \subseteq Interactions
    BY <1>1, <2>3, ShownAreKnown
  <2>6. PICK T : T = {Strong(obj, r.technique) : obj \in S}
    OBVIOUS
  <2>7. T \subseteq Int
    BY <1>1, <2>2, <2>5, <2>6, StrengthIsInt
  <2>8. r.confidence \in T /\ \A y \in T : y <= r.confidence
    BY <2>4, <2>6 DEF Supported
  <2>9. Extractors!Max(T) = r.confidence
    BY <2>7, <2>8, LargestIs
  <2>10. /\ Extractors!ToSet(r.sources) = {interaction[obj].id : obj \in S}
         /\ Extractors!IsInjective(r.sources)
    BY <1>2, <2>4 DEF Supported, IdsOf, IdOf
  <2>11. T = {Extractors!Strength(interaction[obj].payload.hits[r.technique]) :
                obj \in S}
    BY <2>6 DEF Strong
  <2>. QED BY <2>3, <2>9, <2>10, <2>11 DEF Shows
<1>6. Extractors!TechniquesAddUp
  BY <1>2, <1>3, <1>4, <1>5 DEF Extractors!TechniquesAddUp, Shows, Taught, Elems
<1>7. ASSUME iocs # Extractors!TypeError, NEW w \in Met
      PROVE  Cardinality({n \in DOMAIN ioc_map : SameIOC(ioc_map[n], IndicatorAt(w))}) = 1
  <2>1. PICK C : C = {n \in DOMAIN ioc_map : SameIOC(ioc_map[n], IndicatorAt(w))}
    OBVIOUS
  <2>2. PICK n \in DOMAIN ioc_map : SameIOC(ioc_map[n], IndicatorAt(w))
    BY <1>1, <1>7 DEF IndicatorsCounted, EntriesFit
  <2>3. C = {n}
    BY <1>1, <1>7, <2>1, <2>2 DEF IndicatorsCounted, EntriesFit, SameIOC
  <2>. QED BY <2>1, <2>3, FS_Singleton
<1>8. ASSUME iocs # Extractors!TypeError, NEW n \in DOMAIN ioc_map, NEW e, e = ioc_map[n]
      PROVE  /\ e.count = Cardinality(MetAs(e))
             /\ e.confidence = Extractors!Min({100, Extractors!Initially[e.type]
                                                      + 5 * (e.count - 1)})
             /\ \E w \in MetAs(e) :
                  /\ \A v \in MetAs(e) : w[1] <= v[1]
                  /\ e.first = At(w)
                  /\ e.last = IF MetAs(e) = {w} THEN Extractors!Unseen
                              ELSE Extractors!Max({At(v) : v \in MetAs(e) \ {w}})
  <2>1. MetAs(e) = Alike(e, Met)
    BY DEF MetAs, Extractors!MetAs, Alike, Met, Extractors!SameIOC, SameIOC,
           IndicatorAt, PayloadOf, Extractors!PayloadOf
  <2>2. PICK S : S = MetAs(e)
    OBVIOUS
  <2>3. Counts(e, S)
    BY <1>1, <1>8, <2>1, <2>2 DEF IndicatorsCounted, EntriesFit
  <2>4. PICK w \in S : /\ \A v \in S : w[1] <= v[1]
                       /\ e.first = At(w)
                       /\ S = {w} => e.last = Extractors!Unseen
                       /\ S # {w} => \E v \in S \ {w} : e.last = At(v)
                       /\ \A v \in S \ {w} : At(v) <= e.last
    BY <2>3 DEF Counts
  <2>5. S \subseteq Met
    BY <2>1, <2>2 DEF Alike
  <2>6. e.last = IF S = {w} THEN Extractors!Unseen
                 ELSE Extractors!Max({At(v) : v \in S \ {w}})
    <3>1. CASE S = {w}
      BY <2>4, <3>1
    <3>2. CASE S # {w}
      <4>1. PICK T : T = {At(v) : v \in S \ {w}}
        OBVIOUS
      <4>2. T \subseteq Int
        <5>1. \A v \in S : At(v) \in Times
          BY <1>1, <2>5, MetAreKnown
        <5>2. Times \subseteq Int
          BY IntelFacts
        <5>. QED BY <4>1, <5>1, <5>2
      <4>3. e.last \in T /\ \A y \in T : y <= e.last
        BY <2>4, <3>2, <4>1
      <4>4. Extractors!Max(T) = e.last
        BY <4>2, <4>3, LargestIs
      <4>. QED BY <3>2, <4>1, <4>4
    <3>. QED BY <3>1, <3>2
  <2>. QED BY <2>2, <2>3, <2>4, <2>6 DEF Counts
<1>9. Extractors!IndicatorsAddUp
  <2>1. \A e, f : Extractors!SameIOC(e, f) <=> SameIOC(e, f)
    BY DEF Extractors!SameIOC, SameIOC
  <2>2. \A w : Extractors!At(w) = At(w) /\ Extractors!PayloadOf(w[1]).found[w[2]] = IndicatorAt(w)
    BY DEF Extractors!At, At, IndicatorAt, PayloadOf, Extractors!PayloadOf
  <2>3. ASSUME iocs # Extractors!TypeError
        PROVE  \A w \in Extractors!Met :
          Extractors!Cardinality({n \in DOMAIN ioc_map :
            Extractors!SameIOC(ioc_map[n], Extractors!PayloadOf(w[1]).found[w[2]])}) = 1
    BY <1>3, <1>7, <2>1, <2>2, <2>3 DEF Met
  <2>4. ASSUME iocs # Extractors!TypeError, NEW n \in DOMAIN ioc_map, NEW e, e = ioc_map[n]
        PROVE  /\ e.count = Extractors!Cardinality(Extractors!MetAs(e))
               /\ e.confidence = Extractors!Min({100, Extractors!Initially[e.type]
                                                        + 5 * (e.count - 1)})
               /\ \E w \in Extractors!MetAs(e) :
                    /\ \A v \in Extractors!MetAs(e) : w[1] <= v[1]
                    /\ e.first = Extractors!At(w)
                    /\ e.last = IF Extractors!MetAs(e) = {w} THEN Extractors!Unseen
                                ELSE Extractors!Max({Extractors!At(v) :
                                                      v \in Extractors!MetAs(e) \ {w}})
    <3>1. MetAs(e) = Extractors!MetAs(e) /\ Cardinality(MetAs(e)) = Extractors!Cardinality(MetAs(e))
      BY <1>3 DEF MetAs
    <3>2. PICK S : S = MetAs(e)
      OBVIOUS
    <3>3. PICK w \in S : /\ \A v \in S : w[1] <= v[1]
                         /\ e.first = At(w)
                         /\ e.last = IF S = {w} THEN Extractors!Unseen
                                     ELSE Extractors!Max({At(v) : v \in S \ {w}})
      <4>1. \E w \in MetAs(e) :
              /\ \A v \in MetAs(e) : w[1] <= v[1]
              /\ e.first = At(w)
              /\ e.last = IF MetAs(e) = {w} THEN Extractors!Unseen
                          ELSE Extractors!Max({At(v) : v \in MetAs(e) \ {w}})
        BY <1>8, <2>4, ZenonT(60)
      <4>. QED BY <3>2, <4>1, Zenon
    <3>4. {At(v) : v \in S \ {w}} = {Extractors!At(v) : v \in S \ {w}}
      BY <2>2
    <3>5. /\ e.first = Extractors!At(w)
          /\ e.last = IF S = {w} THEN Extractors!Unseen
                      ELSE Extractors!Max({Extractors!At(v) : v \in S \ {w}})
      BY <2>2, <3>3, <3>4
    <3>6. e.count = Cardinality(S)
      BY <1>8, <2>4, <3>2
    <3>7. e.confidence = Extractors!Min({100, Extractors!Initially[e.type] + 5 * (e.count - 1)})
      BY <1>8, <2>4
    <3>. QED BY <3>1, <3>2, <3>3, <3>5, <3>6, <3>7
  <2>5. iocs = Extractors!TypeError => Extractors!Mixed
    BY <1>1 DEF MixedOnly
  <2>. QED BY <2>3, <2>4, <2>5 DEF Extractors!IndicatorsAddUp
<1>10. Extractors!AnswersAreRanked
  BY <1>1, <1>2 DEF Extractors!AnswersAreRanked, Answered, Ranks
<1>. QED BY <1>6, <1>9, <1>10

-----------------------------------------------------------------------------
(* The components together: the invariant of each holds where it is the    *)
(* one that runs, for no other step touches its variables.                 *)

LEMMA OnlyTheUnitMoves ==
  ASSUME [Next]_vars
  PROVE  /\ unit' = unit
         /\ unit = "emulators" => [Emulators!Next]_(Emulators!vars)
         /\ unit = "sonar" => [Sonar!Next]_(Sonar!vars)
         /\ unit = "defense" => [Defense!Next]_(Defense!vars)
         /\ unit = "swarm" => [Swarm!Next]_(Swarm!vars)
         /\ unit = "armor" => [Armor!Next]_(Armor!vars)
         /\ unit = "records" => [Records!Next]_(Records!vars)
         /\ unit = "health" => [Health!Next]_(Health!vars)
         /\ unit = "mark" => [Mark!Next]_(Mark!vars)
         /\ unit = "intel" => [Extractors!Next]_(Extractors!vars)
<1>1. CASE Next
  <2>1. /\ unit' = unit
        /\ unit = "emulators" => Emulators!Next
        /\ unit = "sonar" => Sonar!Next
        /\ unit = "defense" => Defense!Next
        /\ unit = "swarm" => Swarm!Next
        /\ unit = "armor" => Armor!Next
        /\ unit = "records" => Records!Next
        /\ unit = "health" => Health!Next
        /\ unit = "mark" => Mark!Next
        /\ unit = "intel" => Extractors!Next
    BY <1>1 DEF Next, Alone
  <2>. QED BY <2>1
<1>2. CASE UNCHANGED vars
  <2>1. /\ unit' = unit
        /\ UNCHANGED <<emulatorsVars, sonarVars, defenseVars, swarmVars, armorVars,
                     recordsVars, healthVars, markVars, intelVars>>
    BY <1>2 DEF vars
  <2>2. UNCHANGED Emulators!vars
    BY <2>1 DEF emulatorsVars, Emulators!vars, Emulators!objects, Emulators!history
  <2>3. UNCHANGED Sonar!vars
    BY <2>1 DEF sonarVars, Sonar!vars
  <2>4. UNCHANGED Defense!vars
    BY <2>1 DEF defenseVars, Defense!vars
  <2>5. UNCHANGED Swarm!vars
    BY <2>1 DEF swarmVars, Swarm!vars
  <2>6. UNCHANGED Armor!vars
    BY <2>1 DEF armorVars, Armor!vars
  <2>7. UNCHANGED Health!vars
    BY <2>1 DEF healthVars, Health!vars
  <2>8. UNCHANGED Records!vars
    BY <2>1 DEF recordsVars, Records!vars
  <2>9. UNCHANGED Mark!vars
    BY <2>1 DEF markVars, Mark!vars
  <2>10. UNCHANGED Extractors!vars
    BY <2>1 DEF intelVars, Extractors!vars
  <2>. QED BY <2>1, <2>2, <2>3, <2>4, <2>5, <2>6, <2>7, <2>8, <2>9, <2>10
<1>. QED BY <1>1, <1>2

\* HealthChecker answers what its components did while it asked, and only its
\* caller can make it fail: for every set of components, every free space of
\* the disk and every number of changes while a check goes on (check_health,
\* _aggregate_status).
THEOREM HealthAnswersWereObserved == Spec => []HealthIsObserved
<1>. DEFINE Inv == unit = "health" => HealthInv
<1>1. Init => Inv
  BY HealthInvInit DEF Init
<1>2. Inv /\ [Next]_vars => Inv'
  BY OnlyTheUnitMoves, HealthInvNext
<1>3. Inv => HealthIsObserved
  BY HealthInvHolds DEF HealthIsObserved
<1>. QED BY <1>1, <1>2, <1>3, PTL DEF Spec

\* However many reports and indicators are submitted while the connection to
\* Centuria comes and goes, what was accepted is in the queue or in the
\* memory, once; and whatever logins and audit calls overlap, a token of
\* EmberArmorAdapter lasts its lifetime and the audit log has every event
\* whose details pass validation (submit_intelligence, _drain_queue,
\* authenticate, log_audit).
THEOREM AdaptersAreFaithful == Spec => []AdaptersKeepFaith
<1>. DEFINE Inv == (unit = "swarm" => SwarmInv) /\ (unit = "armor" => ArmorInv)
<1>1. Init => Inv
  BY SwarmInvInit, ArmorInvInit DEF Init
<1>2. Inv /\ [Next]_vars => Inv'
  BY OnlyTheUnitMoves, SwarmInvNext, ArmorInvNext
<1>3. Inv => AdaptersKeepFaith
  BY SwarmInvHolds, ArmorInvHolds DEF AdaptersKeepFaith
<1>. QED BY <1>1, <1>2, <1>3, PTL DEF Spec

\* What the emulators' two theorems rest on.
LEMMA EmulatorsKeepInv ==
  Spec => [](unit = "emulators" => EmulatorInv)
<1>. DEFINE Inv == unit = "emulators" => EmulatorInv
<1>1. Init => Inv
  BY EmulatorInvInit DEF Init
<1>2. Inv /\ [Next]_vars => Inv'
  BY OnlyTheUnitMoves, EmulatorInvNext
<1>. QED BY <1>1, <1>2, PTL DEF Spec

\* The door opens on exactly the attempt the code says, for every number of
\* connections that share sessions or addresses and every setting of
\* max_auth_attempts (SSHEmulator._handle_auth).
THEOREM DoorPolicyIsKept == Spec => []DoorPolicy
<1>1. (unit = "emulators" => EmulatorInv) => DoorPolicy
  BY EmulatorInvHolds DEF DoorPolicy
<1>. QED BY <1>1, EmulatorsKeepInv, PTL

\* Every command that can be decoded and every request that can be decoded and
\* parsed is logged, even if answering it fails, and can be attributed, for
\* every number of connections that share a session id (_log_command,
\* handle_connection, which raises on bytes that cannot be decoded and leaves
\* no trace of them).
THEOREM TrailIsKept == Spec => []TrailIsComplete
<1>1. (unit = "emulators" => EmulatorInv) => TrailIsComplete
  BY EmulatorInvHolds DEF TrailIsComplete
<1>. QED BY <1>1, EmulatorsKeepInv, PTL

\* The counters of SonarIntelligenceClient add up, its retries are bounded and
\* its novelty check says SAFE only of an answer, never of an error, for every
\* finite set of overlapping calls; an answer without text is such an answer
\* (_call_api, _parse_novelty_response).
THEOREM EveryCallIsAccountedFor ==
  ASSUME IsFiniteSet(Calls) PROVE Spec => []CallsAccountedFor
<1>. DEFINE Inv == unit = "sonar" => SonarInv
<1>1. Init => Inv
  BY SonarInvInit DEF Init
<1>2. Inv /\ [Next]_vars => Inv'
  BY OnlyTheUnitMoves, SonarInvNext
<1>3. Inv => CallsAccountedFor
  BY SonarInvHolds DEF CallsAccountedFor
<1>. QED BY <1>1, <1>2, <1>3, PTL DEF Spec

\* AdaptiveDefense's log explains who is isolated, shows as active only what
\* its time to live allows, and answers the risk ThreatScorer sees with what
\* that risk calls for, however long isolations, lifts and expiries go on
\* (update_posture, auto_segment, lift_segmentation, deploy_countermeasures).
THEOREM DefenseStaysOnRecord == Spec => []DefenseOnRecord
<1>. DEFINE Inv == unit = "defense" => DefenseInv
<1>1. Init => Inv
  BY DefenseInvInit DEF Init
<1>2. Inv /\ [Next]_vars => Inv'
  BY OnlyTheUnitMoves, DefenseInvNext
<1>3. Inv => DefenseOnRecord
  BY DefenseInvHolds DEF DefenseOnRecord
<1>. QED BY <1>1, <1>2, <1>3, PTL DEF Spec

\* InteractionLogger's ring and timelines tell one story however many calls
\* raise and however much the ring forgets, and a profile misses no command of
\* a timeline it was built from, stale or not (log_command, log_login,
\* get_session_timeline, fingerprint).
THEOREM RecordsStayInStep == Spec => []RecordsAgree
<1>. DEFINE Inv == unit = "records" => RecordsInv
<1>1. Init => Inv
  BY RecordsInvInit DEF Init
<1>2. Inv /\ [Next]_vars => Inv'
  BY OnlyTheUnitMoves, RecordsInvNext
<1>3. Inv => RecordsAgree
  BY RecordsInvHolds DEF RecordsAgree
<1>. QED BY <1>1, <1>2, <1>3, PTL DEF Spec

\* Whatever the payloads hold and however long the list, with interactions and
\* ids twice and in any order, every technique is counted up exactly, and every
\* indicator unless the list mixes timestamps with and without a zone, and the
\* answers rank all of them; and a watermark of any length is read back if and
\* only if its digits do not run together and the payload had none of its
\* characters (extract_ttp, generate_iocs, watermark_payload,
\* extract_watermark).
THEOREM ExtractionStaysExact == Spec => []ExtractionIsExact
<1>. DEFINE Inv == (unit = "intel" => IntelInv) /\ (unit = "mark" => MarkInv)
<1>1. Init => Inv
  BY IntelInvInit, MarkInvInit DEF Init
<1>2. Inv /\ [Next]_vars => Inv'
  BY OnlyTheUnitMoves, IntelInvNext, MarkInvNext
<1>3. Inv => ExtractionIsExact
  BY IntelInvHolds DEF MarkInv, ExtractionIsExact
<1>. QED BY <1>1, <1>2, <1>3, PTL DEF Spec

=============================================================================
