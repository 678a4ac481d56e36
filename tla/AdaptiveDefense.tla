--------------------------- MODULE AdaptiveDefense ---------------------------
(***************************************************************************)
(* swarm/adaptive_defense.py, class AdaptiveDefense, fed by ThreatScorer.  *)
(* Nothing is concurrent here: the log, the set of isolated addresses and  *)
(* the clock drift apart over a long sequence of legal calls.  WAF rules   *)
(* and the wording of actions are left out.                                *)
(***************************************************************************)
EXTENDS ThreatScorer

CONSTANTS
  IPs,
  DefaultTTLs,   \* values of the constructor's default_ttl, never validated
  AlertTTL,      \* 600 in the code
  Templates,     \* TTP_COUNTERMEASURES: technique -> ttl of its action
  Techniques,    \* the technique ids deploy_countermeasures is given
  Profiles,      \* what the scorer knows of an attacker, with the techniques
  MaxLog,        \* bound: entries of the log, lifts of an address
  MaxTime        \* bound: the clock

DefenseAssumption ==
  /\ DefaultTTLs \subseteq Int
  /\ AlertTTL \in Nat /\ Templates \in [DOMAIN Templates -> Nat]
  /\ MaxLog \in Nat /\ MaxTime \in Nat
  /\ \A p \in Profiles : Profiled(p.profile, p.ttps)

VARIABLES
  default_ttl,
  now,
  action_log,  \* sequence of [kind, target, expires]
  segmented    \* _segmented_ips

\* History: lifts of an address, isolations that raised, and what the latest
\* posture update was told and chose.
VARIABLES lifts, raised, posture

vars == <<default_ttl, now, action_log, segmented, lifts, raised, posture>>

Never == -1

Init ==
  /\ default_ttl \in DefaultTTLs
  /\ now = 0   \* when the module is imported
  /\ action_log = <<>>
  /\ segmented = {}
  /\ lifts = [ip \in IPs |-> 0]
  /\ raised = [ip \in IPs |-> 0]
  /\ posture = [risk |-> "LOW", overall |-> 0, targets |-> {}]

-----------------------------------------------------------------------------
(* A definition named X_Y is X with the slip Y in it; it is used only to    *)
(* confirm that a property notices the slip.                               *)

\* model_post_init: a time to live of 0 is for ever.
Expiry(created, ttl) == IF ttl > 0 THEN created + ttl ELSE Never

Action(kind, target, created, ttl) ==
  [kind |-> kind, target |-> target, ttl |-> ttl, expires |-> Expiry(created, ttl)]

\* DefenseAction(ttl=...) raises for a negative ttl (Field ge=0).
Valid(actions) == \A i \in DOMAIN actions : actions[i].ttl >= 0

\* The actions update_posture builds, in order.
When(condition, action) == IF condition THEN <<action>> ELSE <<>>

Chosen(score) ==
  When(score.overall >= 800, Action("quarantine", "all_traffic", now, default_ttl * 2))
  \o When(score.overall \in 600 .. 799, Action("honeytrap", "segments", now, default_ttl))
  \o When(score.overall \in 400 .. 599, Action("alert", "security_team", now, AlertTTL))
  \o When(score.sophistication >= 700, Action("honeytrap", "advanced", now, default_ttl * 2))
  \o When(score.persistence >= 600, Action("block_ip", "persistent", now, default_ttl * 4))

Room == Len(action_log) < MaxLog

\* All actions are built before one is logged.
UpdatePosture(p) ==
  LET score == ScoreThreat(p.profile, p.ttps)
      actions == Chosen(score)
  IN  /\ Room
      /\ Valid(actions)
      /\ action_log' = action_log \o actions
      /\ posture' = [risk |-> Risk(score.overall), overall |-> score.overall,
                     targets |-> {actions[i].target : i \in DOMAIN actions}]
      /\ UNCHANGED <<default_ttl, now, segmented, lifts, raised>>

\* auto_segment notes the address first: if the action cannot be built, the
\* address is isolated with nothing on record, and no later call makes up
\* for it.
Isolated_Expiring(ip) ==
  \E i \in DOMAIN action_log : action_log[i].target = ip /\ action_log[i].expires > now
Isolated(ip) == ip \in segmented

AutoSegment(ip) ==
  LET action == Action("segment", ip, now, default_ttl)
  IN  /\ Room
      /\ ~Isolated(ip)
      /\ segmented' = segmented \cup {ip}
      /\ IF Valid(<<action>>)
         THEN action_log' = Append(action_log, action) /\ UNCHANGED raised
         ELSE raised' = [raised EXCEPT ![ip] = @ + 1] /\ UNCHANGED action_log
      /\ UNCHANGED <<default_ttl, now, lifts, posture>>

\* lift_segmentation leaves the action in the log, active or not.
Lift(ip) ==
  /\ ip \in segmented
  /\ lifts[ip] < MaxLog
  /\ segmented' = segmented \ {ip}
  /\ lifts' = [lifts EXCEPT ![ip] = @ + 1]
  /\ UNCHANGED <<default_ttl, now, action_log, raised, posture>>

\* deploy_countermeasures: the copy gets a new created_at and keeps the
\* expires_at its template was given when the module was imported.  The kind
\* stands for the action_type of the template, whatever it is: the SEGMENT of
\* T1041 has a target that is no address, so it isolates and lifts nobody.
Copied_Fresh(technique) == Action("countermeasure", technique, now, Templates[technique])
Copied(technique) == Action("countermeasure", technique, 0, Templates[technique])

\* The alert for a technique without a template is returned, never logged.
Deploy(technique) ==
  /\ Room
  /\ technique \in DOMAIN Templates
  /\ action_log' = Append(action_log, Copied(technique))
  /\ UNCHANGED <<default_ttl, now, segmented, lifts, raised, posture>>

Tick ==
  /\ now < MaxTime
  /\ now' = now + 1
  /\ UNCHANGED <<default_ttl, action_log, segmented, lifts, raised, posture>>

Next ==
  \/ Tick
  \/ \E p \in Profiles : UpdatePosture(p)
  \/ \E ip \in IPs : AutoSegment(ip) \/ Lift(ip)
  \/ \E technique \in Techniques : Deploy(technique)

Spec == Init /\ [][Next]_vars

-----------------------------------------------------------------------------
(* Properties *)

\* get_active_actions
Active(action) == action.expires = Never \/ action.expires > now

Segments(ip) == {i \in DOMAIN action_log : action_log[i].kind = "segment" /\ action_log[i].target = ip}

\* The two records of an isolation agree, whatever the order of isolations,
\* lifts and expiries: the log holds one segment action for each time the
\* address was let go and one more while it is isolated, less those that
\* could not be built; none of them is renewed when its time is over.
IsolationOnRecord ==
  \A ip \in IPs :
    Cardinality(Segments(ip)) + raised[ip]
      = lifts[ip] + (IF ip \in segmented THEN 1 ELSE 0)

\* No countermeasure is active longer after the import than its ttl, however
\* late it was deployed (deploy_countermeasures copies expires_at): what is
\* reported active was decided when the process began.
CountermeasuresAgeFromImport ==
  \A i \in DOMAIN action_log :
    action_log[i].kind = "countermeasure" /\ Active(action_log[i]) =>
      now < Templates[action_log[i].target] \/ Templates[action_log[i].target] = 0

\* The scorer's risk levels and the defense's thresholds, written apart,
\* lead to the same response, but between 0.35 and 0.4, where a MEDIUM risk
\* gets no alert (_to_risk and update_posture).
ResponseMatchesRisk ==
  /\ posture.risk = "CRITICAL" <=> "all_traffic" \in posture.targets
  /\ posture.risk = "HIGH" <=> "segments" \in posture.targets
  /\ posture.risk = "MEDIUM" /\ posture.overall >= 400 <=> "security_team" \in posture.targets
  /\ posture.overall <= 1000

=============================================================================
