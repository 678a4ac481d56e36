----------------------------- MODULE MCServices -----------------------------
(***************************************************************************)
(* Components that share no state: in each behaviour one of them, `unit',  *)
(* is running and the variables of the others are Off.  The run visits the *)
(* sum of their state spaces, not the product.                             *)
(***************************************************************************)
EXTENDS TLC, Integers, Sequences, FiniteSets

CONSTANTS
  Connections, Sessions, IPs, MaxAuthAttempts, EmulatorCalls,
  Calls, MaxRetries,
  AlertTTL, MaxLog,
  Reports, Indicators, Scores, MaxDrops,
  Logins, Events, Lifetime,
  Inputs, MaxEntries, RecordsCalls,
  Asked, Disk, FreePercents, MaxChanges,
  MarkLength,
  Interactions, LogIds, MaxInteractions, Times, Naive,
  MaxTime, Off

Commands ==
  {{"exact"}, {"cd"}, {"fetch"}, {"fetch", "no_host"}, {"exit"}, {"sudo", "exit"}, {"escape"}, {}}
Requests ==
  {{"malformed"}, {"admin"}, {"endpoint", "api_path"}, {"endpoint", "other_method"},
   {"login", "post"}, {"login"}, {"api_path"}, {"bait"}, {}}

DefaultTTLs == {-1, 0, 2}
Templates == [t \in {"T1110", "T1041"} |-> IF t = "T1110" THEN 1 ELSE 2]
Techniques == {"T1110", "T1041", "T9999"}

TTP(id, confidence) == [id |-> id, tactic |-> id, confidence |-> confidence]
Quiet == [level |-> "script_kiddie", intents |-> 0, sessions |-> 1, unique |-> 5, hours |-> 0,
          addresses |-> 1, correlated |-> 0, actors |-> 0, tools |-> 0]
Probe == [Quiet EXCEPT !.level = "intermediate"]
Busy == [Probe EXCEPT !.intents = 3, !.sessions = 8, !.unique = 40]
Able == [Busy EXCEPT !.level = "advanced", !.hours = 12, !.tools = 2]
Known == [Able EXCEPT !.level = "apt", !.addresses = 8, !.correlated = 3, !.actors = 2]
Dump == <<TTP("T1003", 90)>>
Chain == Dump \o <<TTP("T1021", 80), TTP("T1543", 60), TTP("T1547", 60)>>

\* A payload may have one character of zero width of its own before the mark,
\* and one after it.
Stray == {<<>>, <<0>>}

Profiles == [profile : {Quiet, Probe, Busy, Able, Known}, ttps : {<<>>, Dump, Chain}]

TechniqueOrder == <<"T1021", "T1003">>
Found(type, value) == [type |-> type, value |-> value]
Payload(t1021, t1003, found) ==
  [hits |-> [t \in {"T1021", "T1003"} |-> IF t = "T1021" THEN t1021 ELSE t1003], found |-> found]
Payloads ==
  {Payload(0, 2, <<Found("ip", <<172, 32>>), Found("hash", "h"), Found("ip", <<172, 32>>)>>),
   Payload(5, 1, <<Found("hash", "h"), Found("ip", <<172, 31>>), Found("hash", "h"), Found("cve", "c")>>),
   Payload(0, 0, <<Found("url", "u"), Found("domain", "filtered"), Found("domain", "d")>>)}

VARIABLES
  unit,
  session, source, user, running, stage, failed, commandLog, count, emulatorCalls,
  denials, opened, shutAgain, silent, asked, crashes,
  hasKey, closed, mode, phase, attempt, result,
  totalCalls, successfulCalls, failedCalls, ends,
  default_ttl, defenseNow, action_log, segmented, lifts, raised, posture,
  subject, connected, connecting, swarmPhase, queued_intel, queued_iocs, memory, drops, sent,
  api_key, now, token, attempts, enabled, audit_log, armorPhase, answer,
  began, answered, foundEnabled,
  logs, all_logs, counters, fetched, profiles, recordsCalls, everything, rejected, used,
  start_time, condition, free, healthPhase, found, overall, seen, changes, depthKnown,
  sig, stray, after, ex, i, starts, res, read,
  interaction, list, matching, meeting, records, ioc_map, ttps, iocs

Emulators == INSTANCE ServiceEmulator WITH MaxCalls <- EmulatorCalls, calls <- emulatorCalls
Sonar == INSTANCE SonarClient
Defense == INSTANCE AdaptiveDefense WITH now <- defenseNow
Swarm == INSTANCE CenturiaAdapter WITH Addresses <- IPs, phase <- swarmPhase
Armor == INSTANCE ArmorAdapter WITH phase <- armorPhase
Records == INSTANCE AttackerRecords WITH MaxCalls <- RecordsCalls, calls <- recordsCalls
Health == INSTANCE HealthChecker WITH phase <- healthPhase
Mark == INSTANCE Watermark WITH answer <- read
Extractors == INSTANCE IntelExtractors WITH SessionIds <- Sessions

ASSUME ServicesAssumption ==
  /\ Emulators!EmulatorAssumption
  /\ Sonar!SonarAssumption
  /\ Defense!DefenseAssumption
  /\ Swarm!CenturiaAssumption
  /\ Armor!ArmorAssumption
  /\ Records!RecordsAssumption
  /\ Health!HealthAssumption
  /\ Mark!WatermarkAssumption
  /\ Extractors!ExtractorsAssumption

emulatorsVars ==
  <<session, source, user, running, stage, failed, commandLog, count, emulatorCalls,
    denials, opened, shutAgain, silent, asked, crashes>>
sonarVars ==
  <<hasKey, closed, mode, phase, attempt, result, totalCalls, successfulCalls, failedCalls, ends>>
defenseVars == <<default_ttl, defenseNow, action_log, segmented, lifts, raised, posture>>
swarmVars ==
  <<subject, connected, connecting, swarmPhase, queued_intel, queued_iocs, memory, drops, sent>>
armorVars ==
  <<api_key, now, token, attempts, enabled, audit_log, armorPhase, answer,
    began, answered, foundEnabled>>
recordsVars ==
  <<logs, all_logs, counters, fetched, profiles, recordsCalls, everything, rejected, used>>
healthVars ==
  <<start_time, condition, free, healthPhase, found, overall, seen, changes, depthKnown>>
markVars == <<sig, stray, after, ex, i, starts, res, read>>
intelVars == <<interaction, list, matching, meeting, records, ioc_map, ttps, iocs>>

vars == <<unit, emulatorsVars, sonarVars, defenseVars, swarmVars, armorVars, recordsVars,
          healthVars, markVars, intelVars>>

EmulatorsOff ==
  /\ session = Off /\ source = Off /\ user = Off /\ running = Off /\ stage = Off
  /\ failed = Off /\ commandLog = Off /\ count = Off /\ emulatorCalls = Off
  /\ denials = Off /\ opened = Off /\ shutAgain = Off /\ silent = Off
  /\ asked = Off /\ crashes = Off

SonarOff ==
  /\ hasKey = Off /\ closed = Off /\ mode = Off /\ phase = Off /\ attempt = Off
  /\ result = Off /\ totalCalls = Off /\ successfulCalls = Off
  /\ failedCalls = Off /\ ends = Off

DefenseOff ==
  /\ default_ttl = Off /\ defenseNow = Off /\ action_log = Off /\ segmented = Off
  /\ lifts = Off /\ raised = Off /\ posture = Off

SwarmOff ==
  /\ subject = Off /\ connected = Off /\ connecting = Off /\ swarmPhase = Off
  /\ queued_intel = Off /\ queued_iocs = Off /\ memory = Off /\ drops = Off /\ sent = Off

ArmorOff ==
  /\ api_key = Off /\ now = Off /\ token = Off /\ attempts = Off /\ enabled = Off
  /\ audit_log = Off /\ armorPhase = Off /\ answer = Off
  /\ began = Off /\ answered = Off /\ foundEnabled = Off

RecordsOff ==
  /\ logs = Off /\ all_logs = Off /\ counters = Off /\ fetched = Off /\ profiles = Off
  /\ recordsCalls = Off /\ everything = Off /\ rejected = Off /\ used = Off

HealthOff ==
  /\ start_time = Off /\ condition = Off /\ free = Off /\ healthPhase = Off /\ found = Off
  /\ overall = Off /\ seen = Off /\ changes = Off /\ depthKnown = Off

MarkOff ==
  /\ sig = Off /\ stray = Off /\ after = Off /\ ex = Off /\ i = Off /\ starts = Off
  /\ res = Off /\ read = Off

IntelOff ==
  /\ interaction = Off /\ list = Off /\ matching = Off /\ meeting = Off
  /\ records = Off /\ ioc_map = Off /\ ttps = Off /\ iocs = Off

Units == {"emulators", "sonar", "defense", "swarm", "armor", "records", "health", "mark",
          "intel"}

Init ==
  /\ unit \in Units
  /\ IF unit = "emulators" THEN Emulators!Init ELSE EmulatorsOff
  /\ IF unit = "sonar" THEN Sonar!Init ELSE SonarOff
  /\ IF unit = "defense" THEN Defense!Init ELSE DefenseOff
  /\ IF unit = "swarm" THEN Swarm!Init ELSE SwarmOff
  /\ IF unit = "armor" THEN Armor!Init ELSE ArmorOff
  /\ IF unit = "records" THEN Records!Init ELSE RecordsOff
  /\ IF unit = "health" THEN Health!Init ELSE HealthOff
  /\ IF unit = "mark" THEN Mark!Init ELSE MarkOff
  /\ IF unit = "intel" THEN Extractors!Init ELSE IntelOff

\* Only component u moves.
Alone(u) ==
  /\ unit = u
  /\ IF u = "emulators" THEN TRUE ELSE UNCHANGED emulatorsVars
  /\ IF u = "sonar" THEN TRUE ELSE UNCHANGED sonarVars
  /\ IF u = "defense" THEN TRUE ELSE UNCHANGED defenseVars
  /\ IF u = "swarm" THEN TRUE ELSE UNCHANGED swarmVars
  /\ IF u = "armor" THEN TRUE ELSE UNCHANGED armorVars
  /\ IF u = "records" THEN TRUE ELSE UNCHANGED recordsVars
  /\ IF u = "health" THEN TRUE ELSE UNCHANGED healthVars
  /\ IF u = "mark" THEN TRUE ELSE UNCHANGED markVars
  /\ IF u = "intel" THEN TRUE ELSE UNCHANGED intelVars
  /\ UNCHANGED unit

Next ==
  \/ Alone("emulators") /\ Emulators!Next
  \/ Alone("sonar") /\ Sonar!Next
  \/ Alone("defense") /\ Defense!Next
  \/ Alone("swarm") /\ Swarm!Next
  \/ Alone("armor") /\ Armor!Next
  \/ Alone("records") /\ Records!Next
  \/ Alone("health") /\ Health!Next
  \/ Alone("mark") /\ Mark!Next
  \/ Alone("intel") /\ Extractors!Next

\* The fairness of SonarClient, where it is the component that runs.
Fairness ==
  \A c \in Calls :
    /\ WF_vars(Alone("sonar") /\ Sonar!Resolve(c))
    /\ WF_vars(Alone("sonar") /\ Sonar!Wake(c))

Spec == Init /\ [][Next]_vars /\ Fairness

-----------------------------------------------------------------------------
(* Properties *)

\* "Accept after N tries", over all the sessions an address opens
\* (SSHEmulator._handle_auth counts per address).
DoorPolicy == unit = "emulators" => Emulators!DoorPolicy

\* Every command and request that could be decoded and parsed is logged, even
\* if answering it failed, and the log can be attributed: whoever is in the
\* shell was admitted, or shares a session id with somebody who was
\* (_log_command; handle_connection raises on bytes that are not UTF-8).
TrailIsComplete == unit = "emulators" => Emulators!TrailExplained /\ Emulators!ForensicTrail

\* The counters of SonarIntelligenceClient add up while calls overlap; a call
\* retries transport errors only, at most MAX_RETRIES times, and a novelty
\* check says SAFE only of an answer: one that names neither other verdict, or
\* one without text (a known issue, src/README.md:65).
CallsAccountedFor ==
  unit = "sonar" =>
    Sonar!CallsAccountedFor /\ Sonar!RetryDiscipline /\ Sonar!SafeOnlyIfAnswered

\* Every call of SonarIntelligenceClient returns or is cancelled.
CallsEnd ==
  \A c \in Calls :
    (unit = "sonar" /\ phase[c] # "new") ~> (unit = "sonar" /\ phase[c] \in {"done", "cancelled"})

\* The log of AdaptiveDefense explains who is isolated, shows as active only
\* what its time to live allows, and matches the risk ThreatScorer sees.
DefenseOnRecord ==
  unit = "defense" =>
    /\ Defense!IsolationOnRecord
    /\ Defense!CountermeasuresAgeFromImport
    /\ Defense!ResponseMatchesRisk

\* Accepted intelligence is in the queue or in the memory of CenturiaAdapter;
\* EmberArmorAdapter's tokens last, and its audit log misses no event whose
\* details pass validation.
AdaptersKeepFaith ==
  /\ unit = "swarm" => Swarm!IntelAccounted
  /\ unit = "armor" => Armor!TokenLastsItsLifetime /\ Armor!AuditKept

\* InteractionLogger's two logs agree, and AttackerProfiler misses no command.
RecordsAgree == unit = "records" => Records!LogsAgree /\ Records!ProfileCovers

\* What TTPExtractor and IOCGenerator make of a list of interactions can be
\* counted up from the list, unless its timestamps mix those with and without
\* a zone; a watermark is read back exactly if its digits do not run together
\* and the payload had none of the characters it is made of (watermark_payload
\* and extract_watermark).
ExtractionIsExact ==
  /\ unit = "intel" =>
       Extractors!TechniquesAddUp /\ Extractors!IndicatorsAddUp /\ Extractors!AnswersAreRanked
  /\ unit = "mark" => Mark!MarkReadBack

\* HealthChecker answers what its components did while it asked, and only its
\* caller can make it fail.
HealthIsObserved == unit = "health" => Health!HealthIsObserved

=============================================================================
