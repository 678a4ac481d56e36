--------------------------- MODULE AttackerRecords ---------------------------
(***************************************************************************)
(* core/logger.py, class InteractionLogger, and core/profiler.py, class    *)
(* AttackerProfiler, as the pipeline of tests/test_integration.py joins    *)
(* them: the timeline of a session is fetched and then fingerprinted, with *)
(* other calls in between.  The methods are coroutines that never suspend, *)
(* so each is one step.                                                    *)
(***************************************************************************)
EXTENDS Integers, Sequences, FiniteSets, SequencesExt

CONSTANTS
  Sessions, IPs,
  Inputs,       \* what an attacker types
  MaxEntries,   \* max_entries
  MaxCalls      \* bound: calls of the two objects

RecordsAssumption == MaxEntries \in Nat /\ MaxCalls \in Nat

VARIABLES
  logs,       \* _logs: per session, for ever
  all_logs,   \* _all_logs, a deque of at most MaxEntries
  counters,   \* _sequence_counters
  fetched,    \* a timeline the caller holds: a copy
  profiles,   \* per address: the AttackerProfile, NoProfile if there is none
  calls

\* History: everything that was logged, the calls that raised, and the
\* timelines fingerprinted for an address.
VARIABLES everything, rejected, used

vars == <<logs, all_logs, counters, fetched, profiles, calls, everything, rejected, used>>

NoProfile == [sessions |-> 0, commands |-> 0, level |-> "none", score |-> 0]

Init ==
  /\ logs = [s \in Sessions |-> <<>>]
  /\ all_logs = <<>>
  /\ counters = [s \in Sessions |-> 0]
  /\ fetched = <<>>
  /\ profiles = [ip \in IPs |-> NoProfile]
  /\ calls = 0
  /\ everything = <<>>
  /\ rejected = [s \in Sessions |-> 0]
  /\ used = [ip \in IPs |-> <<>>]

-----------------------------------------------------------------------------
(* A definition named X_Y is X with the slip Y in it; it is used only to    *)
(* confirm that a property notices the slip.                               *)

Call == calls < MaxCalls /\ calls' = calls + 1

\* Append to a deque with maxlen.
Ring_Newest(entry) ==
  IF Len(all_logs) < MaxEntries THEN Append(all_logs, entry) ELSE all_logs
Ring(entry) ==
  LET longer == Append(all_logs, entry)
  IN  IF Len(longer) > MaxEntries THEN Tail(longer) ELSE longer

\* The number of an entry is taken before the entry is built.
Number_FromRing(s) == Len(SelectSeq(all_logs, LAMBDA e : e.session = s)) + 1
Number(s) == counters[s] + 1

\* log_command and log_login.
Log(s, input) ==
  LET entry == [session |-> s, number |-> Number(s), input |-> input]
  IN  /\ Call
      /\ counters' = [counters EXCEPT ![s] = @ + 1]
      /\ logs' = [logs EXCEPT ![s] = Append(@, entry)]
      /\ all_logs' = Ring(entry)
      /\ everything' = Append(everything, entry)
      /\ UNCHANGED <<fetched, profiles, rejected, used>>

\* An argument InteractionLog does not validate leaves a gap in the numbers.
LogRejected(s) ==
  /\ Call
  /\ counters' = [counters EXCEPT ![s] = @ + 1]
  /\ rejected' = [rejected EXCEPT ![s] = @ + 1]
  /\ UNCHANGED <<logs, all_logs, fetched, profiles, everything, used>>

\* get_session_timeline
Fetch(s) ==
  /\ Call
  /\ fetched' = logs[s]
  /\ UNCHANGED <<logs, all_logs, counters, profiles, everything, rejected, used>>

\* _classify_sophistication, of the interactions of this call alone.
Inputted(interactions) == {interactions[i].input : i \in DOMAIN interactions}
Level(interactions) ==
  IF "nmap" \in Inputted(interactions) THEN "intermediate"
  ELSE IF Inputted(interactions) \cap {"ls", "whoami", "id"} # {} THEN "script_kiddie"
  ELSE IF Cardinality(Inputted(interactions)) > 10 THEN "advanced" ELSE "automated"

\* _assess_intent: how many intents; no hint at all counts as one.
Intents(interactions) ==
  LET found == Inputted(interactions) \cap {"nmap", "curl", "ssh", "crontab"}
  IN  IF found = {} THEN 1 ELSE Cardinality(found)

\* _calculate_threat_score
Score(level, interactions) ==
  LET n == Len(interactions) * 5
  IN  (IF n < 40 THEN n ELSE 40)
      + (CASE level = "advanced" -> 30 [] level = "intermediate" -> 15 [] OTHER -> 0)
      + (IF Intents(interactions) > 1 THEN 10 ELSE 0)

CommandsAfter_Latest(profile, interactions) == Len(interactions)
CommandsAfter(profile, interactions) == profile.commands + Len(interactions)

\* fingerprint: a session profiled twice is two sessions, with every command
\* it had the first time counted again.
Fingerprint(ip) ==
  /\ Call
  /\ profiles' = [profiles EXCEPT ![ip] =
       [sessions |-> @.sessions + 1,
        commands |-> CommandsAfter(@, fetched),
        level |-> Level(fetched),
        score |-> Score(Level(fetched), fetched)]]
  /\ used' = [used EXCEPT ![ip] = Append(@, fetched)]
  /\ UNCHANGED <<logs, all_logs, counters, fetched, everything, rejected>>

Next ==
  \/ \E s \in Sessions :
       \/ \E input \in Inputs : Log(s, input)
       \/ LogRejected(s)
       \/ Fetch(s)
  \/ \E ip \in IPs : Fingerprint(ip)

Spec == Init /\ [][Next]_vars

-----------------------------------------------------------------------------
(* Properties *)

OfSession(entries, s) == {e \in ToSet(entries) : e.session = s}

\* The numbers of a session, in the order of the entries.
Rise(entries, s) ==
  \A j, k \in DOMAIN entries :
    j < k /\ entries[j].session = s /\ entries[k].session = s =>
      entries[j].number < entries[k].number

\* The bounded ring and the unbounded timelines tell one story: the ring is
\* the latest MaxEntries of everything logged, a timeline is everything of
\* its session in order, with numbers that only rise and skip only where a
\* call raised, even after the ring has dropped the start of the session.
LogsAgree ==
  /\ all_logs = SubSeq(everything, Len(everything) - Len(all_logs) + 1, Len(everything))
  /\ Len(all_logs) = (IF Len(everything) < MaxEntries THEN Len(everything) ELSE MaxEntries)
  /\ \A s \in Sessions :
       /\ ToSet(logs[s]) = OfSession(everything, s)
       /\ Rise(everything, s) /\ Rise(logs[s], s)
       /\ counters[s] = Len(logs[s]) + rejected[s]

\* A profile may count a command twice but never misses one: it has at least
\* as many as the longest of the timelines it was built from, in whatever
\* order old and new copies of a timeline were fingerprinted.
ProfileCovers ==
  \A ip \in IPs : \A i \in DOMAIN used[ip] :
    /\ profiles[ip].commands >= Len(used[ip][i])
    /\ profiles[ip].sessions >= i

=============================================================================
