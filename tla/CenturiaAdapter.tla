--------------------------- MODULE CenturiaAdapter ---------------------------
(***************************************************************************)
(* swarm/centuria_adapter.py, class CenturiaAdapter: what becomes of the   *)
(* intelligence shared with the swarm while the connection comes and goes. *)
(* A call looks at the connection, sleeps, and then writes the shared      *)
(* memory.  No code registers a callback, so notifying subscribers does    *)
(* not suspend.                                                            *)
(***************************************************************************)
EXTENDS Integers, FiniteSets, FiniteSetsExt

CONSTANTS
  Reports,      \* ThreatIntel objects; each is submitted once
  Indicators,   \* IOC objects; each is broadcast once
  Addresses,    \* attacker_ip
  Scores,       \* threat_score
  MaxDrops      \* bound: disconnects

CenturiaAssumption == Scores \subseteq 0 .. 100 /\ MaxDrops \in Nat

VARIABLES
  subject,       \* ThreatIntel.attacker_ip, .threat_score
  connected,     \* _connected; _agents_online and _last_heartbeat follow it
  connecting,    \* connect() is asleep
  phase,         \* of a call: "new", "asleep", "accepted"
  queued_intel, queued_iocs,  \* sets: nothing takes an item out again
  memory         \* _collective_memory: ip -> [score, reports], {} if no key

\* History: disconnects, and the reports whose call slept.
VARIABLES drops, sent

vars == <<subject, connected, connecting, phase, queued_intel, queued_iocs,
          memory, drops, sent>>

Submissions == Reports \cup Indicators
Unknown == [score |-> -1, reports |-> {}]

Init ==
  /\ subject \in [Reports -> [ip : Addresses, score : Scores]]
  /\ connected = FALSE
  /\ connecting = FALSE
  /\ phase = [c \in Submissions |-> "new"]
  /\ queued_intel = {}
  /\ queued_iocs = {}
  /\ memory = [ip \in Addresses |-> Unknown]
  /\ drops = 0
  /\ sent = {}

-----------------------------------------------------------------------------
(* A definition named X_Y is X with the slip Y in it; it is used only to    *)
(* confirm that a property notices the slip.                               *)

Connect ==
  /\ ~connecting
  /\ connecting' = TRUE
  /\ UNCHANGED <<subject, connected, phase, queued_intel, queued_iocs, memory, drops, sent>>

\* What was queued stays queued.
Connected ==
  /\ connecting
  /\ connecting' = FALSE
  /\ connected' = TRUE
  /\ UNCHANGED <<subject, phase, queued_intel, queued_iocs, memory, drops, sent>>

\* A connect() that is asleep undoes a disconnect() when it wakes.
Disconnect ==
  /\ drops < MaxDrops
  /\ connected' = FALSE
  /\ drops' = drops + 1
  /\ UNCHANGED <<subject, connecting, phase, queued_intel, queued_iocs, memory, sent>>

\* submit_threat_intel and broadcast_ioc, up to the sleep.
Submit(c) ==
  /\ phase[c] = "new"
  /\ IF connected
     THEN /\ phase' = [phase EXCEPT ![c] = "asleep"]
          /\ sent' = sent \cup {c}
          /\ UNCHANGED <<queued_intel, queued_iocs>>
     ELSE /\ phase' = [phase EXCEPT ![c] = "accepted"]
          /\ queued_intel' = queued_intel \cup ({c} \cap Reports)
          /\ queued_iocs' = queued_iocs \cup ({c} \cap Indicators)
          /\ UNCHANGED sent
  /\ UNCHANGED <<subject, connected, connecting, memory, drops>>

Merged_Replaced(entry, r) == [score |-> subject[r].score, reports |-> {r}]
Merged(entry, r) ==
  [score |-> Max({entry.score, subject[r].score}), reports |-> entry.reports \cup {r}]

\* The sleep is over; the connection is not looked at again.
Arrive(c) ==
  /\ phase[c] = "asleep"
  /\ phase' = [phase EXCEPT ![c] = "accepted"]
  /\ memory' = IF c \in Reports
               THEN [memory EXCEPT ![subject[c].ip] = Merged(@, c)] ELSE memory
  /\ UNCHANGED <<subject, connected, connecting, queued_intel, queued_iocs, drops, sent>>

Next ==
  \/ Connect
  \/ Connected
  \/ Disconnect
  \/ \E c \in Submissions : Submit(c) \/ Arrive(c)

Spec == Init /\ [][Next]_vars

-----------------------------------------------------------------------------
(* Properties *)

Remembered == UNION {memory[ip].reports : ip \in Addresses}

\* "Queued, not lost": every report that was accepted is in the queue or in
\* the memory of its address, never in both, whatever the connection did
\* while its call slept; reports that overlap leave the highest score and
\* all their techniques.  The queue holds exactly what came while offline.
IntelAccounted ==
  /\ {r \in Reports : phase[r] = "accepted"} = queued_intel \cup Remembered
  /\ queued_intel \cap Remembered = {}
  /\ Remembered \subseteq sent /\ queued_intel \cap sent = {}
  /\ \A ip \in Addresses :
       /\ \A r \in memory[ip].reports : subject[r].ip = ip
       /\ memory[ip].reports # {} =>
            memory[ip].score = Max({subject[r].score : r \in memory[ip].reports})

=============================================================================
