---------------------------- MODULE ArmorAdapter ----------------------------
(***************************************************************************)
(* integration/ember_adapter.py, class EmberArmorAdapter: the token and    *)
(* the audit log.  authenticate and refresh_token sleep between looking at *)
(* the token and replacing it, log_audit_event between storing an entry    *)
(* and answering.  check_safety, generate_canary and get_health change     *)
(* nothing and are left out.                                               *)
(***************************************************************************)
EXTENDS Integers, Sequences, FiniteSets

CONSTANTS
  Logins,    \* calls of authenticate and refresh_token
  Events,    \* calls of log_audit_event
  Lifetime,  \* expires_in
  MaxTime    \* bound: the clock

ArmorAssumption ==
  /\ Lifetime \in Nat /\ MaxTime \in Nat
  /\ Logins \cap Events = {}

VARIABLES
  api_key,    \* bool(self.api_key)
  now,
  token,      \* when _token was issued, Nothing if there is none
  attempts,   \* _auth_attempts
  enabled,
  audit_log,
  phase,      \* of a call: "new", "asleep", "refreshing", "done"
  answer      \* of a call: what it returned

\* History: when a login began and when it was answered, and enabled as an
\* audit call found it.
VARIABLES began, answered, foundEnabled

vars == <<api_key, now, token, attempts, enabled, audit_log, phase, answer,
          began, answered, foundEnabled>>

AdapterCalls == Logins \cup Events
Nothing == -1

Init ==
  /\ api_key \in BOOLEAN
  /\ now = 0
  /\ token = Nothing
  /\ attempts = 0
  /\ enabled = TRUE
  /\ audit_log = <<>>
  /\ phase = [c \in AdapterCalls |-> "new"]
  /\ answer = [c \in AdapterCalls |-> "none"]
  /\ began = [c \in Logins |-> Nothing]
  /\ answered = [c \in Logins |-> Nothing]
  /\ foundEnabled = [e \in Events |-> FALSE]

-----------------------------------------------------------------------------
(* A definition named X_Y is X with the slip Y in it; it is used only to    *)
(* confirm that a property notices the slip.                               *)

Begin(c, next) ==
  /\ phase[c] = "new"
  /\ phase' = [phase EXCEPT ![c] = next]

BeginLogin(c, next) ==
  /\ Begin(c, next)
  /\ began' = [began EXCEPT ![c] = now]
  /\ UNCHANGED <<api_key, now, token, attempts, enabled, audit_log, answer,
                 answered, foundEnabled>>

\* authenticate; refresh_token comes here, too, when there is no token.
Authenticate(c) == BeginLogin(c, IF api_key THEN "asleep" ELSE "done")

Refresh(c) == token # Nothing /\ BeginLogin(c, "refreshing")

\* issued_at is read after the sleep: of two calls that overlap, the one that
\* wakes last leaves the newer token.
IssuedAt_BeforeSleep(c) == began[c]
IssuedAt(c) == now

Issue(c) ==
  /\ phase[c] \in {"asleep", "refreshing"}
  /\ phase' = [phase EXCEPT ![c] = "done"]
  /\ token' = IssuedAt(c)
  /\ answer' = [answer EXCEPT ![c] = "token"]
  /\ attempts' = IF phase[c] = "asleep" THEN attempts + 1 ELSE attempts
  /\ answered' = [answered EXCEPT ![c] = now]
  /\ UNCHANGED <<api_key, now, enabled, audit_log, began, foundEnabled>>

\* The entry is stored before the circuit breaker is looked at.
Kept_OnlyEnabled(e) == IF enabled THEN Append(audit_log, e) ELSE audit_log
Kept(e) == Append(audit_log, e)

\* AuditEntry validates what the details say of severity, user_id and
\* session_id before anything is stored: a user_id that is a UUID, say, makes
\* log_audit_event raise.
RejectAudit(e) ==
  /\ Begin(e, "done")
  /\ answer' = [answer EXCEPT ![e] = "raised"]
  /\ UNCHANGED <<api_key, now, token, attempts, enabled, audit_log,
                 began, answered, foundEnabled>>

LogAudit(e) ==
  /\ Begin(e, IF enabled THEN "asleep" ELSE "done")
  /\ foundEnabled' = [foundEnabled EXCEPT ![e] = enabled]
  /\ audit_log' = Kept(e)
  /\ answer' = IF enabled THEN answer ELSE [answer EXCEPT ![e] = "false"]
  /\ UNCHANGED <<api_key, now, token, attempts, enabled, began, answered>>

Logged(e) ==
  /\ phase[e] = "asleep"
  /\ phase' = [phase EXCEPT ![e] = "done"]
  /\ answer' = [answer EXCEPT ![e] = "true"]
  /\ UNCHANGED <<api_key, now, token, attempts, enabled, audit_log,
                 began, answered, foundEnabled>>

\* disable and enable
Switch ==
  /\ enabled' = ~enabled
  /\ UNCHANGED <<api_key, now, token, attempts, audit_log, phase, answer,
                 began, answered, foundEnabled>>

Tick ==
  /\ now < MaxTime
  /\ now' = now + 1
  /\ UNCHANGED <<api_key, token, attempts, enabled, audit_log, phase, answer,
                 began, answered, foundEnabled>>

Next ==
  \/ Switch
  \/ Tick
  \/ \E c \in Logins : Authenticate(c) \/ Refresh(c) \/ Issue(c)
  \/ \E e \in Events : LogAudit(e) \/ RejectAudit(e) \/ Logged(e)

Spec == Init /\ [][Next]_vars

-----------------------------------------------------------------------------
(* Properties *)

\* is_authenticated: EmberToken.is_expired is a strict comparison.
IsAuthenticated == token # Nothing /\ now <= token + Lifetime

Holders == {c \in Logins : answer[c] = "token"}

\* Whoever was given a token may count on its lifetime: logins and refreshes
\* that overlap replace each other's token, never by one that expires
\* sooner, as long as the clock is not set back.
TokenLastsItsLifetime ==
  /\ \A c \in Holders : now <= answered[c] + Lifetime => IsAuthenticated
  /\ Holders # {} => api_key
  /\ attempts <= Cardinality(Holders)

\* "Fire-and-forget": an audit event is stored once, whatever the circuit
\* breaker does, unless its call raised: then, against the docstring's "do NOT
\* block operations", the caller has the exception and the log nothing.  The
\* answer is False exactly if the breaker was open when the call began: one
\* that opens while the call sleeps is not noticed.
AuditKept ==
  /\ \A e \in Events :
       /\ Cardinality({i \in DOMAIN audit_log : audit_log[i] = e})
            = (IF phase[e] = "new" \/ answer[e] = "raised" THEN 0 ELSE 1)
       /\ answer[e] = "false" <=>
            phase[e] = "done" /\ answer[e] # "raised" /\ ~foundEnabled[e]

=============================================================================
