---------------------------- MODULE RateLimiter ----------------------------
(***************************************************************************)
(* core/rate_limiter.py, class RateLimiter: a sliding window of request    *)
(* times per IP, pruned lazily by whichever call looks at it.  No method   *)
(* suspends, so each call is one step.                                     *)
(*                                                                         *)
(* The times come from time.time(), a wall clock: it moves on between      *)
(* calls, and may be set back.  Ticks stand for its floats; the code only  *)
(* subtracts times and compares the difference with window_seconds.        *)
(*                                                                         *)
(* No method looks at the order of a list of times, so a list is a set of  *)
(* entries; nth tells apart two checks accepted in the same tick.          *)
(***************************************************************************)
EXTENDS Integers, FiniteSets

CONSTANTS
  IPs,
  MaxRequests,    \* max_requests
  WindowSeconds,  \* window_seconds, in ticks
  MaxTime,        \* bound: last tick of the clock
  MaxSetBacks     \* bound: times the clock is set back

\* The constructor's two ValueErrors, and the bounds.
ASSUME LimiterAssumption ==
  /\ MaxRequests \in Nat \ {0}
  /\ WindowSeconds \in Nat \ {0}
  /\ MaxTime \in Nat
  /\ MaxSetBacks \in Nat

VARIABLES
  now,       \* time.time()
  setBacks,
  tracked,   \* the keys of _requests
  requests,  \* _requests[ip], {} for an ip that is no key
  last,      \* the last call, its answer and its time
  accepted   \* ip -> entries of all accepted checks since its last reset;
             \* the program keeps no such record

Entries == [at : 0..MaxTime, nth : Nat]

vars == <<now, setBacks, tracked, requests, last, accepted>>

Init ==
  /\ now = 0
  /\ setBacks = 0
  /\ tracked = {}
  /\ requests = [ip \in IPs |-> {}]
  /\ last = [op |-> "none"]
  /\ accepted = [ip \in IPs |-> {}]

-----------------------------------------------------------------------------
(* A definition named X_Y is X with the slip Y in it; it is used only to    *)
(* confirm that a property notices the slip.                               *)

Fresh_TooLong(e) == now - e.at <= WindowSeconds
Fresh_TooShort(e) == now - e.at < WindowSeconds - 1
Fresh(e) == now - e.at < WindowSeconds

Pruned(ip) == {e \in requests[ip] : Fresh(e)}

Under_OffByOne(times) == Cardinality(times) <= MaxRequests
Under(times) == Cardinality(times) < MaxRequests

NewEntry(ip) == [at |-> now, nth |-> Cardinality(accepted[ip])]

Answer(call, ip, answer) ==
  last' = [op |-> call, ip |-> ip, answer |-> answer, at |-> now]

\* An entry that get(ip, []) made up is not put back.
Look_NewEntryLost(ip, times) ==
  /\ requests' = IF ip \in tracked THEN [requests EXCEPT ![ip] = times] ELSE requests
  /\ UNCHANGED <<now, setBacks, tracked>>

\* Every look at an ip stores its pruned list, and so makes it a key.
Look(ip, times) ==
  /\ tracked' = tracked \cup {ip}
  /\ requests' = [requests EXCEPT ![ip] = times]
  /\ UNCHANGED <<now, setBacks>>

Check(ip) ==
  IF Under(Pruned(ip))
  THEN /\ Look(ip, Pruned(ip) \cup {NewEntry(ip)})
       /\ accepted' = [accepted EXCEPT ![ip] = @ \cup {NewEntry(ip)}]
       /\ Answer("check", ip, TRUE)
  ELSE /\ Look(ip, Pruned(ip))
       /\ Answer("check", ip, FALSE)
       /\ UNCHANGED accepted

IsAllowed(ip) ==
  /\ Look(ip, Pruned(ip))
  /\ Answer("is_allowed", ip, Under(Pruned(ip)))
  /\ UNCHANGED accepted

Remaining(ip) ==
  LET left == MaxRequests - Cardinality(Pruned(ip)) IN
  /\ Look(ip, Pruned(ip))
  /\ Answer("remaining", ip, IF left > 0 THEN left ELSE 0)
  /\ UNCHANGED accepted

Reset(ip) ==
  /\ tracked' = tracked \ {ip}
  /\ requests' = [requests EXCEPT ![ip] = {}]
  /\ accepted' = [accepted EXCEPT ![ip] = {}]
  /\ Answer("reset", ip, TRUE)
  /\ UNCHANGED <<now, setBacks>>

Stale_Empty == {ip \in tracked : requests[ip] = {}}
Stale == {ip \in tracked : Pruned(ip) = {}}

Cleanup ==
  /\ tracked' = tracked \ Stale
  /\ requests' = [ip \in IPs |-> Pruned(ip)]
  /\ last' = [op |-> "cleanup", answer |-> Cardinality(Stale), at |-> now]
  /\ UNCHANGED <<now, setBacks, accepted>>

\* The clock (external).
Tick ==
  /\ now < MaxTime
  /\ now' = now + 1
  /\ UNCHANGED <<setBacks, tracked, requests, last, accepted>>

SetBack(t) ==
  /\ setBacks < MaxSetBacks
  /\ t < now
  /\ now' = t
  /\ setBacks' = setBacks + 1
  /\ UNCHANGED <<tracked, requests, last, accepted>>

Next ==
  \/ \E ip \in IPs : Check(ip) \/ IsAllowed(ip) \/ Remaining(ip) \/ Reset(ip)
  \/ Cleanup
  \/ Tick
  \/ \E t \in 0..MaxTime : SetBack(t)

Spec == Init /\ [][Next]_vars

-----------------------------------------------------------------------------
(* Properties *)

\* Also the bound on memory: no list outgrows max_requests, even when the
\* clock is set back and old times look new again.
TypeOK ==
  /\ now \in 0..MaxTime
  /\ setBacks \in 0..MaxSetBacks
  /\ tracked \in SUBSET IPs
  /\ requests \in [IPs -> SUBSET Entries]
  /\ \A ip \in IPs : Cardinality(requests[ip]) <= MaxRequests
  /\ accepted \in [IPs -> SUBSET Entries]

\* The limit itself, in every window and not only in the current one: no
\* window_seconds long stretch of time ever contains more than max_requests
\* accepted checks of an IP, whichever lookups, cleanups and clock ticks came
\* in between.  The clock must not have been set back.
WindowLimit ==
  setBacks = 0 =>
    \A ip \in IPs, t \in 0..MaxTime :
      Cardinality({e \in accepted[ip] : e.at \in t .. t + WindowSeconds - 1})
        <= MaxRequests

\* Lazy pruning forgets nothing that still counts and keeps nothing else:
\* what a lookup would see now are the accepted checks of the last window,
\* as long as the clock was not set back.
LogIsWindow ==
  setBacks = 0 => \A ip \in IPs : Pruned(ip) = {e \in accepted[ip] : Fresh(e)}

\* A check is refused only to an IP that had max_requests accepted checks
\* not older than the window; this survives a clock that is set back.
RefusalIsDeserved ==
  last.op = "check" /\ ~last.answer =>
    Cardinality({e \in accepted[last.ip] : last.at - e.at < WindowSeconds})
      >= MaxRequests

\* Right after cleanup() the limiter tracks exactly the IPs with an accepted
\* check in the window: entries made by mere lookups are gone.
CleanupKeepsTheLive ==
  last.op = "cleanup" /\ last.at = now /\ setBacks = 0 =>
    tracked = {ip \in IPs : \E e \in accepted[ip] : Fresh(e)}

\* What is kept is what counts: bounded, pruned without loss, and cleaned up
\* without forgetting a live address (_prune, check and cleanup together).
BookkeepingIsExact == TypeOK /\ LogIsWindow /\ CleanupKeepsTheLive
=============================================================================
