------------------------- MODULE RateLimiterProofs -------------------------
(***************************************************************************)
(* The rate limiter keeps its limit in every window of time, for any set   *)
(* of IPs, any limit and window, and any sequence of calls and clock       *)
(* steps.  All four invariants follow from LimiterInv, whose heart is that *)
(* pruning loses no accepted check that is still fresh.                    *)
(***************************************************************************)
EXTENDS RateLimiter, FiniteSetTheorems, TLAPS

\* What a list holds was accepted, is finite, and belongs to a known key;
\* numbers of entries are below the number of the next.
Kept ==
  \A ip \in IPs :
    /\ requests[ip] \subseteq accepted[ip]
    /\ IsFiniteSet(accepted[ip])
    /\ \A e \in accepted[ip] : e.nth < Cardinality(accepted[ip])
    /\ requests[ip] # {} => ip \in tracked

\* While the clock only moves on, no time lies ahead of it and a list holds
\* every accepted check that is still in the window.
NothingForgotten ==
  setBacks = 0 =>
    \A ip \in IPs : \A e \in accepted[ip] :
      /\ e.at <= now
      /\ Fresh(e) => e \in requests[ip]

LastOK ==
  /\ last.op # "none" => /\ last.at \in Int
                         /\ setBacks = 0 => last.at <= now
  /\ last.op = "check" => last.ip \in IPs

LimiterInv ==
  /\ TypeOK /\ Kept /\ NothingForgotten /\ LastOK
  /\ WindowLimit /\ RefusalIsDeserved /\ CleanupKeepsTheLive

-----------------------------------------------------------------------------
(* Lists *)

LEMMA PrunedType ==
  ASSUME LimiterInv, NEW ip \in IPs
  PROVE  /\ IsFiniteSet(Pruned(ip)) /\ IsFiniteSet(requests[ip])
         /\ Pruned(ip) \subseteq requests[ip]
         /\ Cardinality(Pruned(ip)) \in Nat
         /\ Cardinality(Pruned(ip)) <= MaxRequests
<1>1. Pruned(ip) \subseteq requests[ip] /\ requests[ip] \subseteq accepted[ip]
      /\ IsFiniteSet(accepted[ip])
  BY DEF LimiterInv, Kept, Pruned
<1>2. IsFiniteSet(requests[ip])
  BY <1>1, FS_Subset
<1>3. /\ IsFiniteSet(Pruned(ip))
      /\ Cardinality(Pruned(ip)) <= Cardinality(requests[ip])
  BY <1>1, <1>2, FS_Subset
<1>4. Cardinality(Pruned(ip)) \in Nat /\ Cardinality(requests[ip]) \in Nat
  BY <1>2, <1>3, FS_CardinalityType
<1>. QED
  BY <1>1, <1>2, <1>3, <1>4, LimiterAssumption DEF LimiterInv, TypeOK

\* The entry of an accepted check is none of those before it.
LEMMA NewEntryIsNew ==
  ASSUME LimiterInv, NEW ip \in IPs
  PROVE  /\ NewEntry(ip) \in Entries
         /\ NewEntry(ip).at = now
         /\ NewEntry(ip).nth = Cardinality(accepted[ip])
         /\ NewEntry(ip) \notin accepted[ip]
         /\ IsFiniteSet(accepted[ip] \cup {NewEntry(ip)})
         /\ Cardinality(accepted[ip] \cup {NewEntry(ip)})
              = Cardinality(accepted[ip]) + 1
<1>1. IsFiniteSet(accepted[ip]) /\ Cardinality(accepted[ip]) \in Nat
  BY FS_CardinalityType DEF LimiterInv, Kept
<1>2. NewEntry(ip) \in Entries /\ NewEntry(ip).nth = Cardinality(accepted[ip])
      /\ NewEntry(ip).at = now
  BY <1>1 DEF NewEntry, Entries, LimiterInv, TypeOK
<1>3. NewEntry(ip) \notin accepted[ip]
  BY <1>1, <1>2 DEF LimiterInv, Kept
<1>. QED BY <1>1, <1>2, <1>3, FS_AddElement

-----------------------------------------------------------------------------
(* What a step does *)

\* Everything a lookup that accepts nothing changes.
Browse(ip) ==
  /\ Look(ip, Pruned(ip))
  /\ accepted' = accepted
  /\ last'.op # "none" /\ last'.op # "cleanup" /\ last'.at = now
  /\ last'.op = "check" => /\ last'.ip = ip
                           /\ last'.answer = FALSE
                           /\ ~ Under(Pruned(ip))

Accept(ip) ==
  /\ Under(Pruned(ip))
  /\ Look(ip, Pruned(ip) \cup {NewEntry(ip)})
  /\ accepted' = [accepted EXCEPT ![ip] = @ \cup {NewEntry(ip)}]
  /\ last'.op = "check" /\ last'.ip = ip /\ last'.answer = TRUE /\ last'.at = now

LEMMA LookupIsBrowse ==
  ASSUME NEW ip \in IPs, IsAllowed(ip) \/ Remaining(ip)
  PROVE  Browse(ip)
<1>. DEFINE left == MaxRequests - Cardinality(Pruned(ip))
<1>1. CASE IsAllowed(ip)
  <2>1. last' = [op |-> "is_allowed", ip |-> ip,
                 answer |-> Under(Pruned(ip)), at |-> now]
    BY <1>1, Zenon DEF IsAllowed, Answer
  <2>. QED BY <1>1, <2>1 DEF IsAllowed, Browse
<1>2. CASE Remaining(ip)
  BY <1>2 DEF Remaining, Answer, Browse
<1>. QED BY <1>1, <1>2

LEMMA CheckDoes ==
  ASSUME NEW ip \in IPs, Check(ip)
  PROVE  Browse(ip) \/ Accept(ip)
BY DEF Check, Answer, Browse, Accept

-----------------------------------------------------------------------------
(* Each kind of step keeps the invariant *)

LEMMA BrowseKeeps ==
  ASSUME LimiterInv, NEW ip \in IPs, Browse(ip)
  PROVE  LimiterInv'
<1>1. /\ requests' = [requests EXCEPT ![ip] = Pruned(ip)]
      /\ tracked' = tracked \cup {ip}
      /\ now' = now /\ setBacks' = setBacks /\ accepted' = accepted
  BY DEF Browse, Look
<1>2. Pruned(ip) \subseteq requests[ip] /\ Cardinality(Pruned(ip)) <= MaxRequests
      /\ IsFiniteSet(Pruned(ip)) /\ Cardinality(Pruned(ip)) \in Nat
  BY PrunedType
<1>3. TypeOK'
  BY <1>1, <1>2 DEF LimiterInv, TypeOK
<1>4. Kept'
  BY <1>1, <1>2 DEF LimiterInv, TypeOK, Kept
<1>5. NothingForgotten'
  BY <1>1 DEF LimiterInv, TypeOK, NothingForgotten, Pruned, Fresh
<1>6. LastOK'
  BY <1>1, SMT DEF LimiterInv, TypeOK, Browse, LastOK
<1>7. WindowLimit'
  BY <1>1 DEF LimiterInv, WindowLimit
<1>8. RefusalIsDeserved'
  <2>. SUFFICES ASSUME last'.op = "check"
       PROVE Cardinality({e \in accepted[ip] : now - e.at < WindowSeconds})
               >= MaxRequests
    BY <1>1 DEF RefusalIsDeserved, Browse
  <2>. DEFINE counted == {e \in accepted[ip] : now - e.at < WindowSeconds}
  <2>1. Pruned(ip) \subseteq counted /\ counted \subseteq accepted[ip]
    BY DEF LimiterInv, Kept, Pruned, Fresh
  <2>2. IsFiniteSet(counted)
    BY <2>1, FS_Subset DEF LimiterInv, Kept
  <2>3. Cardinality(Pruned(ip)) <= Cardinality(counted)
        /\ Cardinality(counted) \in Nat
    BY <2>1, <2>2, FS_Subset, FS_CardinalityType
  <2>. QED
    BY <1>2, <2>3, LimiterAssumption DEF Browse, Under
<1>9. CleanupKeepsTheLive'
  BY DEF Browse, CleanupKeepsTheLive
<1>. QED
  BY <1>3, <1>4, <1>5, <1>6, <1>7, <1>8, <1>9 DEF LimiterInv

\* The step that could break the limit.  A window that contains now holds
\* only fresh checks, which are the ones the pruned list counted.
LEMMA AcceptKeepsWindow ==
  ASSUME LimiterInv, NEW ip \in IPs, Accept(ip)
  PROVE  WindowLimit'
<1>1. /\ accepted' = [accepted EXCEPT ![ip] = @ \cup {NewEntry(ip)}]
      /\ now' = now /\ setBacks' = setBacks
  BY DEF Accept, Look
<1>. SUFFICES ASSUME setBacks = 0, NEW q \in IPs, NEW t \in 0..MaxTime
     PROVE  Cardinality({e \in accepted'[q] : e.at \in t .. t + WindowSeconds - 1})
              <= MaxRequests
  BY <1>1 DEF WindowLimit
<1>. DEFINE before == {e \in accepted[ip] : e.at \in t .. t + WindowSeconds - 1}
            after  == {e \in accepted'[q] : e.at \in t .. t + WindowSeconds - 1}
<1>2. CASE q # ip
  BY <1>1, <1>2 DEF LimiterInv, TypeOK, WindowLimit
<1>3. CASE q = ip /\ now \notin t .. t + WindowSeconds - 1
  <2>1. after = before
    BY <1>1, <1>3, NewEntryIsNew DEF LimiterInv, TypeOK
  <2>. QED BY <2>1 DEF LimiterInv, WindowLimit
<1>4. CASE q = ip /\ now \in t .. t + WindowSeconds - 1
  <2>1. after \subseteq Pruned(ip) \cup {NewEntry(ip)}
    <3>. SUFFICES ASSUME NEW e \in after, e # NewEntry(ip)
         PROVE  e \in Pruned(ip)
      OBVIOUS
    <3>1. e \in accepted[ip] /\ e.at \in t .. t + WindowSeconds - 1
      BY <1>1, <1>4 DEF LimiterInv, TypeOK
    <3>2. e.at \in Nat /\ now \in Nat
      BY <3>1 DEF LimiterInv, TypeOK, Entries
    <3>3. Fresh(e)
      BY <1>4, <3>1, <3>2, LimiterAssumption DEF Fresh
    <3>. QED
      BY <3>1, <3>3 DEF LimiterInv, NothingForgotten, Pruned
  <2>2. /\ IsFiniteSet(Pruned(ip) \cup {NewEntry(ip)})
        /\ Cardinality(Pruned(ip) \cup {NewEntry(ip)}) = Cardinality(Pruned(ip)) + 1
    <3>1. NewEntry(ip) \notin Pruned(ip)
      BY NewEntryIsNew, PrunedType DEF LimiterInv, Kept
    <3>. QED BY <3>1, PrunedType, FS_AddElement
  <2>3. Cardinality(after) <= Cardinality(Pruned(ip)) + 1 /\ Cardinality(after) \in Nat
    <3>1. IsFiniteSet(after) /\ Cardinality(after) <= Cardinality(Pruned(ip) \cup {NewEntry(ip)})
      BY <2>1, <2>2, FS_Subset
    <3>. QED BY <3>1, <2>2, FS_CardinalityType
  <2>. QED
    BY <2>3, PrunedType, LimiterAssumption DEF Accept, Under
<1>. QED BY <1>2, <1>3, <1>4

LEMMA AcceptKeeps ==
  ASSUME LimiterInv, NEW ip \in IPs, Accept(ip)
  PROVE  LimiterInv'
<1>1. /\ requests' = [requests EXCEPT ![ip] = Pruned(ip) \cup {NewEntry(ip)}]
      /\ accepted' = [accepted EXCEPT ![ip] = @ \cup {NewEntry(ip)}]
      /\ tracked' = tracked \cup {ip}
      /\ now' = now /\ setBacks' = setBacks
  BY DEF Accept, Look
<1>2. /\ Pruned(ip) \subseteq requests[ip]
      /\ NewEntry(ip) \in Entries /\ NewEntry(ip).at = now
      /\ NewEntry(ip).nth = Cardinality(accepted[ip])
  BY PrunedType, NewEntryIsNew
<1>3. Cardinality(Pruned(ip) \cup {NewEntry(ip)}) <= MaxRequests
  <2>1. NewEntry(ip) \notin Pruned(ip)
    BY NewEntryIsNew, PrunedType DEF LimiterInv, Kept
  <2>2. Cardinality(Pruned(ip) \cup {NewEntry(ip)}) = Cardinality(Pruned(ip)) + 1
    BY <2>1, PrunedType, FS_AddElement
  <2>. QED BY <2>2, PrunedType, LimiterAssumption DEF Accept, Under
<1>4. TypeOK'
  BY <1>1, <1>2, <1>3 DEF LimiterInv, TypeOK
<1>5. Kept'
  <2>. SUFFICES ASSUME NEW q \in IPs
       PROVE  /\ requests'[q] \subseteq accepted'[q]
              /\ IsFiniteSet(accepted'[q])
              /\ \A e \in accepted'[q] : e.nth < Cardinality(accepted'[q])
              /\ requests'[q] # {} => q \in tracked'
    BY DEF Kept
  <2>1. CASE q # ip
    BY <1>1, <2>1 DEF LimiterInv, TypeOK, Kept
  <2>2. CASE q = ip
    <3>1. accepted'[q] = accepted[ip] \cup {NewEntry(ip)}
      BY <1>1, <2>2 DEF LimiterInv, TypeOK
    <3>2. /\ requests'[q] \subseteq accepted'[q]
          /\ requests'[q] # {} => q \in tracked'
      BY <1>1, <1>2, <2>2, <3>1 DEF LimiterInv, TypeOK, Kept
    <3>3. /\ IsFiniteSet(accepted'[q])
          /\ Cardinality(accepted'[q]) = Cardinality(accepted[ip]) + 1
          /\ Cardinality(accepted[ip]) \in Nat
      BY <3>1, NewEntryIsNew, FS_CardinalityType DEF LimiterInv, Kept
    <3>4. ASSUME NEW e \in accepted'[q]
          PROVE  e.nth < Cardinality(accepted'[q])
      <4>1. e \in accepted[ip] => e.nth \in Nat /\ e.nth < Cardinality(accepted[ip])
        BY DEF LimiterInv, TypeOK, Kept, Entries
      <4>. QED BY <1>2, <3>1, <3>3, <4>1
    <3>. QED BY <3>2, <3>3, <3>4
  <2>. QED BY <2>1, <2>2
<1>6. NothingForgotten'
  <2>. SUFFICES ASSUME setBacks = 0, NEW q \in IPs, NEW e \in accepted'[q]
       PROVE  e.at <= now /\ (now - e.at < WindowSeconds => e \in requests'[q])
    BY <1>1 DEF NothingForgotten, Fresh
  <2>1. CASE q = ip /\ e = NewEntry(ip)
    BY <1>1, <1>2, <2>1 DEF LimiterInv, TypeOK
  <2>2. CASE e \in accepted[q]
    BY <1>1, <2>2 DEF LimiterInv, TypeOK, NothingForgotten, Pruned, Fresh
  <2>. QED BY <1>1, <2>1, <2>2 DEF LimiterInv, TypeOK
<1>7. LastOK'
  BY <1>1 DEF LimiterInv, TypeOK, Accept, LastOK
<1>8. RefusalIsDeserved' /\ CleanupKeepsTheLive'
  BY DEF Accept, RefusalIsDeserved, CleanupKeepsTheLive
<1>. QED
  BY <1>4, <1>5, <1>6, <1>7, <1>8, AcceptKeepsWindow DEF LimiterInv

LEMMA ResetKeeps ==
  ASSUME LimiterInv, NEW ip \in IPs, Reset(ip)
  PROVE  LimiterInv'
<1>1. /\ requests' = [requests EXCEPT ![ip] = {}]
      /\ accepted' = [accepted EXCEPT ![ip] = {}]
      /\ tracked' = tracked \ {ip}
      /\ now' = now /\ setBacks' = setBacks
      /\ last'.op = "reset" /\ last'.at = now
  BY DEF Reset, Answer
<1>2. TypeOK'
  BY <1>1, FS_EmptySet, LimiterAssumption DEF LimiterInv, TypeOK
<1>3. Kept'
  BY <1>1, FS_EmptySet DEF LimiterInv, TypeOK, Kept
<1>4. NothingForgotten'
  BY <1>1 DEF LimiterInv, TypeOK, NothingForgotten, Fresh
<1>5. WindowLimit'
  <2>. SUFFICES ASSUME setBacks = 0, NEW q \in IPs, NEW t \in 0..MaxTime
       PROVE  Cardinality({e \in accepted'[q] : e.at \in t .. t + WindowSeconds - 1})
                <= MaxRequests
    BY <1>1 DEF WindowLimit
  <2>1. CASE q = ip
    <3>1. {e \in accepted'[q] : e.at \in t .. t + WindowSeconds - 1} = {}
      BY <1>1, <2>1 DEF LimiterInv, TypeOK
    <3>2. Cardinality({e \in accepted'[q] : e.at \in t .. t + WindowSeconds - 1}) = 0
      BY <3>1, FS_EmptySet, Zenon
    <3>. QED BY <3>2, LimiterAssumption
  <2>2. CASE q # ip
    BY <1>1, <2>2 DEF LimiterInv, TypeOK, WindowLimit
  <2>. QED BY <2>1, <2>2
<1>6. LastOK' /\ RefusalIsDeserved' /\ CleanupKeepsTheLive'
  BY <1>1 DEF LimiterInv, TypeOK, LastOK, RefusalIsDeserved, CleanupKeepsTheLive
<1>. QED BY <1>2, <1>3, <1>4, <1>5, <1>6 DEF LimiterInv

LEMMA CleanupKeeps ==
  ASSUME LimiterInv, Cleanup
  PROVE  LimiterInv'
<1>1. /\ requests' = [ip \in IPs |-> Pruned(ip)]
      /\ tracked' = tracked \ Stale
      /\ now' = now /\ setBacks' = setBacks /\ accepted' = accepted
      /\ last'.op = "cleanup" /\ last'.at = now
  BY DEF Cleanup
<1>2. \A ip \in IPs : /\ Pruned(ip) \subseteq requests[ip]
                      /\ Cardinality(Pruned(ip)) <= MaxRequests
  BY PrunedType
<1>3. TypeOK'
  BY <1>1, <1>2 DEF LimiterInv, TypeOK
<1>4. Kept'
  BY <1>1, <1>2 DEF LimiterInv, TypeOK, Kept, Stale
<1>5. NothingForgotten'
  BY <1>1 DEF LimiterInv, TypeOK, NothingForgotten, Pruned, Fresh
<1>6. CleanupKeepsTheLive'
  <2>. SUFFICES ASSUME setBacks = 0
       PROVE  tracked' = {ip \in IPs : \E e \in accepted[ip] : Fresh(e)}
    BY <1>1 DEF CleanupKeepsTheLive, Fresh
  <2>1. \A ip \in IPs : Pruned(ip) = {e \in accepted[ip] : Fresh(e)}
    BY DEF LimiterInv, Kept, NothingForgotten, Pruned
  <2>2. \A ip \in IPs : Pruned(ip) # {} => ip \in tracked
    BY <1>2 DEF LimiterInv, Kept
  <2>. QED
    BY <1>1, <2>1, <2>2 DEF Stale, LimiterInv, TypeOK
<1>7. WindowLimit'
  BY <1>1 DEF LimiterInv, WindowLimit
<1>8. LastOK' /\ RefusalIsDeserved'
  BY <1>1 DEF LimiterInv, TypeOK, LastOK, RefusalIsDeserved
<1>. QED BY <1>3, <1>4, <1>5, <1>6, <1>7, <1>8 DEF LimiterInv

LEMMA ClockKeeps ==
  ASSUME LimiterInv, Tick \/ \E t \in 0..MaxTime : SetBack(t)
  PROVE  LimiterInv'
<1>1. /\ UNCHANGED <<tracked, requests, last, accepted>>
      /\ now' \in 0..MaxTime /\ setBacks' \in 0..MaxSetBacks
      /\ setBacks' = 0 => setBacks = 0 /\ now' = now + 1
  BY LimiterAssumption DEF LimiterInv, TypeOK, Tick, SetBack
<1>2. TypeOK' /\ Kept'
  BY <1>1 DEF LimiterInv, TypeOK, Kept
<1>3. NothingForgotten'
  <2>. SUFFICES ASSUME setBacks' = 0, NEW ip \in IPs, NEW e \in accepted'[ip]
       PROVE  e.at <= now' /\ (now' - e.at < WindowSeconds => e \in requests'[ip])
    BY DEF NothingForgotten, Fresh
  <2>. /\ setBacks = 0 /\ now' = now + 1 /\ requests' = requests
       /\ accepted' = accepted /\ e \in accepted[ip]
    BY <1>1
  <2>1. e.at \in Int /\ now \in Int /\ e.at <= now
    BY DEF LimiterInv, TypeOK, Entries, NothingForgotten
  <2>. QED
    BY <2>1, LimiterAssumption DEF LimiterInv, NothingForgotten, Fresh
<1>4. WindowLimit' /\ RefusalIsDeserved'
  BY <1>1 DEF LimiterInv, WindowLimit, RefusalIsDeserved
<1>5. LastOK' /\ CleanupKeepsTheLive'
  BY <1>1 DEF LimiterInv, TypeOK, LastOK, CleanupKeepsTheLive
<1>. QED BY <1>2, <1>3, <1>4, <1>5 DEF LimiterInv

LEMMA LimiterInductive ==
  ASSUME LimiterInv, [Next]_vars
  PROVE  LimiterInv'
<1>1. ASSUME NEW ip \in IPs, Check(ip) \/ IsAllowed(ip) \/ Remaining(ip) \/ Reset(ip)
      PROVE  LimiterInv'
  BY <1>1, CheckDoes, LookupIsBrowse, BrowseKeeps, AcceptKeeps, ResetKeeps
<1>2. CASE UNCHANGED vars
  BY <1>2 DEF vars, LimiterInv, TypeOK, Kept, NothingForgotten, LastOK,
     WindowLimit, RefusalIsDeserved, CleanupKeepsTheLive, Fresh
<1>. QED BY <1>1, <1>2, CleanupKeeps, ClockKeeps DEF Next

LEMMA LimiterAlways == Spec => []LimiterInv
<1>1. Init => LimiterInv
  <2>. SUFFICES ASSUME Init PROVE LimiterInv
    OBVIOUS
  <2>1. TypeOK /\ Kept
    BY FS_EmptySet, LimiterAssumption DEF Init, TypeOK, Kept
  <2>2. WindowLimit
    <3>. SUFFICES ASSUME NEW ip \in IPs, NEW t \in 0..MaxTime
         PROVE Cardinality({e \in accepted[ip] : e.at \in t .. t + WindowSeconds - 1})
                 <= MaxRequests
      BY DEF WindowLimit
    <3>1. {e \in accepted[ip] : e.at \in t .. t + WindowSeconds - 1} = {}
      BY DEF Init
    <3>. QED BY <3>1, FS_EmptySet, LimiterAssumption
  <2>. QED
    BY <2>1, <2>2 DEF Init, LimiterInv, NothingForgotten, LastOK,
       RefusalIsDeserved, CleanupKeepsTheLive
<1>2. LimiterInv /\ [Next]_vars => LimiterInv'
  BY LimiterInductive
<1>. QED BY <1>1, <1>2, PTL DEF Spec

-----------------------------------------------------------------------------
(* Theorems *)

\* No window_seconds long stretch of time contains more than max_requests
\* accepted checks of an IP, whatever lookups, resets and cleanups come in
\* between (check, with the pruning every method does).
THEOREM LimitInEveryWindow == Spec => []WindowLimit
<1>1. LimiterInv => WindowLimit
  BY DEF LimiterInv
<1>. QED BY <1>1, LimiterAlways, PTL

\* check() refuses only an IP that has used up the limit within the window,
\* even after the wall clock was set back.
THEOREM NobodyRefusedInError == Spec => []RefusalIsDeserved
<1>1. LimiterInv => RefusalIsDeserved
  BY DEF LimiterInv
<1>. QED BY <1>1, LimiterAlways, PTL

\* The lists are bounded by max_requests, lazy pruning leaves in them exactly
\* the accepted checks that still count, and cleanup() drops no live IP.
THEOREM ListsAreExact == Spec => []BookkeepingIsExact
<1>1. LimiterInv => LogIsWindow
  BY DEF LimiterInv, Kept, NothingForgotten, LogIsWindow, Pruned
<1>2. LimiterInv => BookkeepingIsExact
  BY <1>1 DEF LimiterInv, BookkeepingIsExact
<1>. QED BY <1>2, LimiterAlways, PTL
=============================================================================
