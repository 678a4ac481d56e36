-------------------------- MODULE SonarClientProofs --------------------------
(***************************************************************************)
(* Proofs about SonarClient for any finite set of calls and any number of  *)
(* retries: its counters add up, it retries what it may, and a novelty     *)
(* check says SAFE only of an answer.                                      *)
(***************************************************************************)
EXTENDS SonarClient, SequenceTheorems, FiniteSetTheorems, TLAPS

Ends == Parsable \cup Transient \cup Raised \cup {"closed"}

Open == {"posting", "backoff"}

Reports ==
  [status : {"none", "raised", "SUCCESS", "UNAVAILABLE",
             "RATE_LIMITED", "INVALID_KEY", "TIMEOUT", "ERROR"},
   decision : {"none", "SAFE", "UNSAFE", "REVIEW"}]

Types ==
  /\ phase \in [Calls -> {"new", "posting", "backoff", "done", "cancelled"}]
  /\ attempt \in [Calls -> 0..MaxRetries]
  /\ ends \in [Calls -> Seq(Ends)]
  /\ result \in [Calls -> Reports]
  /\ mode \in [Calls -> {"enrich", "novelty"}]

\* What is known of a call that is not done: each POST so far failed in a way
\* that is retried, and there was one for each attempt.
Retrying(c) ==
  /\ result[c] = NoResult
  /\ \A k \in 1..Len(ends[c]) : ends[c][k] \in Transient
  /\ phase[c] = "new" => ends[c] = <<>> /\ attempt[c] = 0
  /\ phase[c] \in Open => Len(ends[c]) = attempt[c]

\* And of one that is: its last POST decided what it returned.
Settled(c) ==
  /\ ends[c] # <<>> =>
       /\ \A k \in 1..Len(ends[c]) - 1 : ends[c][k] \in Transient
       /\ LastEnd(c) \in Transient => Len(ends[c]) = MaxRetries + 1
       /\ LastEnd(c) \notin Parsable => result[c].status = Classified(LastEnd(c))
       /\ mode[c] = "enrich" /\ result[c].status = "SUCCESS" => LastEnd(c) \in Readable
  /\ result[c].decision = "SAFE" => ends[c] # <<>> /\ LastEnd(c) \in NoObjection

CallInv(c) ==
  /\ Len(ends[c]) <= MaxRetries + 1
  /\ IF phase[c] = "done" THEN Settled(c) ELSE Retrying(c)

SonarInv == Types /\ (\A c \in Calls : CallInv(c)) /\ CallsAccountedFor

LEMMA SonarInvInit == ASSUME SonarAssumption, Init PROVE SonarInv
<1>1. <<>> \in Seq(Ends) /\ Len(<<>>) = 0
  BY EmptySeq
<1>2. Types
  <2>1. NoResult \in Reports
    BY DEF NoResult, Reports
  <2>. QED BY <1>1, <2>1 DEF Init, Types, SonarAssumption
<1>3. \A c \in Calls : CallInv(c)
  BY <1>1 DEF Init, CallInv, Retrying, Open, SonarAssumption
<1>4. /\ {c \in Calls : phase[c] # "new"} = {}
      /\ {c \in Returned : LastEnd(c) \in Parsable} = {}
      /\ {c \in Returned : LastEnd(c) \notin Parsable} = {}
  BY DEF Init, Returned, Posted
<1>5. CallsAccountedFor
  BY <1>4, FS_EmptySet DEF CallsAccountedFor, Init
<1>. QED BY <1>2, <1>3, <1>5 DEF SonarInv

-----------------------------------------------------------------------------
(* One call moves on *)

\* All that a step of another call leaves alone.
Same(d) ==
  /\ phase'[d] = phase[d] /\ attempt'[d] = attempt[d]
  /\ ends'[d] = ends[d] /\ result'[d] = result[d] /\ mode'[d] = mode[d]

LEMMA OthersKeep ==
  ASSUME SonarInv, NEW d \in Calls, Same(d)
  PROVE  CallInv(d)'
BY DEF SonarInv, Same, CallInv, Settled, Retrying, LastEnd

Begun == {c \in Calls : phase[c] # "new"}
Succeeded == {c \in Returned : LastEnd(c) \in Parsable}
Failed == {c \in Returned : LastEnd(c) \notin Parsable}

\* Only c enters a set, and only when it returns after a POST.
LEMMA SetsMove ==
  ASSUME NEW c \in Calls, phase[c] # "done", \A d \in Calls \ {c} : Same(d)
  PROVE  /\ Succeeded' = IF phase'[c] = "done" /\ ends'[c] # <<>> /\ LastEnd(c)' \in Parsable
                         THEN Succeeded \cup {c} ELSE Succeeded
         /\ Failed' = IF phase'[c] = "done" /\ ends'[c] # <<>> /\ LastEnd(c)' \notin Parsable
                      THEN Failed \cup {c} ELSE Failed
         /\ c \notin Succeeded /\ c \notin Failed
         /\ phase'[c] # "new" => Begun' = Begun \cup {c}
<1>1. \A d \in Calls \ {c} : /\ d \in Returned' <=> d \in Returned
                             /\ LastEnd(d)' = LastEnd(d)
                             /\ d \in Begun' <=> d \in Begun
  BY DEF Same, Returned, Posted, LastEnd, Begun
<1>2. c \notin Returned /\ (c \in Returned' <=> phase'[c] = "done" /\ ends'[c] # <<>>)
  BY DEF Returned, Posted
<1>3. Returned \subseteq Calls /\ Returned' \subseteq Calls
  BY DEF Returned, Posted
<1>4. phase'[c] # "new" => Begun' = Begun \cup {c}
  BY <1>1 DEF Begun
<1>. QED BY <1>1, <1>2, <1>3, <1>4 DEF Succeeded, Failed

LEMMA Counted ==
  ASSUME IsFiniteSet(Calls)
  PROVE  /\ IsFiniteSet(Succeeded) /\ IsFiniteSet(Failed) /\ IsFiniteSet(Begun)
         /\ CallsAccountedFor <=> /\ totalCalls = Cardinality(Begun)
                                  /\ successfulCalls = Cardinality(Succeeded)
                                  /\ failedCalls = Cardinality(Failed)
<1>1. Succeeded \subseteq Calls /\ Failed \subseteq Calls /\ Begun \subseteq Calls
  BY DEF Succeeded, Failed, Begun, Returned, Posted
<1>. QED BY <1>1, FS_Subset DEF CallsAccountedFor, Succeeded, Failed, Begun

LEMMA NotedAppends ==
  ASSUME SonarInv, SonarAssumption, NEW c \in Calls, NEW end \in Ends
  PROVE  /\ Len(ends[c]) \in Nat /\ ends[c] \in Seq(Ends)
         /\ Noted(c, end) = [ends EXCEPT ![c] = Append(ends[c], end)]
         /\ Append(ends[c], end) \in Seq(Ends) /\ Append(ends[c], end) # <<>>
         /\ Len(Append(ends[c], end)) = Len(ends[c]) + 1
         /\ Append(ends[c], end)[Len(ends[c]) + 1] = end
         /\ \A k \in 1..Len(ends[c]) : Append(ends[c], end)[k] = ends[c][k]
<1>1. ends[c] \in Seq(Ends) /\ Len(ends[c]) \in Nat /\ Len(ends[c]) <= MaxRetries + 1
  BY LenProperties DEF SonarInv, Types, CallInv
<1>. QED BY <1>1, AppendProperties DEF Noted

\* A POST of c that came back with end decides what c returns.
LEMMA Decides ==
  ASSUME SonarInv, SonarAssumption, IsFiniteSet(Calls),
         NEW c \in Calls, phase[c] \in {"new"} \cup Open,
         NEW end \in Ends, NEW r \in Reports, ends' = Noted(c, end), Finish(c, r),
         end \in Transient => Len(ends[c]) = MaxRetries,
         end \notin Parsable => r.status = Classified(end),
         mode[c] = "enrich" /\ r.status = "SUCCESS" => end \in Readable,
         r.decision = "SAFE" => end \in NoObjection,
         UNCHANGED <<attempt, mode>>,
         totalCalls' = IF phase[c] = "new" THEN totalCalls + 1 ELSE totalCalls,
         successfulCalls' = IF end \in Parsable THEN successfulCalls + 1 ELSE successfulCalls,
         failedCalls' = IF end \in Parsable THEN failedCalls ELSE failedCalls + 1
  PROVE  SonarInv'
<1>. DEFINE t == Append(ends[c], end)
<1>1. Types /\ CallInv(c) /\ Len(ends[c]) \in Nat /\ phase[c] # "done"
  BY NotedAppends DEF SonarInv, Open
<1>2. /\ ends' = [ends EXCEPT ![c] = t] /\ t \in Seq(Ends) /\ t # <<>>
      /\ Len(t) = Len(ends[c]) + 1 /\ t[Len(ends[c]) + 1] = end
      /\ \A k \in 1..Len(ends[c]) : t[k] = ends[c][k]
  BY NotedAppends
<1>. HIDE DEF t
<1>3. /\ phase' = [phase EXCEPT ![c] = "done"] /\ result' = [result EXCEPT ![c] = r]
  BY DEF Finish
<1>4. Types'
  BY <1>1, <1>2, <1>3 DEF Types
<1>5. /\ phase'[c] = "done" /\ result'[c] = r /\ ends'[c] = t
      /\ \A d \in Calls \ {c} : Same(d)
  BY <1>1, <1>2, <1>3 DEF Types, Same
<1>6. LastEnd(c)' = end
  BY <1>1, <1>2, <1>5 DEF LastEnd
<1>7. Len(ends[c]) <= MaxRetries
  BY <1>1 DEF CallInv, Retrying, Open, Types, SonarAssumption
<1>8. \A k \in 1..Len(t) - 1 : t[k] \in Transient
  BY <1>1, <1>2 DEF CallInv, Retrying
<1>9. Settled(c)'
  BY <1>1, <1>2, <1>5, <1>6, <1>8, SonarAssumption DEF Settled, SonarAssumption
<1>10. CallInv(c)'
  BY <1>2, <1>5, <1>7, <1>9, SonarAssumption DEF CallInv, SonarAssumption
<1>11. CallsAccountedFor'
  <2>1. /\ Succeeded' = IF end \in Parsable THEN Succeeded \cup {c} ELSE Succeeded
        /\ Failed' = IF end \notin Parsable THEN Failed \cup {c} ELSE Failed
        /\ c \notin Succeeded /\ c \notin Failed
        /\ Begun' = Begun \cup {c}
    BY <1>1, <1>2, <1>5, <1>6, SetsMove
  <2>2. c \in Begun <=> phase[c] # "new"
    BY DEF Begun
  <2>3. /\ totalCalls = Cardinality(Begun) /\ IsFiniteSet(Begun)
        /\ successfulCalls = Cardinality(Succeeded) /\ IsFiniteSet(Succeeded)
        /\ failedCalls = Cardinality(Failed) /\ IsFiniteSet(Failed)
    BY Counted DEF SonarInv
  <2>4. /\ totalCalls' = Cardinality(Begun') /\ successfulCalls' = Cardinality(Succeeded')
        /\ failedCalls' = Cardinality(Failed')
    BY <2>1, <2>2, <2>3, FS_AddElement
  <2>. QED BY <2>4 DEF CallsAccountedFor, Begun, Succeeded, Failed
<1>. QED BY <1>4, <1>5, <1>10, <1>11, OthersKeep DEF SonarInv

\* c goes on, is cancelled, or returns without a POST.
LEMMA GoesOn ==
  ASSUME SonarInv, SonarAssumption, IsFiniteSet(Calls), Types',
         NEW c \in Calls, phase[c] # "done", phase'[c] # "new",
         CallInv(c)', \A d \in Calls \ {c} : Same(d),
         phase'[c] = "done" => ends'[c] = <<>>,
         totalCalls' = IF phase[c] = "new" THEN totalCalls + 1 ELSE totalCalls,
         UNCHANGED <<successfulCalls, failedCalls>>
  PROVE  SonarInv'
<1>1. Succeeded' = Succeeded /\ Failed' = Failed /\ Begun' = Begun \cup {c}
  BY SetsMove
<1>2. c \in Begun <=> phase[c] # "new"
  BY DEF Begun
<1>3. /\ totalCalls = Cardinality(Begun) /\ IsFiniteSet(Begun)
      /\ successfulCalls = Cardinality(Succeeded) /\ failedCalls = Cardinality(Failed)
  BY Counted DEF SonarInv
<1>4. /\ totalCalls' = Cardinality(Begun') /\ successfulCalls' = Cardinality(Succeeded')
      /\ failedCalls' = Cardinality(Failed')
  BY <1>1, <1>2, <1>3, FS_AddElement
<1>5. CallsAccountedFor'
  BY <1>4 DEF CallsAccountedFor, Begun, Succeeded, Failed
<1>. QED BY <1>5, OthersKeep DEF SonarInv

-----------------------------------------------------------------------------
(* The steps *)

LEMMA ReportTypes ==
  ASSUME NEW m \in {"enrich", "novelty"}
  PROVE  /\ \A end \in Ends :
              /\ Parsed(m, end) \in Reports
              /\ Unparsed(m, Classified(end)) \in Reports
              /\ Unparsed(m, Classified(end)).status = Classified(end)
              /\ Unparsed(m, Classified(end)).decision # "SAFE"
              /\ Classified(end) # "SUCCESS"
              /\ end \in Parsable /\ Parsed(m, end).decision = "SAFE" => end \in NoObjection
              /\ end \in Parsable /\ m = "enrich" /\ Parsed(m, end).status = "SUCCESS" =>
                   end \in Readable
         /\ \A s \in {"SUCCESS", "UNAVAILABLE"} :
              Unparsed(m, s) \in Reports /\ Unparsed(m, s).decision # "SAFE"
<1>1. ASSUME NEW end \in Ends
      PROVE  Classified(end) \in {"RATE_LIMITED", "INVALID_KEY", "TIMEOUT", "ERROR"}
  BY DEF Classified
<1>2. ASSUME NEW end \in Ends
      PROVE  Verdict(end) \in {"UNSAFE", "SAFE", "REVIEW"}
  BY DEF Verdict
<1>3. ASSUME NEW s \in {"SUCCESS", "UNAVAILABLE", "RATE_LIMITED", "INVALID_KEY", "TIMEOUT", "ERROR"}
      PROVE  /\ Unparsed(m, s) \in Reports /\ Unparsed(m, s).status = s
             /\ Unparsed(m, s).decision # "SAFE"
  BY DEF Unparsed, Reports
<1>4. ASSUME NEW end \in Ends PROVE Parsed(m, end) \in Reports
  BY <1>2 DEF Parsed, Reports
<1>5. ASSUME NEW end \in Parsable, Parsed(m, end).decision = "SAFE" PROVE end \in NoObjection
  BY <1>5 DEF Parsed, Verdict
<1>6. ASSUME NEW end \in Parsable, m = "enrich", Parsed(m, end).status = "SUCCESS"
      PROVE  end \in Readable
  BY <1>6 DEF Parsed, Parsable
<1>. QED BY <1>1, <1>3, <1>4, <1>5, <1>6

LEMMA FailKeeps ==
  ASSUME SonarInv, SonarAssumption, IsFiniteSet(Calls),
         NEW c \in Calls, phase[c] \in {"new"} \cup Open,
         NEW end \in Ends \ Parsable, Fail(c, end), ends' = Noted(c, end),
         end \in Transient => Len(ends[c]) = MaxRetries,
         UNCHANGED <<attempt, mode>>,
         totalCalls' = IF phase[c] = "new" THEN totalCalls + 1 ELSE totalCalls
  PROVE  SonarInv'
<1>1. mode[c] \in {"enrich", "novelty"}
  BY DEF SonarInv, Types
<1>2. PICK r \in Reports : /\ Finish(c, r) /\ r.status = Classified(end)
                           /\ r.decision # "SAFE" /\ r.status # "SUCCESS"
  BY <1>1, ReportTypes DEF Fail
<1>3. failedCalls' = failedCalls + 1 /\ UNCHANGED successfulCalls
  BY DEF Fail
<1>. QED BY <1>2, <1>3, Decides

\* Posting is entered from the start or from the sleep.
LEMMA PostKeeps ==
  ASSUME SonarInv, SonarAssumption, IsFiniteSet(Calls),
         NEW c \in Calls, phase[c] \in {"new", "backoff"}, Post(c),
         UNCHANGED <<attempt, mode>>,
         totalCalls' = IF phase[c] = "new" THEN totalCalls + 1 ELSE totalCalls
  PROVE  SonarInv'
<1>1. CASE closed
  <2>1. Fail(c, "closed") /\ ends' = Noted(c, "closed")
    BY <1>1 DEF Post
  <2>2. "closed" \in Ends \ Parsable /\ "closed" \notin Transient
    BY DEF Ends, Parsable, Readable, Transient
  <2>. QED BY <2>1, <2>2, FailKeeps DEF Open
<1>2. CASE ~closed
  <2>1. /\ phase' = [phase EXCEPT ![c] = "posting"]
        /\ UNCHANGED <<result, successfulCalls, failedCalls, ends>>
    BY <1>2 DEF Post
  <2>2. Types' /\ phase'[c] = "posting" /\ \A d \in Calls \ {c} : Same(d)
    BY <2>1 DEF SonarInv, Types, Same
  <2>3. Len(ends[c]) = attempt[c] /\ CallInv(c)
    BY EmptySeq DEF SonarInv, CallInv, Retrying, Open
  <2>4. CallInv(c)'
    BY <2>1, <2>2, <2>3 DEF CallInv, Retrying, Open
  <2>. QED BY <2>1, <2>2, <2>4, GoesOn
<1>. QED BY <1>1, <1>2

LEMMA BeginKeeps ==
  ASSUME SonarInv, SonarAssumption, IsFiniteSet(Calls),
         NEW c \in Calls, NEW nothing \in BOOLEAN, Begin(c, nothing)
  PROVE  SonarInv'
<1>1. /\ phase[c] = "new" /\ totalCalls' = totalCalls + 1
      /\ UNCHANGED <<mode, attempt>>
  BY DEF Begin
<1>2. CASE Post(c)
  BY <1>1, <1>2, PostKeeps
<1>3. CASE ~Post(c)
  <2>1. PICK s \in {"SUCCESS", "UNAVAILABLE"} : Finish(c, Unparsed(mode[c], s))
    BY <1>3 DEF Begin
  <2>2. UNCHANGED <<successfulCalls, failedCalls, ends>>
    BY <1>3 DEF Begin
  <2>3. mode[c] \in {"enrich", "novelty"} /\ CallInv(c) /\ Types
    BY DEF SonarInv, Types
  <2>4. PICK r \in Reports : Finish(c, r) /\ r.decision # "SAFE"
    BY <2>1, <2>3, ReportTypes
  <2>5. /\ Types' /\ phase'[c] = "done" /\ result'[c] = r
        /\ \A d \in Calls \ {c} : Same(d)
    BY <1>1, <2>2, <2>3, <2>4 DEF Types, Same, Finish
  <2>6. ends[c] = <<>> /\ ends'[c] = <<>> /\ Len(ends[c]) <= MaxRetries + 1
    BY <1>1, <2>2, <2>3 DEF CallInv, Retrying
  <2>7. CallInv(c)'
    BY <2>2, <2>4, <2>5, <2>6 DEF CallInv, Settled
  <2>. QED BY <1>1, <2>2, <2>5, <2>6, <2>7, GoesOn
<1>. QED BY <1>2, <1>3

LEMMA ReturnsKeeps ==
  ASSUME SonarInv, SonarAssumption, IsFiniteSet(Calls),
         NEW c \in Calls, NEW end \in Parsable \cup Transient \cup Raised, Returns(c, end)
  PROVE  SonarInv'
<1>1. /\ phase[c] = "posting" /\ ends' = Noted(c, end) /\ end \in Ends
      /\ UNCHANGED <<mode, totalCalls>>
  BY DEF Returns, Ends
<1>2. /\ Types /\ CallInv(c) /\ mode[c] \in {"enrich", "novelty"}
      /\ attempt[c] \in 0..MaxRetries /\ Len(ends[c]) = attempt[c]
  BY <1>1 DEF SonarInv, Types, CallInv, Retrying, Open
<1>3. CASE end \in Parsable
  <2>1. /\ Finish(c, Parsed(mode[c], end)) /\ successfulCalls' = successfulCalls + 1
        /\ UNCHANGED <<attempt, failedCalls>>
    BY <1>3 DEF Returns
  <2>2. PICK r \in Reports :
          /\ Finish(c, r)
          /\ r.decision = "SAFE" => end \in NoObjection
          /\ mode[c] = "enrich" /\ r.status = "SUCCESS" => end \in Readable
    BY <1>1, <1>2, <1>3, <2>1, ReportTypes
  <2>3. end \notin Transient
    BY <1>3 DEF Parsable, Readable, Transient
  <2>. QED BY <1>1, <1>3, <2>1, <2>2, <2>3, Decides DEF Open
<1>4. CASE end \notin Parsable /\ Retried(end) /\ attempt[c] < MaxRetries
  <2>1. /\ phase' = [phase EXCEPT ![c] = "backoff"]
        /\ attempt' = [attempt EXCEPT ![c] = attempt[c] + 1]
        /\ UNCHANGED <<failedCalls, result, successfulCalls>>
    BY <1>4 DEF Returns, NextAttempt, FailedOn
  <2>. DEFINE t == Append(ends[c], end)
  <2>2. /\ ends' = [ends EXCEPT ![c] = t] /\ t \in Seq(Ends) /\ Len(t) = Len(ends[c]) + 1
        /\ t[Len(ends[c]) + 1] = end /\ \A k \in 1..Len(ends[c]) : t[k] = ends[c][k]
    BY <1>1, NotedAppends
  <2>. HIDE DEF t
  <2>3. Types' /\ \A d \in Calls \ {c} : Same(d)
    BY <1>1, <1>2, <1>4, <2>1, <2>2, SonarAssumption DEF Types, Same, SonarAssumption
  <2>4. /\ phase'[c] = "backoff" /\ ends'[c] = t /\ attempt'[c] = attempt[c] + 1
        /\ result'[c] = result[c]
    BY <1>2, <2>1, <2>2 DEF Types
  <2>5. result[c] = NoResult /\ \A k \in 1..Len(ends[c]) : ends[c][k] \in Transient
    BY <1>1, <1>2 DEF CallInv, Retrying
  <2>6. \A k \in 1..Len(t) : t[k] \in Transient
    BY <1>2, <1>4, <2>2, <2>5 DEF Retried
  <2>7. Len(t) = attempt[c] + 1 /\ Len(t) <= MaxRetries + 1
    BY <1>2, <2>2, SonarAssumption DEF SonarAssumption
  <2>8. CallInv(c)'
    BY <2>4, <2>5, <2>6, <2>7 DEF CallInv, Retrying, Open
  <2>. QED BY <1>1, <2>1, <2>3, <2>4, <2>8, GoesOn
<1>5. CASE end \notin Parsable /\ ~(Retried(end) /\ attempt[c] < MaxRetries)
  <2>1. Fail(c, end) /\ UNCHANGED attempt
    BY <1>5 DEF Returns
  <2>2. end \in Transient => Len(ends[c]) = MaxRetries
    BY <1>2, <1>5, SonarAssumption DEF Retried, SonarAssumption
  <2>. QED BY <1>1, <1>5, <2>1, <2>2, FailKeeps DEF Open
<1>. QED BY <1>3, <1>4, <1>5

LEMMA SonarInvNext == ASSUME SonarAssumption, IsFiniteSet(Calls), SonarInv, [Next]_vars
                      PROVE  SonarInv'
<1>1. CASE UNCHANGED vars \/ Close
  <2>1. /\ \A d \in Calls : Same(d)
        /\ UNCHANGED <<phase, attempt, ends, result, mode>>
        /\ UNCHANGED <<totalCalls, successfulCalls, failedCalls>>
    BY <1>1 DEF vars, Close, Same
  <2>2. CallsAccountedFor'
    BY <2>1 DEF SonarInv, CallsAccountedFor, Returned, Posted, LastEnd
  <2>. QED BY <2>1, <2>2, OthersKeep DEF SonarInv, Types
<1>2. ASSUME NEW c \in Calls, Wake(c) PROVE SonarInv'
  BY <1>2, PostKeeps DEF Wake
<1>3. ASSUME NEW c \in Calls, Cancel(c) PROVE SonarInv'
  <2>1. /\ phase[c] \in Open /\ phase' = [phase EXCEPT ![c] = "cancelled"]
        /\ UNCHANGED <<mode, attempt, result, ends, totalCalls, successfulCalls, failedCalls>>
    BY <1>3 DEF Cancel, Open
  <2>2. Types' /\ phase'[c] = "cancelled" /\ \A d \in Calls \ {c} : Same(d)
    BY <2>1 DEF SonarInv, Types, Same
  <2>3. CallInv(c)'
    BY <2>1, <2>2 DEF SonarInv, CallInv, Retrying, Open
  <2>. QED BY <2>1, <2>2, <2>3, GoesOn DEF Open
<1>4. ASSUME NEW c \in Calls, Resolve(c) PROVE SonarInv'
  BY <1>4, ReturnsKeeps DEF Resolve
<1>. QED BY <1>1, <1>2, <1>3, <1>4, BeginKeeps DEF Next

LEMMA SonarInvHolds == SonarInv => CallsAccountedFor /\ RetryDiscipline /\ SafeOnlyIfAnswered
<1>1. SonarInv => RetryDiscipline
  <2>. SUFFICES ASSUME SonarInv, NEW c \in Posted
                PROVE  /\ Len(ends[c]) <= MaxRetries + 1
                       /\ \A i \in 1 .. Len(ends[c]) - 1 : ends[c][i] \in Transient
                       /\ c \in Returned /\ LastEnd(c) \in Transient =>
                            Len(ends[c]) = MaxRetries + 1
                       /\ c \in Returned /\ LastEnd(c) \notin Parsable =>
                            result[c].status = Classified(LastEnd(c))
    BY DEF RetryDiscipline
  <2>1. c \in Calls /\ ends[c] # <<>> /\ Len(ends[c]) \in Nat /\ CallInv(c)
    BY LenProperties DEF Posted, SonarInv, Types
  <2>2. CASE phase[c] = "done"
    BY <2>1, <2>2 DEF CallInv, Settled
  <2>3. CASE phase[c] # "done"
    BY <2>1, <2>3 DEF CallInv, Retrying, Returned
  <2>. QED BY <2>2, <2>3
<1>2. SonarInv => SafeOnlyIfAnswered
  <2>. SUFFICES ASSUME SonarInv, NEW c \in Calls
                PROVE  /\ result[c].decision = "SAFE" =>
                            c \in Returned /\ LastEnd(c) \in NoObjection
                       /\ c \in Returned /\ mode[c] = "enrich" /\ result[c].status = "SUCCESS" =>
                            LastEnd(c) \in Readable
    BY DEF SafeOnlyIfAnswered
  <2>1. CallInv(c)
    BY DEF SonarInv
  <2>2. CASE phase[c] = "done"
    BY <2>1, <2>2 DEF CallInv, Settled, Returned, Posted
  <2>3. CASE phase[c] # "done"
    BY <2>1, <2>3 DEF CallInv, Retrying, NoResult, Returned
  <2>. QED BY <2>2, <2>3
<1>. QED BY <1>1, <1>2 DEF SonarInv

LEMMA SonarInvariant == ASSUME SonarAssumption, IsFiniteSet(Calls) PROVE Spec => []SonarInv
<1>1. Init => SonarInv
  BY SonarInvInit
<1>2. SonarInv /\ [Next]_vars => SonarInv'
  BY SonarInvNext
<1>. QED BY <1>1, <1>2, PTL DEF Spec

-----------------------------------------------------------------------------
(* Theorems *)

\* While any number of calls of SonarIntelligenceClient overlap, retry, fail
\* and are cancelled, each that returned after a POST is counted once.
THEOREM SonarCallsAccountedFor ==
  ASSUME SonarAssumption, IsFiniteSet(Calls)
  PROVE  Spec => []CallsAccountedFor
<1>1. SonarInv => CallsAccountedFor
  BY SonarInvHolds
<1>. QED BY <1>1, SonarInvariant, PTL

\* _call_sonar_with_retry POSTs again after transport errors only and at most
\* MAX_RETRIES times, gives up on one only then, and reports the last error.
THEOREM SonarRetryDiscipline ==
  ASSUME SonarAssumption, IsFiniteSet(Calls)
  PROVE  Spec => []RetryDiscipline
<1>1. SonarInv => RetryDiscipline
  BY SonarInvHolds
<1>. QED BY <1>1, SonarInvariant, PTL

\* assess_attack_novelty says SAFE only after a 200 whose text names neither
\* other verdict or is empty, and enrich_ttps, once it posted, SUCCESS only
\* after one it could read, whatever fails and in whatever order.
THEOREM SonarSafeOnlyIfAnswered ==
  ASSUME SonarAssumption, IsFiniteSet(Calls)
  PROVE  Spec => []SafeOnlyIfAnswered
<1>1. SonarInv => SafeOnlyIfAnswered
  BY SonarInvHolds
<1>. QED BY <1>1, SonarInvariant, PTL
=============================================================================
