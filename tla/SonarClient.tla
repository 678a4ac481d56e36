----------------------------- MODULE SonarClient -----------------------------
(***************************************************************************)
(* intel/sonar_enrichment.py, class SonarIntelligenceClient: enrich_ttps   *)
(* and assess_attack_novelty over the retry loop they share.  Calls of one *)
(* client overlap; each suspends in its POST and in the sleep before a     *)
(* retry.  What the web said is a word the parsers look for; prompts,      *)
(* CVE and campaign records are left out.                                  *)
(***************************************************************************)
EXTENDS Integers, Sequences, FiniteSets

CONSTANTS
  Calls,       \* calls of the two methods
  MaxRetries   \* MAX_RETRIES

SonarAssumption == MaxRetries \in Nat

\* How a POST may end.  A 200 whose text names a verdict or names none; whose
\* text is empty, because it is '' or because choices, message or content is
\* missing and its default is used; with JSON on which the parser raises (no
\* object, an empty list of choices, null content); with null for citations;
\* or with no JSON.  429; 401 or 403; any other status; httpx's
\* TimeoutException and its other errors.
Readable == {"unsafe", "review", "neither", "empty"}
Parsable == Readable \cup {"unreadable", "uncited"}
Transient == {"timeout", "transport"}
Raised == {"no_json", "429", "auth", "status"}

VARIABLES
  hasKey,    \* bool(_api_key)
  closed,    \* close() was called
  mode,      \* "enrich" or "novelty"
  phase,     \* "new", "posting", "backoff", "done", "cancelled"
  attempt,   \* the loop variable of _call_sonar_with_retry
  result,    \* what the call returned; status "raised" if it raised
  totalCalls, successfulCalls, failedCalls

\* History: how the POSTs of a call ended, one more than are allowed.
VARIABLE ends

vars == <<hasKey, closed, mode, phase, attempt, result,
          totalCalls, successfulCalls, failedCalls, ends>>

NoResult == [status |-> "none", decision |-> "none"]

Init ==
  /\ hasKey \in BOOLEAN
  /\ closed = FALSE
  /\ mode \in [Calls -> {"enrich", "novelty"}]
  /\ phase = [c \in Calls |-> "new"]
  /\ attempt = [c \in Calls |-> 0]
  /\ result = [c \in Calls |-> NoResult]
  /\ totalCalls = 0
  /\ successfulCalls = 0
  /\ failedCalls = 0
  /\ ends = [c \in Calls |-> <<>>]

-----------------------------------------------------------------------------
(* A definition named X_Y is X with the slip Y in it; it is used only to    *)
(* confirm that a property notices the slip.                               *)

\* _classify_error.  An endpoint that cannot be reached is an ERROR, too.
Classified(end) ==
  CASE end = "429" -> "RATE_LIMITED"
    [] end = "auth" -> "INVALID_KEY"
    [] end = "timeout" -> "TIMEOUT"
    [] OTHER -> "ERROR"

\* _parse_novelty_response: a text that names neither other verdict is SAFE,
\* the empty one too; if the parser raises, the verdict is REVIEW.
NoObjection == {"neither", "empty"}

Verdict_ErrorIsSafe(end) ==
  CASE end = "unsafe" -> "UNSAFE" [] end = "review" -> "REVIEW" [] OTHER -> "SAFE"
Verdict(end) ==
  CASE end = "unsafe" -> "UNSAFE"
    [] end \in NoObjection -> "SAFE"
    [] OTHER -> "REVIEW"

\* A novelty check reports SUCCESS even if it could not parse the answer, an
\* enrichment ERROR; to either an empty text is a text.
\* Null citations are parsed, and raise when they are counted for the log,
\* after the call was counted as a success.
Parsed(m, end) ==
  IF end = "uncited"
  THEN [status |-> "raised", decision |-> "none"]
  ELSE IF m = "novelty"
  THEN [status |-> "SUCCESS", decision |-> Verdict(end)]
  ELSE [status |-> IF end = "unreadable" THEN "ERROR" ELSE "SUCCESS", decision |-> "none"]

Unparsed(m, status) ==
  [status |-> status, decision |-> IF m = "novelty" THEN "REVIEW" ELSE "none"]

Retried_AnyError(end) == end \in Transient \cup {"status"}
Retried(end) == end \in Transient

Finish(c, r) ==
  /\ phase' = [phase EXCEPT ![c] = "done"]
  /\ result' = [result EXCEPT ![c] = r]

Noted(c, end) ==
  IF Len(ends[c]) <= MaxRetries + 1 THEN [ends EXCEPT ![c] = Append(@, end)] ELSE ends

\* The except clause around the retry loop.
Fail(c, end) ==
  /\ Finish(c, Unparsed(mode[c], Classified(end)))
  /\ failedCalls' = failedCalls + 1
  /\ UNCHANGED successfulCalls

\* One turn of the loop: a closed client raises without suspending.
Post(c) ==
  IF closed
  THEN Fail(c, "closed") /\ ends' = Noted(c, "closed")
  ELSE /\ phase' = [phase EXCEPT ![c] = "posting"]
       /\ UNCHANGED <<result, successfulCalls, failedCalls, ends>>

-----------------------------------------------------------------------------

\* Without a key, or with nothing to enrich, a call returns at once.
Begin(c, nothing) ==
  /\ phase[c] = "new"
  /\ totalCalls' = totalCalls + 1
  /\ IF ~hasKey \/ (nothing /\ mode[c] = "enrich")
     THEN /\ Finish(c, Unparsed(mode[c], IF hasKey THEN "SUCCESS" ELSE "UNAVAILABLE"))
          /\ UNCHANGED <<successfulCalls, failedCalls, ends>>
     ELSE Post(c)
  /\ UNCHANGED <<hasKey, closed, mode, attempt>>

NextAttempt_Same(c) == attempt[c]
NextAttempt(c) == attempt[c] + 1

FailedOn_EveryAttempt == failedCalls + 1
FailedOn == failedCalls

\* A POST comes back.  close() does not wait for one that is in flight: it
\* may lose its connection or end in any other way.
Returns(c, end) ==
  /\ phase[c] = "posting"
  /\ ends' = Noted(c, end)
  /\ IF end \in Parsable
     THEN /\ Finish(c, Parsed(mode[c], end))
          /\ successfulCalls' = successfulCalls + 1
          /\ UNCHANGED <<attempt, failedCalls>>
     ELSE IF Retried(end) /\ attempt[c] < MaxRetries
     THEN /\ phase' = [phase EXCEPT ![c] = "backoff"]
          /\ attempt' = [attempt EXCEPT ![c] = NextAttempt(c)]
          /\ failedCalls' = FailedOn
          /\ UNCHANGED <<result, successfulCalls>>
     ELSE Fail(c, end) /\ UNCHANGED attempt
  /\ UNCHANGED <<hasKey, closed, mode, totalCalls>>

\* The sleep before a retry is over.
Wake(c) ==
  /\ phase[c] = "backoff"
  /\ Post(c)
  /\ UNCHANGED <<hasKey, closed, mode, attempt, totalCalls>>

\* CancelledError passes both except clauses: no counter sees the call.
Cancel(c) ==
  /\ phase[c] \in {"posting", "backoff"}
  /\ phase' = [phase EXCEPT ![c] = "cancelled"]
  /\ UNCHANGED <<hasKey, closed, mode, attempt, result,
                 totalCalls, successfulCalls, failedCalls, ends>>

Close ==
  /\ ~closed
  /\ closed' = TRUE
  /\ UNCHANGED <<hasKey, mode, phase, attempt, result,
                 totalCalls, successfulCalls, failedCalls, ends>>

Resolve(c) == \E end \in Parsable \cup Transient \cup Raised : Returns(c, end)

Next ==
  \/ Close
  \/ \E c \in Calls :
       \/ \E nothing \in BOOLEAN : Begin(c, nothing)
       \/ Resolve(c)
       \/ Wake(c)
       \/ Cancel(c)

Fairness == \A c \in Calls : WF_vars(Resolve(c)) /\ WF_vars(Wake(c))

Spec == Init /\ [][Next]_vars /\ Fairness

-----------------------------------------------------------------------------
(* Properties *)

Posted == {c \in Calls : ends[c] # <<>>}
Returned == {c \in Posted : phase[c] = "done"}
LastEnd(c) == ends[c][Len(ends[c])]

\* The telemetry adds up while calls overlap: every call that got as far as
\* a POST and returned is a success or a failure, once, however often it was
\* retried; one that was cancelled or returned early is neither.  An answer
\* that could not be parsed counts as a success, and so does the one that
\* makes the call raise.
CallsAccountedFor ==
  /\ totalCalls = Cardinality({c \in Calls : phase[c] # "new"})
  /\ successfulCalls = Cardinality({c \in Returned : LastEnd(c) \in Parsable})
  /\ failedCalls = Cardinality({c \in Returned : LastEnd(c) \notin Parsable})

\* A call POSTs again only after a timeout or transport error, at most
\* MAX_RETRIES times, gives up on one of these only when that is used up or
\* it is cancelled, and reports the last of several errors, not the first.
RetryDiscipline ==
  \A c \in Posted :
    /\ Len(ends[c]) <= MaxRetries + 1
    /\ \A i \in 1 .. Len(ends[c]) - 1 : ends[c][i] \in Transient
    /\ c \in Returned /\ LastEnd(c) \in Transient => Len(ends[c]) = MaxRetries + 1
    /\ c \in Returned /\ LastEnd(c) \notin Parsable =>
         result[c].status = Classified(LastEnd(c))

\* How far a novelty check fails closed.  SAFE is said only after a 200, of a
\* text that names neither other verdict or of no text at all (a known issue,
\* src/README.md:65); a missing key, an error, a closed client, used-up
\* retries or JSON on which the parser raises never lead to it.  And an
\* enrichment that posted reports SUCCESS only of an answer it could read.
SafeOnlyIfAnswered ==
  \A c \in Calls :
    /\ result[c].decision = "SAFE" => c \in Returned /\ LastEnd(c) \in NoObjection
    /\ c \in Returned /\ mode[c] = "enrich" /\ result[c].status = "SUCCESS" =>
         LastEnd(c) \in Readable

\* Every call returns or is cancelled: the loop is bounded, and so is each
\* POST by the client's timeout.
CallsEnd == \A c \in Calls : phase[c] # "new" ~> phase[c] \in {"done", "cancelled"}

=============================================================================
