---------------------------- MODULE ThreatScorer ----------------------------
(***************************************************************************)
(* intel/threat_scorer.py, class ThreatScorer.  Scores are whole numbers   *)
(* of 1/10000, the composite of 1/1000000 before it is rounded; the class  *)
(* computes the same sums in floating point.                               *)
(*                                                                         *)
(* A profile is a record of the numbers the formulas read.  ttps is a      *)
(* sequence of records [id, tactic, confidence], confidence in percent.    *)
(***************************************************************************)
EXTENDS Integers, Sequences, FiniteSets, FiniteSetsExt

Full == 10000

IntentTechs ==
  {"T1003", "T1005", "T1552", "T1021", "T1041", "T1048", "T1486", "T1490",
   "T1499", "T1543", "T1547", "T1098"}
PersistTechs == {"T1543", "T1547", "T1098", "T1053"}
StealthTechs == {"T1070", "T1027", "T1036"}

SophisticationBase(level) ==
  CASE level = "automated" -> 2500 [] level = "intermediate" -> 5000
    [] level = "advanced" -> 7500 [] level = "apt" -> 9500
    [] OTHER -> 1500

-----------------------------------------------------------------------------

AtMost(n, cap) == Min({n, cap})

\* step for each unit of n above the threshold, up to a cap.
Bonus(n, threshold, step, cap) == AtMost(Max({n - threshold, 0}) * step, cap)

Ids(ttps) == {ttps[i].id : i \in DOMAIN ttps}
Seen(ttps, techniques) == Cardinality(Ids(ttps) \cap techniques)

\* _calc_intent
Intent(p, ttps) ==
  AtMost(Bonus(p.intents, 0, 1000, 3000)
         + Bonus(Seen(ttps, IntentTechs), 0, 1200, 6000)
         + (IF Seen(ttps, {"T1003", "T1552"}) > 0 THEN 2500 ELSE 0)
         + Bonus(p.sessions, 3, 200, 1500)
         + Bonus(p.unique, 20, 50, 1500), Full)

\* _calc_soph.  The mean confidence weighs at most a tenth: one more
\* technique, seen with little confidence, may lower the score.
MeanConfidence(ttps) ==
  IF ttps = <<>> THEN 0
  ELSE (MapThenSumSet(LAMBDA i : ttps[i].confidence, DOMAIN ttps) * 10) \div Len(ttps)

\* What the classes AttackerProfile and TTPRecord admit; the mean of such
\* confidences is a number, which a proof cannot see through the fold.
Profiled(p, ttps) ==
  /\ p \in [level : STRING, intents : Nat, sessions : Nat, unique : Nat, hours : Nat,
             addresses : Nat, correlated : Nat, actors : Nat, tools : Nat]
  /\ ttps \in Seq([id : STRING, tactic : STRING, confidence : 0 .. 100])
  /\ MeanConfidence(ttps) \in Nat

Sophistication(p, ttps) ==
  AtMost(SophisticationBase(p.level)
         + Bonus(Cardinality(Ids(ttps)), 5, 200, 2000)
         + Bonus(Cardinality({ttps[i].tactic : i \in DOMAIN ttps}), 3, 400, 1500)
         + Bonus(p.tools, 0, 500, 2000)
         + Bonus(Seen(ttps, StealthTechs), 0, 500, 1500)
         + MeanConfidence(ttps), Full)

\* _calc_persist
Persistence(p, ttps) ==
  AtMost(Bonus(Seen(ttps, PersistTechs), 0, 1500, 5000)
         + (IF p.hours > 1 THEN AtMost(p.hours * 200, 2000) ELSE 0)
         + Bonus(p.sessions, 1, 300, 1500)
         + Bonus(p.addresses, 2, 200, 1000)
         + Bonus(p.correlated, 0, 500, 1500)
         + Bonus(p.actors, 0, 1000, 2000), Full)

\* What ThreatScore reports is rounded to a thousandth.
RoundTo(n, unit) == (n + unit \div 2) \div unit

\* score_threat with the weights the class comes with.
Composite_Unweighted(p, ttps) ==
  RoundTo(Intent(p, ttps) + Sophistication(p, ttps) + Persistence(p, ttps), 10)
Composite(p, ttps) ==
  RoundTo(40 * Intent(p, ttps) + 35 * Sophistication(p, ttps) + 25 * Persistence(p, ttps), 1000)

ScoreThreat(p, ttps) ==
  [overall |-> Composite(p, ttps),
   sophistication |-> RoundTo(Sophistication(p, ttps), 10),
   persistence |-> RoundTo(Persistence(p, ttps), 10)]

\* _to_risk
Risk(overall) ==
  IF overall >= 800 THEN "CRITICAL"
  ELSE IF overall >= 600 THEN "HIGH"
  ELSE IF overall >= 350 THEN "MEDIUM" ELSE "LOW"

=============================================================================
