-------------------------------- MODULE Risk --------------------------------
(***************************************************************************)
(* report/risk.py: a set of findings becomes a risk of 0 to 100 and a      *)
(* verdict, the worse of what the worst single finding and what the        *)
(* accumulated risk demand.                                                *)
(*                                                                         *)
(* A definition named X_Y is the definition X with a bug Y.                *)
(***************************************************************************)
EXTENDS Integers, FiniteSets

Verdicts == {"PASS", "REVIEW", "BLOCK"}
Rank(v)  == IF v = "PASS" THEN 0 ELSE IF v = "REVIEW" THEN 1 ELSE 2

Count(fs, sev) == Cardinality({f \in fs : f.sev = sev})
Has(fs, sev)   == \E f \in fs : f.sev = sev

Raw(fs) == 2 * Count(fs, "LOW") + 6 * Count(fs, "MEDIUM")
           + 15 * Count(fs, "HIGH") + 40 * Count(fs, "CRITICAL")
RiskScore_Uncapped(fs) == Raw(fs)
RiskScore(fs) == IF Raw(fs) > 100 THEN 100 ELSE Raw(fs)

ReviewAt == 20
BlockAt  == 60

Verdict_ScoreOnly(fs) ==
  IF Has(fs, "CRITICAL") \/ RiskScore(fs) >= BlockAt THEN "BLOCK"
  ELSE IF RiskScore(fs) >= ReviewAt THEN "REVIEW"
  ELSE "PASS"
Verdict_WorstFirst(fs) ==
  IF Has(fs, "CRITICAL") THEN "BLOCK"
  ELSE IF Has(fs, "HIGH") THEN "REVIEW"
  ELSE IF RiskScore(fs) >= BlockAt THEN "BLOCK"
  ELSE IF RiskScore(fs) >= ReviewAt THEN "REVIEW"
  ELSE "PASS"
Verdict(fs) ==
  IF Has(fs, "CRITICAL") \/ RiskScore(fs) >= BlockAt THEN "BLOCK"
  ELSE IF Has(fs, "HIGH") \/ RiskScore(fs) >= ReviewAt THEN "REVIEW"
  ELSE "PASS"
==============================================================================
