------------------------------ MODULE RiskModel ------------------------------
(***************************************************************************)
(* The verdict the ML model gives on one metric (ml/predict.py) and the     *)
(* severity of the alert that verdict calls for (app/services/             *)
(* alert_service.py).  Pure operators: no state.                           *)
(*                                                                         *)
(* The classifier and the scaler are outside the model: what they compute  *)
(* from the 18 features is one number, the probability of class 1, and     *)
(* this module starts from it.  Probabilities are integers, in units of    *)
(* 1/Scale, so that the thresholds and the rounding are exact.             *)
(***************************************************************************)
EXTENDS Integers

Scale == 100000

Probability == 0 .. Scale

Risk == {"low", "medium", "high"}

Severity == {"warning", "critical"}

\* Mutant of RiskLevel: the first threshold above the tie of model.predict.
RiskLevelLateThreshold(score) ==
  IF score < 60000 THEN "low" ELSE IF score < 70000 THEN "medium" ELSE "high"

\* probability < 0.30, probability < 0.70
RiskLevel(score) ==
  IF score < 30000 THEN "low" ELSE IF score < 70000 THEN "medium" ELSE "high"

\* model.predict: the class of larger probability, class 0 on a tie.
PredictedFailure(score) == score > Scale - score

\* Mutants of StoredProbability: round(probability, 2), and no rounding.
StoredProbabilityTwoPlaces(score) == 100 * ((score + 500) \div 1000)
StoredProbabilityUnrounded(score) == score

\* The four decimals that are stored.
StoredScale == 10000

\* round(probability, 4), in units of 1/StoredScale.
StoredProbability(score) == (score + 5) \div 10

\* What predict_failure returns: thresholds see the score before rounding.
Verdict(score) ==
  [risk        |-> RiskLevel(score),
   failure     |-> PredictedFailure(score),
   probability |-> StoredProbability(score)]

Verdicts == [risk : Risk, failure : BOOLEAN, probability : 0 .. StoredScale]

\* create_alert_from_prediction: HIGH or a predicted failure is CRITICAL,
\* MEDIUM alone is WARNING, anything else returns None.
AlertSeverity(v) ==
  IF v.risk = "high" \/ v.failure THEN "critical"
  ELSE IF v.risk = "medium" THEN "warning" ELSE "none"

NeedsAlert(v) == AlertSeverity(v) # "none"
=============================================================================
