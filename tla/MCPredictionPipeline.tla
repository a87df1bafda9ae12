------------------------ MODULE MCPredictionPipeline ------------------------
(* Small instances of PredictionPipeline for TLC. *)
EXTENDS PredictionPipeline, TLC

CONSTANTS s1, s2, m1, m2, p1, p2, p3, a1, a2, a3, w1, w2, w3

OneServer == {s1}
TwoServers == {s1, s2}
OneMetric == {m1}
TwoMetrics == {m1, m2}
TwoPredictions == {p1, p2}
ThreePredictions == {p1, p2, p3}
TwoAlerts == {a1, a2}
ThreeAlerts == {a1, a2, a3}
TwoWorkers == {w1, w2}
ThreeWorkers == {w1, w2, w3}

\* low; medium without a predicted failure.
TwoReadings == {29999, 50000}
\* ... and medium with one, whose alert is critical.
ThreeReadings == {29999, 50000, 50001}

AllFaults == FaultKinds
NoFaults == {}
DatabaseOnly == {"database"}

SafetySymmetry ==
  Permutations(ServerId) \cup Permutations(MetricId)
    \cup Permutations(PredictionId) \cup Permutations(AlertId) \cup Permutations(Worker)
=============================================================================
