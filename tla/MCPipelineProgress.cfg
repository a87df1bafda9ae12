SPECIFICATION FairSpec
CONSTANTS
  s1 = s1  s2 = s2  m1 = m1  m2 = m2  p1 = p1  p2 = p2  p3 = p3
  a1 = a1  a2 = a2  a3 = a3  w1 = w1  w2 = w2  w3 = w3
  Unused = Unused  Deleted = Deleted  None = None
  ServerId <- OneServer
  MetricId <- OneMetric
  PredictionId <- TwoPredictions
  AlertId <- TwoAlerts
  Worker <- TwoWorkers
  Reading <- TwoReadings
  Faults <- AllFaults
PROPERTIES EveryRequestAnswered MetricGetsPrediction RiskGetsAlert
CHECK_DEADLOCK FALSE
