SPECIFICATION Spec
CONSTANTS
  Sample <- OneOfEachKind
  Servers <- TwoServers
  MaxRows = 4
INVARIANTS TypeOK AlertIffRisk RoundingCrossesUpOnly CriticalIffDanger ViewsAgree LegendAddsUp CurrentIsNewest
CHECK_DEADLOCK FALSE
