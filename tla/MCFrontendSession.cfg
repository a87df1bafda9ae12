SPECIFICATION FairSpec
CONSTANTS
  t1 = t1  t2 = t2  c1 = c1  c2 = c2  c3 = c3
  NoTab = NoTab
  Tab <- TwoTabs
  Call <- ThreeCalls
  Shares <- BothShares
  MaxPair = 2
INVARIANTS TypeOK QueueServed SpentTokenInFlight
PROPERTIES EveryCallSettles CheckingEnds
