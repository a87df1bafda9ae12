SPECIFICATION Spec
CONSTANTS
  w1 = w1  w2 = w2  p1 = p1  p2 = p2
  Worker <- TwoWorkers
  Pair <- TwoPairs
  Second = 2
  AccessLife = 1
  RefreshLife = 2
  MaxTime = 5
SYMMETRY WorkersAndPairs
PROPERTY SpentNotRotated
