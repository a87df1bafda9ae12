SPECIFICATION CodeSpec
CONSTANTS
  w1 = w1  w2 = w2  right = right  other = other  c1 = c1  c2 = c2
  Worker <- TwoWorkers
  Password <- TwoPasswords
  Code <- TwoCodes
  MaxAttempts = 5
  LockoutPeriod = 1
  MaxTime = 2
  MaxInterrupted = 1
SYMMETRY Symmetry
INVARIANTS TypeOK LockWithinPeriod GuessesBounded UsesBounded
PROPERTY LockLiftedKnowingly
