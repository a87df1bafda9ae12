SPECIFICATION Spec
CONSTANTS
  w1 = w1  w2 = w2  right = right  other = other
  Worker <- TwoWorkers
  Password <- TwoPasswords
  MaxAttempts = 3
  LockoutPeriod = 2
  MaxTime = 4

INVARIANT LockedAfterMaxAttempts
