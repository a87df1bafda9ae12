SPECIFICATION FairSpec
CONSTANTS
  a1 = a1  a2 = a2  NoAddress = NoAddress
  Address = {a1, a2}
  MaxCheck = 2
  i1 = i1  i2 = i2
  Item <- TwoRows
  Rows <- OneRow
  s1 = s1  s2 = s2  NoServer = NoServer
  Server = {s1, s2}
  Role = {"admin"}
  MaxLoads = 2
  MaxWrites <- WritesPerPage
INVARIANTS TypeOK FormLocked CodeFormNamesAddress ListIsCurrent OneSubmission
PROPERTIES SpinnersEnd LoginUnlocks
CHECK_DEADLOCK FALSE
