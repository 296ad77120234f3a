SPECIFICATION ServerSpec
CONSTANTS
  MaxSlot = 3
  SlotsPerPeriod = 2
  CommitteeSize = 3
  Address = {a1}
  JobId = {j1, j2}
INVARIANT FetchedCommitteeCurrent
CHECK_DEADLOCK FALSE
