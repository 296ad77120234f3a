SPECIFICATION LiveSpec
CONSTANTS
  MaxSlot = 3
  SlotsPerPeriod = 2
  CommitteeSize = 3
  Address = {a1}
  JobId = {j1, j2}
INVARIANTS
  ServerTypeOK
  FullProofsMatchSigners
PROPERTIES
  OutcomesKept
  JobsEnd
CHECK_DEADLOCK FALSE
