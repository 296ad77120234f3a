SPECIFICATION SyncSpec
CONSTANTS
  MaxSlot = 5
  SlotsPerPeriod = 2
  CommitteeSize = 3
  Address = {a1}
  Process = {p1}
  AltairPeriod = 0
  BatchSize = 2
INVARIANT CarriedCommitteeFits
CHECK_DEADLOCK FALSE
