SPECIFICATION LiveSpec
CONSTANTS
  MaxSlot = 5
  SlotsPerPeriod = 2
  CommitteeSize = 3
  Address = {a1}
  Process = {p1}
  AltairPeriod = 1
  BatchSize = 2
INVARIANTS
  SyncTypeOK
PROPERTIES
  CommitteesForward
  SavedHeadNeverBack
  EveryFinalitySaved
CHECK_DEADLOCK FALSE
