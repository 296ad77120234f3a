SPECIFICATION MCSpec
CONSTANTS
  MaxSlot = 2
  SlotsPerPeriod = 1
  CommitteeSize = 3
  MinParticipation = 2
  MaxBlock = 257
  a1 = a1
  a2 = a2
  Address = {a1, a2}
  PublicValues <- MCPublicValues
  Checkpoints <- MCCheckpoints
  InclusionInputs <- MCInclusionInputs
  Submissions <- MCSubmissions
INVARIANTS
  TypeOK
  NothingAfterHead
  LatestMatchesHistory
  OracleTypeOK
  RangeIsTight
  HashesWereCommitted
  RecordedCanBeOpened
  RecordedConsecutive
PROPERTIES
  HistoryFinal
  NoReplay
CHECK_DEADLOCK FALSE
