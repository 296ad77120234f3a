SPECIFICATION SystemSpec
CONSTANTS
  MaxSlot = 4
  SlotsPerPeriod = 2
  CommitteeSize = 3
  MinParticipation = 2
  Address = {a1}
  MaySkip <- MCMaySkip
  PublicValues <- MCPublicValues
  Checkpoints <- MCCheckpoints
INVARIANTS
  StoredRootsFinalized
  CommitteesTrackChain
  NewestUpdateAccepted
PROPERTIES
  HandoverKept
  FollowsFinality
CHECK_DEADLOCK FALSE
