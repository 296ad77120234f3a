SPECIFICATION SystemSpec
CONSTANTS
  MaxSlot = 6
  SlotsPerPeriod = 2
  CommitteeSize = 3
  MinParticipation = 2
  Address = {a1}
  MaySkip = {{"finality"}}
  PublicValues <- MCPublicValues
  Checkpoints <- MCCheckpoints
INVARIANT HeadFinalized
CHECK_DEADLOCK FALSE
