SPECIFICATION RelaySpec
CONSTANTS
  MaxSlot = 6
  SlotsPerPeriod = 2
  CommitteeSize = 3
  MinParticipation = 2
  Address = {a1}
  Operator = {o1}
  SlotsPerEpoch = 1
  ForkEpochs <- MCForkEpochs
  PublicValues <- MCPublicValues
  Checkpoints = {}
INVARIANTS
  RefusedIffOtherCommittee
  ConfinedToPeriod
PROPERTIES
  CatchesUp
