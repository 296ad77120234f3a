SPECIFICATION StateSpec
CONSTANTS
  Nibble <- MCNibble
  PathLength = 2
  Short = {}
  AddressPath <- MCAddressPath
  SlotPath <- MCSlotPath
  OracleAddress = "oracle"
  MessagePasserAddress = "passer"
  BridgeAddress = "bridge"
  GenesisL1 <- MCGenesisL1
  GenesisL2 <- MCGenesisL2
  Messages <- MCMessages
  Requests <- MCRequests
  MaxOutputs = 2
  MaxHeight = 3
  m1 = m1
  Kinds = {"guest"}
INVARIANTS
  GuestAcceptsHonestProofs
CHECK_DEADLOCK FALSE
