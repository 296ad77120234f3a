SPECIFICATION StateSpec
CONSTANTS
  Nibble <- MCNibble
  PathLength = 2
  Short = {}
  AddressPath <- MCAddressPath
  SlotPath <- MCSlotPath
  OracleAddress = "oracle"
  MessagePasserAddress = "passer"
  BridgeAddress = "bridge"
  GenesisL1 <- MCGenesisL1
  GenesisL2 <- MCGenesisL2
  Messages <- MCMessages
  Requests <- MCRequests
  MaxHeight = 3
  MaxOutputs = 2
  m1 = m1
  Kinds = {"storage", "message", "withdrawal"}
INVARIANTS
  AnswerOfOneBlock
  ProvenMessagesWereSent
  HonestPartsAccepted
CHECK_DEADLOCK FALSE
