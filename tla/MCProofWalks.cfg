SPECIFICATION Spec
CONSTANTS
  Nibble <- MCNibble
  PathLength = 3
  Short <- MCShort
  Tries <- MCTries
  Proofs <- MCProofs
  States <- MCStates
  Claims <- MCClaims
  v1 = v1
  v2 = v2
  tiny = tiny
  None = None
INVARIANTS
  AnswersFromTrie
  HonestProofAnswered
  CutProofRefused
  AcceptedInItsPlace
  HonestBranchAccepted
CHECK_DEADLOCK FALSE
