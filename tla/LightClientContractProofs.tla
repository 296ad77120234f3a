--------------------- MODULE LightClientContractProofs ---------------------
(***************************************************************************)
(* What the contract guarantees for every set of provable public values    *)
(* and every checkpoint: nothing here depends on what the guest checks.    *)
(***************************************************************************)
EXTENDS LightClientContract, TLAPS

\* The inductive invariant: the maps are empty after the head, the summary
\* is the head's entry, and before initialize there is no head.
ContractInv == TypeOK /\ NothingAfterHead /\ LatestMatchesHistory

LEMMA ZeroTyped == Zero \in Bytes32
  BY DEF Zero, Bytes32, Hash, Tag

LEMMA SlotTyped == 0 \in Slot /\ Slot \subseteq Nat
  BY MaxSlotAssumption DEF Slot

-----------------------------------------------------------------------------
(* Types *)

LEMMA InitTyped == Init => TypeOK
  BY ZeroTyped, SlotTyped DEF Init, TypeOK

LEMMA InitializeTyped ==
  ASSUME TypeOK, NEW checkpoint \in Checkpoints, Initialize(checkpoint)
  PROVE  TypeOK'
<1>1. checkpoint \in CheckpointType
  BY CheckpointsAssumption
<1>2. QED
  BY <1>1 DEF TypeOK, Initialize, CheckpointType, results

LEMMA UpdateTyped ==
  ASSUME TypeOK, NEW pv \in PublicValuesType, Update(pv)
  PROVE  TypeOK'
<1> USE DEF PublicValuesType
<1>1. /\ currentSyncCommitteeHash' \in Bytes32
      /\ nextSyncCommitteeHash' \in Bytes32
  BY ZeroTyped DEF TypeOK, Update, RotateCommittees
<1>2. /\ head' \in Slot
      /\ finalizedHeaderRoot' \in Bytes32
      /\ finalizedStateRoot' \in Bytes32
      /\ finalizedHeaderRoots' \in [Slot -> Bytes32]
      /\ finalizedStateRoots' \in [Slot -> Bytes32]
  BY DEF TypeOK, Update, RecordCheckpoint
<1>3. verifiedStorageRoots' \in [Slot -> [Address -> Bytes32]]
  BY DEF TypeOK, Update, RecordResults
<1>4. /\ verifiedL2StateRoots' \in [Slot -> Bytes32]
      /\ blockHashCommitments' \in [Slot -> Bytes32]
  BY DEF TypeOK, Update, RecordResults
<1>5. initialized' \in BOOLEAN
  BY DEF TypeOK, Update
<1>6. QED
  BY <1>1, <1>2, <1>3, <1>4, <1>5 DEF TypeOK

-----------------------------------------------------------------------------
(* The invariant *)

LEMMA InitInv == Init => ContractInv
<1> SUFFICES ASSUME Init PROVE NothingAfterHead /\ LatestMatchesHistory
  BY InitTyped DEF ContractInv
<1>1. QED
  BY DEF Init, NothingAfterHead, LatestMatchesHistory

LEMMA InitializeInv ==
  ASSUME ContractInv, NEW checkpoint \in Checkpoints, Initialize(checkpoint)
  PROVE  ContractInv'
<1>1. TypeOK'
  BY InitializeTyped DEF ContractInv
<1>2. checkpoint \in CheckpointType
  BY CheckpointsAssumption
<1> USE <1>2 DEF CheckpointType, Initialize, ContractInv, TypeOK, results
<1>3. LatestMatchesHistory'
  BY DEF LatestMatchesHistory
<1>4. NothingAfterHead'
  BY SlotTyped DEF NothingAfterHead
<1>5. QED
  BY <1>1, <1>3, <1>4

LEMMA UpdateInv ==
  ASSUME ContractInv, NEW pv \in PublicValuesType, Update(pv)
  PROVE  ContractInv'
<1>1. TypeOK'
  BY UpdateTyped DEF ContractInv
<1>2. initialized /\ pv.finalizedSlot > head /\ head' = pv.finalizedSlot
  BY DEF Update, ValidateUpdate, NewerSlot, RecordCheckpoint
<1>3. LatestMatchesHistory'
  BY DEF ContractInv, TypeOK, LatestMatchesHistory, Update, RecordCheckpoint,
         PublicValuesType
<1>4. ASSUME NEW s \in Slot, s > head'
      PROVE  /\ finalizedHeaderRoots'[s] = finalizedHeaderRoots[s]
             /\ finalizedStateRoots'[s] = finalizedStateRoots[s]
             /\ verifiedStorageRoots'[s] = verifiedStorageRoots[s]
             /\ verifiedL2StateRoots'[s] = verifiedL2StateRoots[s]
             /\ blockHashCommitments'[s] = blockHashCommitments[s]
             /\ s > head
  <2>1. s # pv.finalizedSlot /\ s > head
    BY <1>2, <1>4, SlotTyped DEF ContractInv, TypeOK, PublicValuesType
  <2>2. QED
    BY <2>1 DEF ContractInv, TypeOK, Update, RecordCheckpoint, RecordResults,
                PublicValuesType
<1>5. NothingAfterHead'
  BY <1>2, <1>4 DEF NothingAfterHead, ContractInv, Update
<1>6. QED
  BY <1>1, <1>3, <1>5 DEF ContractInv

LEMMA StutterInv ==
  ASSUME ContractInv, UNCHANGED contractVars
  PROVE  ContractInv'
  BY DEF ContractInv, TypeOK, NothingAfterHead, LatestMatchesHistory,
         contractVars, latest, committees, history, results

\* Every reachable state of the contract is well typed, holds nothing after
\* its head and has a summary that agrees with its history.
THEOREM ContractInvariant == Spec => []ContractInv
<1>1. Init => ContractInv
  BY InitInv
<1>2. ContractInv /\ [Next]_contractVars => ContractInv'
  <2> SUFFICES ASSUME ContractInv, [Next]_contractVars PROVE ContractInv'
    OBVIOUS
  <2>1. CASE UNCHANGED contractVars
    BY <2>1, StutterInv
  <2>2. ASSUME NEW checkpoint \in Checkpoints, Initialize(checkpoint)
        PROVE  ContractInv'
    BY <2>2, InitializeInv
  <2>3. ASSUME NEW pv \in PublicValues, Update(pv)
        PROVE  ContractInv'
    BY <2>3, UpdateInv, PublicValuesAssumption
  <2>4. QED
    BY <2>1, <2>2, <2>3 DEF Next
<1>3. QED
  BY <1>1, <1>2, PTL DEF Spec

\* Every storage variable keeps its type under initialize and update, for
\* public values and checkpoints of any number and any shape.
THEOREM TypeCorrect == Spec => []TypeOK
<1>1. ContractInv => TypeOK
  BY DEF ContractInv
<1>2. QED
  BY <1>1, ContractInvariant, PTL

\* No map has an entry for a slot the head has not passed.
THEOREM NothingStoredAfterHead == Spec => []NothingAfterHead
<1>1. ContractInv => NothingAfterHead
  BY DEF ContractInv
<1>2. QED
  BY <1>1, ContractInvariant, PTL

\* The summary of getState and the entries of the maps at the head agree.
THEOREM SummaryMatchesHistory == Spec => []LatestMatchesHistory
<1>1. ContractInv => LatestMatchesHistory
  BY DEF ContractInv
<1>2. QED
  BY <1>1, ContractInvariant, PTL

-----------------------------------------------------------------------------
(* What a step may not do *)

\* An accepted update writes only at its own slot, after the head.
LEMMA UpdateKeepsPast ==
  ASSUME TypeOK, NEW pv \in PublicValuesType, Update(pv), NEW s \in 0..head
  PROVE  /\ finalizedHeaderRoots'[s] = finalizedHeaderRoots[s]
         /\ finalizedStateRoots'[s] = finalizedStateRoots[s]
         /\ verifiedStorageRoots'[s] = verifiedStorageRoots[s]
         /\ verifiedL2StateRoots'[s] = verifiedL2StateRoots[s]
         /\ blockHashCommitments'[s] = blockHashCommitments[s]
<1>1. s \in Slot /\ s # pv.finalizedSlot
  BY MaxSlotAssumption
  DEF TypeOK, Slot, Update, ValidateUpdate, NewerSlot, PublicValuesType
<1>2. QED
  BY <1>1 DEF TypeOK, Update, RecordCheckpoint, RecordResults, PublicValuesType

\* What has been stored for a slot up to the head is never written again, in
\* any of the five maps.
THEOREM HistoryIsFinal == Spec => HistoryFinal
<1> DEFINE PastKept ==
      initialized =>
        \A s \in 0..head :
          /\ finalizedHeaderRoots'[s] = finalizedHeaderRoots[s]
          /\ finalizedStateRoots'[s] = finalizedStateRoots[s]
          /\ verifiedStorageRoots'[s] = verifiedStorageRoots[s]
          /\ verifiedL2StateRoots'[s] = verifiedL2StateRoots[s]
          /\ blockHashCommitments'[s] = blockHashCommitments[s]
<1>1. TypeOK /\ Next => PastKept
  <2> SUFFICES ASSUME TypeOK, Next, initialized PROVE PastKept
    OBVIOUS
  <2>1. PICK pv \in PublicValues : Update(pv)
    BY DEF Next, Initialize
  <2>2. QED
    BY <2>1, UpdateKeepsPast, PublicValuesAssumption
<1>2. QED
  BY <1>1, TypeCorrect, PTL DEF Spec, HistoryFinal
=============================================================================
