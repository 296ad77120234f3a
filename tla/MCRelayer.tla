------------------------------ MODULE MCRelayer ------------------------------
(***************************************************************************)
(* Relayer for TLC: the public values bin/evm can make a proof of, on a    *)
(* chain of three committee periods with one fork in the middle of the     *)
(* first period and one at the start of the last.                          *)
(***************************************************************************)
EXTENDS Relayer

MCForkEpochs == <<1, 4>>

MCPublicValues ==
  { [ finalizedSlot            |-> slot,
      finalizedHeaderRoot      |-> HeaderRoot(CanonicalBlock(slot)),
      finalizedStateRoot       |-> StateRoot(CanonicalBlock(slot)),
      currentSyncCommitteeHash |-> PeriodPlaceholder(period),
      nextSyncCommitteeHash    |-> Zero,
      participation            |-> CommitteeSize,
      numStorageSlots          |-> 0,
      storageProofAddress      |-> CHOOSE a \in Address : TRUE,
      storageProofStorageRoot  |-> Zero,
      numL2StorageSlots        |-> 0,
      l2StateRoot              |-> Zero,
      numVerifiedBlocks        |-> 0,
      blockHashCommitment      |-> Zero ]
    : slot \in Slot, period \in 0..Period(MaxSlot) }
=============================================================================
