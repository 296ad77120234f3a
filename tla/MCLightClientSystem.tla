------------------------ MODULE MCLightClientSystem ------------------------
(***************************************************************************)
(* LightClientSystem for TLC: every public value that names a canonical    *)
(* block or a made-up one, a committee of each period or a made-up one,    *)
(* and a participation on each side of the threshold.  What is announced   *)
(* may also be another node of a state, of which one stands for all.  A    *)
(* proof skips one check at most.  No storage or inclusion results: they   *)
(* do not interact with the consensus values.                              *)
(***************************************************************************)
EXTENDS LightClientSystem

MCMaySkip == {{}} \cup {{check} : check \in Check}

MCBlocks ==
  {CanonicalBlock(slot) : slot \in Slot} \cup {[slot |-> 2, canonical |-> FALSE]}

MCMadeUp == Committee(1, FALSE)

MCSigners == SyncCommittees \cup {MCMadeUp}

MCAnnounced ==
  {Committee(period, TRUE) : period \in 1..Period(MaxSlot) + 1}
    \cup {Zero, MCMadeUp, StateRoot(CanonicalBlock(2))}

MCPublicValues ==
  { [ finalizedSlot            |-> block.slot,
      finalizedHeaderRoot      |-> HeaderRoot(block),
      finalizedStateRoot       |-> StateRoot(block),
      currentSyncCommitteeHash |-> signers,
      nextSyncCommitteeHash    |-> announced,
      participation            |-> participation,
      numStorageSlots          |-> 0,
      storageProofAddress      |-> CHOOSE a \in Address : TRUE,
      storageProofStorageRoot  |-> Zero,
      numL2StorageSlots        |-> 0,
      l2StateRoot              |-> Zero,
      numVerifiedBlocks        |-> 0,
      blockHashCommitment      |-> Zero ]
    : block \in MCBlocks, signers \in MCSigners,
      announced \in MCAnnounced, participation \in {1, CommitteeSize} }

MCCheckpoints ==
  { [ slot              |-> slot,
      headerRoot        |-> HeaderRoot(CanonicalBlock(slot)),
      stateRoot         |-> StateRoot(CanonicalBlock(slot)),
      syncCommitteeHash |-> committee ]
    : slot \in Slot, committee \in SyncCommittees }

\* The hypotheses of the theorem about NewestUpdateAccepted.
ASSUME PlainProofsPossible /\ MinParticipation <= CommitteeSize
=============================================================================
