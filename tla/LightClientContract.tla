------------------------ MODULE LightClientContract ------------------------
(***************************************************************************)
(* contracts/src/SP1EthereumLightClient.sol.                               *)
(*                                                                         *)
(* Every external function is one transaction: it either reverts and       *)
(* leaves the storage alone (no step) or runs to its end (one step).       *)
(* initialize and update may be called by anyone, at any time, with        *)
(* anything; what limits update is that the verifier contract accepts the  *)
(* proof, here that the values are in PublicValues.  In this module that   *)
(* set is arbitrary, so what is shown of the contract holds whatever the   *)
(* guest program proves; LightClientSystem narrows it to what the guest    *)
(* accepts.                                                                *)
(***************************************************************************)
EXTENDS LightClientTypes

CONSTANTS
  MinParticipation,  \* the immutable minParticipation
  PublicValues,      \* the values some proof that verifies commits to
  Checkpoints        \* the arguments initialize may be called with

CheckpointType ==
  [slot : Slot, headerRoot : Bytes32, stateRoot : Bytes32,
   syncCommitteeHash : Bytes32]

ASSUME MinParticipationAssumption == MinParticipation \in Nat
ASSUME PublicValuesAssumption == PublicValues \subseteq PublicValuesType
ASSUME CheckpointsAssumption == Checkpoints \subseteq CheckpointType

VARIABLES
  head,                      \* latest verified finalized slot
  finalizedHeaderRoot,       \* header root of the latest slot
  finalizedStateRoot,        \* state root of the latest slot
  currentSyncCommitteeHash,
  nextSyncCommitteeHash,     \* Zero while not known
  finalizedHeaderRoots,      \* slot -> header root
  finalizedStateRoots,       \* slot -> state root
  initialized,
  verifiedStorageRoots,      \* slot -> account -> storage root
  verifiedL2StateRoots,      \* slot -> L2 state root
  blockHashCommitments       \* slot -> commitment over block hashes

committees == <<currentSyncCommitteeHash, nextSyncCommitteeHash>>
latest == <<head, finalizedHeaderRoot, finalizedStateRoot>>
results == <<verifiedStorageRoots, verifiedL2StateRoots, blockHashCommitments>>
history == <<finalizedHeaderRoots, finalizedStateRoots, results>>

contractVars == <<initialized, latest, committees, history>>

TypeOK ==
  /\ head \in Slot
  /\ finalizedHeaderRoot \in Bytes32
  /\ finalizedStateRoot \in Bytes32
  /\ currentSyncCommitteeHash \in Bytes32
  /\ nextSyncCommitteeHash \in Bytes32
  /\ finalizedHeaderRoots \in [Slot -> Bytes32]
  /\ finalizedStateRoots \in [Slot -> Bytes32]
  /\ initialized \in BOOLEAN
  /\ verifiedStorageRoots \in [Slot -> [Address -> Bytes32]]
  /\ verifiedL2StateRoots \in [Slot -> Bytes32]
  /\ blockHashCommitments \in [Slot -> Bytes32]

\* The storage a fresh deployment starts with.
Init ==
  /\ head = 0
  /\ finalizedHeaderRoot = Zero
  /\ finalizedStateRoot = Zero
  /\ currentSyncCommitteeHash = Zero
  /\ nextSyncCommitteeHash = Zero
  /\ finalizedHeaderRoots = [s \in Slot |-> Zero]
  /\ finalizedStateRoots = [s \in Slot |-> Zero]
  /\ initialized = FALSE
  /\ verifiedStorageRoots = [s \in Slot |-> [a \in Address |-> Zero]]
  /\ verifiedL2StateRoots = [s \in Slot |-> Zero]
  /\ blockHashCommitments = [s \in Slot |-> Zero]

-----------------------------------------------------------------------------
(* initialize *)

\* Faulty variant: the checkpoint itself still has to be proved.
InitializeExclusive(checkpoint) ==
  /\ ~initialized
  /\ head' = checkpoint.slot - 1
  /\ initialized' = TRUE
  /\ currentSyncCommitteeHash' = checkpoint.syncCommitteeHash
  /\ UNCHANGED <<finalizedHeaderRoot, finalizedStateRoot,
                 nextSyncCommitteeHash, history>>

Initialize(checkpoint) ==
  /\ ~initialized
  /\ head' = checkpoint.slot
  /\ finalizedHeaderRoot' = checkpoint.headerRoot
  /\ finalizedStateRoot' = checkpoint.stateRoot
  /\ currentSyncCommitteeHash' = checkpoint.syncCommitteeHash
  /\ initialized' = TRUE
  /\ finalizedHeaderRoots' =
       [finalizedHeaderRoots EXCEPT ![checkpoint.slot] = checkpoint.headerRoot]
  /\ finalizedStateRoots' =
       [finalizedStateRoots EXCEPT ![checkpoint.slot] = checkpoint.stateRoot]
  /\ UNCHANGED <<nextSyncCommitteeHash, results>>

-----------------------------------------------------------------------------
(* update *)

\* Faulty variants of the three checks of _validateUpdate.
AnySlot(pv) == TRUE
SameOrNewerSlot(pv) == pv.finalizedSlot >= head
AnyParticipation(pv) == TRUE
AnyCommittee(pv) == TRUE
CurrentCommitteeOnly(pv) ==
  pv.currentSyncCommitteeHash = currentSyncCommitteeHash

NewerSlot(pv) == pv.finalizedSlot > head

EnoughParticipation(pv) == pv.participation >= MinParticipation

\* The signers are the current committee, or the announced next one.
KnownCommittee(pv) ==
  \/ pv.currentSyncCommitteeHash = currentSyncCommitteeHash
  \/ /\ nextSyncCommitteeHash # Zero
     /\ pv.currentSyncCommitteeHash = nextSyncCommitteeHash

ValidateUpdate(pv) ==
  /\ NewerSlot(pv)
  /\ EnoughParticipation(pv)
  /\ KnownCommittee(pv)

\* The proof was signed by the announced committee: it takes over.
CrossesPeriod(pv) ==
  /\ nextSyncCommitteeHash # Zero
  /\ pv.currentSyncCommitteeHash = nextSyncCommitteeHash

\* A newly announced committee replaces the one that was waiting; taking
\* over clears it.
RotateCommittees(pv) ==
  /\ currentSyncCommitteeHash' =
       IF CrossesPeriod(pv) THEN nextSyncCommitteeHash
                            ELSE currentSyncCommitteeHash
  /\ nextSyncCommitteeHash' =
       CASE pv.nextSyncCommitteeHash # Zero -> pv.nextSyncCommitteeHash
         [] OTHER -> IF CrossesPeriod(pv) THEN Zero ELSE nextSyncCommitteeHash

\* Faulty variant: the maps are written before the head moves, at its slot.
RecordAtOldHead(pv) ==
  /\ head' = pv.finalizedSlot
  /\ finalizedHeaderRoot' = pv.finalizedHeaderRoot
  /\ finalizedStateRoot' = pv.finalizedStateRoot
  /\ finalizedHeaderRoots' =
       [finalizedHeaderRoots EXCEPT ![head] = pv.finalizedHeaderRoot]
  /\ finalizedStateRoots' =
       [finalizedStateRoots EXCEPT ![head] = pv.finalizedStateRoot]

RecordCheckpoint(pv) ==
  /\ head' = pv.finalizedSlot
  /\ finalizedHeaderRoot' = pv.finalizedHeaderRoot
  /\ finalizedStateRoot' = pv.finalizedStateRoot
  /\ finalizedHeaderRoots' =
       [finalizedHeaderRoots EXCEPT ![pv.finalizedSlot] = pv.finalizedHeaderRoot]
  /\ finalizedStateRoots' =
       [finalizedStateRoots EXCEPT ![pv.finalizedSlot] = pv.finalizedStateRoot]

\* Storage, L2 and block-inclusion results are stored only when the proof
\* carries at least one of them.
RecordResults(pv) ==
  /\ verifiedStorageRoots' =
       IF pv.numStorageSlots > 0
       THEN [verifiedStorageRoots EXCEPT
               ![pv.finalizedSlot][pv.storageProofAddress] =
                 pv.storageProofStorageRoot]
       ELSE verifiedStorageRoots
  /\ verifiedL2StateRoots' =
       IF pv.numL2StorageSlots > 0
       THEN [verifiedL2StateRoots EXCEPT ![pv.finalizedSlot] = pv.l2StateRoot]
       ELSE verifiedL2StateRoots
  /\ blockHashCommitments' =
       IF pv.numVerifiedBlocks > 0
       THEN [blockHashCommitments EXCEPT
               ![pv.finalizedSlot] = pv.blockHashCommitment]
       ELSE blockHashCommitments

Update(pv) ==
  /\ initialized
  /\ ValidateUpdate(pv)
  /\ RotateCommittees(pv)
  /\ RecordCheckpoint(pv)
  /\ RecordResults(pv)
  /\ UNCHANGED initialized

-----------------------------------------------------------------------------

Next ==
  \/ \E checkpoint \in Checkpoints : Initialize(checkpoint)
  \/ \E pv \in PublicValues : Update(pv)

Spec == Init /\ [][Next]_contractVars

-----------------------------------------------------------------------------
(* Properties *)

\* Whatever was proved, no map holds anything for a slot after the head: a
\* reader who trusts an entry never sees one the head has not passed.
NothingAfterHead ==
  \A s \in Slot :
    (~initialized \/ s > head) =>
      /\ finalizedHeaderRoots[s] = Zero
      /\ finalizedStateRoots[s] = Zero
      /\ verifiedStorageRoots[s] = [a \in Address |-> Zero]
      /\ verifiedL2StateRoots[s] = Zero
      /\ blockHashCommitments[s] = Zero

\* The summary getState returns and the history maps are written by
\* different statements of initialize and update; they always agree.
LatestMatchesHistory ==
  initialized =>
    /\ finalizedHeaderRoot = finalizedHeaderRoots[head]
    /\ finalizedStateRoot = finalizedStateRoots[head]

\* A call writes the maps at the new head only, which is later than every
\* slot written before: what a consumer has read for a slot up to the head
\* never changes, in any of the five maps.
HistoryFinal ==
  [][ initialized =>
        \A s \in 0..head :
          /\ finalizedHeaderRoots'[s] = finalizedHeaderRoots[s]
          /\ finalizedStateRoots'[s] = finalizedStateRoots[s]
          /\ verifiedStorageRoots'[s] = verifiedStorageRoots[s]
          /\ verifiedL2StateRoots'[s] = verifiedL2StateRoots[s]
          /\ blockHashCommitments'[s] = blockHashCommitments[s]
    ]_contractVars
=============================================================================
