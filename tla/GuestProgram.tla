---------------------------- MODULE GuestProgram ----------------------------
(***************************************************************************)
(* program/src/main.rs and verify_light_client_update of                   *)
(* lib/src/consensus.rs: which inputs the zkVM program accepts, and the    *)
(* public values it then commits to.  The program keeps no state and knows *)
(* nothing of the contract; a proof exists for exactly the inputs it runs  *)
(* to the end on, and stays valid forever.                                 *)
(*                                                                         *)
(* The storage, L2 and block-inclusion steps of the program do not touch   *)
(* the consensus values and are absent from the inputs here.               *)
(***************************************************************************)
EXTENDS BeaconChain

MinSyncCommitteeParticipants == 1

\* An absent optional input.  Its shape is that of a block or of a hash.
NoBlock == [slot |-> -1, canonical |-> FALSE]
NoCommittee == Zero

(***************************************************************************)
(* LightClientUpdate: attested header, signature slot, number of bits set, *)
(* and optional finality and rotation data.  The other inputs are the hash *)
(* of the current sync committee and, optionally, its public keys, which   *)
(* are named by the hash they have.                                        *)
(***************************************************************************)
LightClientUpdate ==
  [ attestedHeader      : Block,
    signatureSlot       : Slot,
    participation       : 0..CommitteeSize,
    finalityUpdate      : Block \cup {NoBlock},
    syncCommitteeUpdate : Bytes32 ]

HasFinality(update) == update.finalityUpdate # NoBlock
HasRotation(update) == update.syncCommitteeUpdate # NoCommittee

VerifyParticipation(update) ==
  update.participation >= MinSyncCommitteeParticipants

VerifySignatureSlot(update) ==
  update.signatureSlot > update.attestedHeader.slot

\* Faulty variant: the finalized header's Merkle branch is not checked.
VerifyFinalitySlotOnly(update) ==
  HasFinality(update) =>
    update.attestedHeader.slot >= update.finalityUpdate.slot

VerifyFinality(update) ==
  HasFinality(update) =>
    /\ update.attestedHeader.slot >= update.finalityUpdate.slot
    /\ CommitsToFinalized(update.attestedHeader,
                          HeaderRoot(update.finalityUpdate))

\* What is announced stands at the place of the next sync committee.
RotationInPlace(update) ==
  HasRotation(update) =>
    CommitsToNextCommittee(update.attestedHeader, update.syncCommitteeUpdate)

\* The hash announced is any 32 bytes, and the depth of its branch is the
\* number of siblings given: a branch of another length leads to another node
\* of the state, one without siblings to the state root itself.
VerifyRotation(update) ==
  \/ RotationInPlace(update)
  \/ update.syncCommitteeUpdate \in {StateRoot(update.attestedHeader),
                                     InnerNode(update.attestedHeader)}

\* Without public keys the signature is not looked at.  It was made in slot
\* signedIn of the chain, which signatureSlot of the inputs need not be: the
\* signing root covers the attested header alone.  The owners of keys the
\* chain never gave a committee sign whatever they like.
VerifySignature(update, currentSyncCommitteeHash, syncCommittee, signedIn) ==
  syncCommittee # NoCommittee =>
    /\ syncCommittee = currentSyncCommitteeHash
    /\ \/ /\ syncCommittee = Committee(Period(signedIn), TRUE)
          /\ SignatureExists(update.attestedHeader, signedIn,
                             update.participation)
       \/ syncCommittee = Committee(Period(signedIn), FALSE)

\* verify_light_client_update accepts the update that passes this and
\* VerifySignature.
VerifyUpdate(update) ==
  /\ VerifyParticipation(update)
  /\ VerifySignatureSlot(update)
  /\ VerifyFinality(update)
  /\ VerifyRotation(update)

\* Without finality data the attested header takes the finalized one's place.
ResultHeader(update) ==
  IF HasFinality(update) THEN update.finalityUpdate
                         ELSE update.attestedHeader

CommitsTo(update, currentSyncCommitteeHash, pv) ==
  /\ pv.finalizedSlot = ResultHeader(update).slot
  /\ pv.finalizedHeaderRoot = HeaderRoot(ResultHeader(update))
  /\ pv.finalizedStateRoot = StateRoot(ResultHeader(update))
  /\ pv.currentSyncCommitteeHash = currentSyncCommitteeHash
  /\ pv.nextSyncCommitteeHash = update.syncCommitteeUpdate
  /\ pv.participation = update.participation
=============================================================================
