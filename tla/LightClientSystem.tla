------------------------- MODULE LightClientSystem -------------------------
(***************************************************************************)
(* The beacon chain, provers running the guest program, and the contract.  *)
(*                                                                         *)
(* A proof is bound to the inputs it was made from and not to the state of *)
(* the contract, and it never expires, so there is no pool of proofs: at   *)
(* every moment any public values the guest can be made to commit to may   *)
(* reach update, once or again, late, or out of order.                     *)
(*                                                                         *)
(* A prover chooses what the guest checks: without finality data, without  *)
(* the committee's public keys, or with a branch that does not lead to the *)
(* place of the next committee, the guest runs to its end all the same and *)
(* commits to public values that look like any others.  MaySkip says which *)
(* of the three checks provers make the guest skip in one proof.           *)
(***************************************************************************)
EXTENDS LightClientContract, GuestProgram

CONSTANT MaySkip

Check == {"finality", "signature", "place"}

ASSUME MaySkipAssumption == MaySkip \subseteq SUBSET Check

\* The contract is deployed with a threshold of two thirds (342 of 512).
ASSUME ThresholdAssumption == Supermajority(MinParticipation)

\* What a reader cannot see in the contract: history variables, which no
\* action's guard reads.
VARIABLES
  skipped,  \* the checks that were skipped in some proof accepted so far
  hearsay,  \* an unchecked proof announced the next committee
  vouched   \* the slots that rest on the checkpoint and on checked proofs

historyVars == <<skipped, hearsay, vouched>>

vars == <<chainVars, contractVars, historyVars>>

(***************************************************************************)
(* Some inputs make the guest commit to pv and skip exactly the checks in  *)
(* skips.  What the guest copies from its inputs into the public values is *)
(* fixed by pv; the prover chooses the rest, from every block and every    *)
(* committee.  The signature slot is only compared with the attested slot: *)
(* one value on either side of the comparison is enough.                   *)
(***************************************************************************)
SyncCommittees == {Committee(period, TRUE) : period \in 0..Period(MaxSlot)}

MadeUpCommittees == {Committee(period, FALSE) : period \in 0..Period(MaxSlot)}

HeadersOf(root) == {block \in Block : HeaderRoot(block) = root}

ChosenFinality(root, skips) ==
  IF "finality" \in skips THEN {NoBlock} ELSE HeadersOf(root)

ChosenKeys(skips) ==
  IF "signature" \in skips THEN {NoCommittee}
                           ELSE SyncCommittees \cup MadeUpCommittees

ChosenUpdate(pv, attested, signatureSlot, finality) ==
  [ attestedHeader      |-> attested,
    signatureSlot       |-> signatureSlot,
    participation       |-> pv.participation,
    finalityUpdate      |-> finality,
    syncCommitteeUpdate |-> pv.nextSyncCommitteeHash ]

Provable(pv, skips) ==
  \E attested \in Block,
    finality \in ChosenFinality(pv.finalizedHeaderRoot, skips) :
  \E signatureSlot \in {attested.slot, MaxSlot} :
    LET update == ChosenUpdate(pv, attested, signatureSlot, finality) IN
    /\ CommitsTo(update, pv.currentSyncCommitteeHash, pv)
    /\ VerifyUpdate(update)
    /\ "place" \in skips <=> ~RotationInPlace(update)
    /\ \E keys \in ChosenKeys(skips), signedIn \in Slot :
         VerifySignature(update, pv.currentSyncCommitteeHash, keys, signedIn)

(***************************************************************************)
(* A proof vouches for its finalized block when neither the finality data  *)
(* nor the signature was skipped and the contract knows its committees     *)
(* from proofs that were checked.                                          *)
(***************************************************************************)
Unchecked(pv, skips) ==
  pv.nextSyncCommitteeHash # Zero /\ skips \cap {"signature", "place"} # {}

Remember(pv, skips) ==
  /\ skipped' = skipped \cup skips
  /\ hearsay' = (hearsay \/ Unchecked(pv, skips))
  /\ vouched' = IF hearsay \/ skips \cap {"finality", "signature"} # {}
                THEN vouched
                ELSE vouched \cup {pv.finalizedSlot}

-----------------------------------------------------------------------------

SystemInit ==
  /\ ChainInit
  /\ Init
  /\ skipped = {}
  /\ hearsay = FALSE
  /\ vouched = {}

ExtendChain == Extend /\ UNCHANGED <<contractVars, historyVars>>

(***************************************************************************)
(* A trusted checkpoint: final on the chain, with its own roots.  Its      *)
(* committee is that of the slot, as the contract's documentation asks, or *)
(* that of a later period, as the deployment script passes (the signers of *)
(* an update that is one period ahead of the slot).                        *)
(***************************************************************************)
TrustedCheckpoint(checkpoint) ==
  /\ checkpoint.slot <= FinalizedTip
  /\ checkpoint.headerRoot = HeaderRoot(CanonicalBlock(checkpoint.slot))
  /\ checkpoint.stateRoot = StateRoot(CanonicalBlock(checkpoint.slot))
  /\ \E period \in Period(checkpoint.slot)..Period(tip) :
       checkpoint.syncCommitteeHash = Committee(period, TRUE)

Deploy(checkpoint) ==
  /\ TrustedCheckpoint(checkpoint)
  /\ Initialize(checkpoint)
  /\ vouched' = {checkpoint.slot}
  /\ UNCHANGED <<chainVars, skipped, hearsay>>

Submit(pv, skips) ==
  /\ initialized
  /\ ValidateUpdate(pv)
  /\ Provable(pv, skips)
  /\ Update(pv)
  /\ Remember(pv, skips)
  /\ UNCHANGED chainVars

SystemNext ==
  \/ ExtendChain
  \/ \E checkpoint \in Checkpoints : Deploy(checkpoint)
  \/ \E pv \in PublicValues, skips \in MaySkip : Submit(pv, skips)

SystemSpec == SystemInit /\ [][SystemNext]_vars

-----------------------------------------------------------------------------
(* Properties *)

\* Whatever order proofs arrive in, and whatever proofs that skip checks come
\* in between, each slot the contract vouches for carries the roots of the
\* canonical block, of a checkpoint the chain has finalized; and as long as
\* no check was skipped it vouches for every slot it has a root for.  It rests
\* on the participation, finality and signature checks of the guest and the
\* committee, threshold and slot checks of the contract.
StoredRootsFinalized ==
  /\ \A s \in vouched :
       /\ s <= FinalizedTip
       /\ finalizedHeaderRoots[s] = HeaderRoot(CanonicalBlock(s))
       /\ finalizedStateRoots[s] = StateRoot(CanonicalBlock(s))
  /\ skipped = {} =>
       \A s \in Slot \ vouched :
         finalizedHeaderRoots[s] = Zero /\ finalizedStateRoots[s] = Zero

\* The current committee is that of a period and next to it is nothing, the
\* same committee again, or that of the following period.  (It is the same
\* committee after an update whose block is the last of a period and whose
\* signature is from the next.)
CommitteesOf(period) ==
  /\ currentSyncCommitteeHash = Committee(period, TRUE)
  /\ \/ nextSyncCommitteeHash = Zero
     \/ nextSyncCommitteeHash = Committee(period, TRUE)
     \/ nextSyncCommitteeHash = Committee(period + 1, TRUE)

\* Until an unchecked proof announces a committee, the contract keeps a pair
\* the chain has, whatever else is skipped: at most a proof nobody signed
\* lets the announced committee take over before its time.  While every
\* signature is checked the period is one the chain has reached and not
\* before the head's.
CommitteesTrackChain ==
  initialized /\ ~hearsay =>
    \E period \in 0..Period(tip) + 1 :
      /\ CommitteesOf(period)
      /\ "signature" \notin skipped => period \in Period(head)..Period(tip)

\* Once the contract has learned the committee that follows its current one
\* it keeps it until that committee takes over: no late or repeated proof
\* makes it forget the hand-over or announces an older committee instead.
\* What the guest checks of the announced committee and of the finality data
\* must not be skipped; proofs nobody signed do no harm if they announce
\* nothing.
HandoverKept ==
  [][ ~hearsay' /\ "finality" \notin skipped' =>
        \A period \in 0..Period(MaxSlot) :
          /\ currentSyncCommitteeHash = Committee(period, TRUE)
          /\ nextSyncCommitteeHash = Committee(period + 1, TRUE)
          => \/ UNCHANGED committees
             \/ currentSyncCommitteeHash' = Committee(period + 1, TRUE)
    ]_vars

\* Whatever was accepted before, checked or not, the update signed in the
\* newest slot goes through with all its checks when it finalizes something
\* new and the contract holds the committee that signed it: accepted proofs
\* lock the newest one out only by moving the head or the committees past it.
NewestUpdateAccepted ==
  LET signers == Committee(Period(tip), TRUE) IN
  /\ initialized
  /\ tip > 0
  /\ finalized[tip - 1] > head
  /\ signers \in {currentSyncCommitteeHash, nextSyncCommitteeHash}
  => \E pv \in PublicValues :
       /\ pv.finalizedSlot = finalized[tip - 1]
       /\ ValidateUpdate(pv)
       /\ Provable(pv, {})

\* What NewestUpdateAccepted asks of PublicValues: the proof a whole
\* committee signed, for any slot and period, without rotation or results, is
\* among them.
PlainProofsPossible ==
  \A slot \in Slot, period \in 0..Period(MaxSlot) :
    \E pv \in PublicValues :
      /\ pv.finalizedSlot = slot
      /\ pv.finalizedHeaderRoot = HeaderRoot(CanonicalBlock(slot))
      /\ pv.finalizedStateRoot = StateRoot(CanonicalBlock(slot))
      /\ pv.currentSyncCommitteeHash = Committee(period, TRUE)
      /\ pv.nextSyncCommitteeHash = Zero
      /\ pv.participation = CommitteeSize

\* SP1EthereumLightClient.sol:10-12 says "Each proof verifies: ... Finality
\* Merkle proof (finalized header in beacon state)": the head is a slot the
\* chain has finalized.
HeadFinalized == initialized => head <= FinalizedTip

-----------------------------------------------------------------------------
(***************************************************************************)
(* What the system promises a reader who knows which slots rest on checked *)
(* proofs: they follow the chain's finality, one newer checkpoint after    *)
(* another.  What unchecked proofs make the contract store is not among    *)
(* them, and takes none of them back.                                      *)
(***************************************************************************)
Follower == INSTANCE FinalityFollower WITH
  finalizedTip <- FinalizedTip, accepted <- vouched

FollowsFinality == Follower!Spec
=============================================================================
