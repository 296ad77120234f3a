---------------------- MODULE LightClientSystemProofs ----------------------
(***************************************************************************)
(* What the chain, the guest and the contract guarantee together, for      *)
(* chains, periods, committees and thresholds of any size, and whichever   *)
(* checks provers make the guest skip.                                     *)
(***************************************************************************)
EXTENDS LightClientSystem, LightClientContractProofs, BeaconChainProofs

\* Nothing is announced before the contract is initialized.
NothingAnnounced == ~initialized => nextSyncCommitteeHash = Zero

\* The contract vouches for slots up to its head, from its first one on.
VouchedUpToHead ==
  /\ vouched \in SUBSET Slot
  /\ hearsay \in BOOLEAN
  /\ initialized <=> vouched # {}
  /\ \A s \in vouched : s <= head
  /\ skipped = {} => ~hearsay

\* An announced hand-over was learned from a block of the current period,
\* and the head is not behind what that block finalizes.
HandoverBehind ==
  initialized /\ ~hearsay =>
    \A period \in Nat :
      /\ currentSyncCommitteeHash = Committee(period, TRUE)
      /\ nextSyncCommitteeHash = Committee(period + 1, TRUE)
      => \E a \in 0..tip : Period(a) = period /\ finalized[a] <= head

SystemInv ==
  /\ ContractInv
  /\ ChainInv
  /\ NothingAnnounced
  /\ VouchedUpToHead
  /\ StoredRootsFinalized
  /\ CommitteesTrackChain
  /\ HandoverBehind

-----------------------------------------------------------------------------
(* The contract and the chain by themselves *)

BaseInv == ContractInv /\ ChainInv

\* The contract and the chain, each by itself, keep their invariants.
LEMMA BaseInvariant == SystemSpec => []BaseInv
<1>1. SystemInit => BaseInv
  BY InitInv, ChainInitInv DEF SystemInit, BaseInv
<1>2. BaseInv /\ [SystemNext]_vars => BaseInv'
  <2> SUFFICES ASSUME BaseInv, [SystemNext]_vars PROVE BaseInv'
    OBVIOUS
  <2>1. CASE UNCHANGED chainVars
    <3>1. ChainInv'
      BY <2>1 DEF BaseInv, ChainInv, ChainTypeOK, FinalityMonotone, chainVars
    <3>2. ASSUME NEW checkpoint \in Checkpoints, Deploy(checkpoint)
          PROVE  ContractInv'
      BY <3>2, InitializeInv DEF Deploy, BaseInv
    <3>3. ASSUME NEW pv \in PublicValues, NEW skips \in MaySkip,
                 Submit(pv, skips)
          PROVE  ContractInv'
      BY <3>3, UpdateInv, PublicValuesAssumption DEF Submit, BaseInv
    <3>4. CASE UNCHANGED contractVars
      BY <3>1, <3>4, StutterInv DEF BaseInv
    <3>5. QED
      BY <3>1, <3>2, <3>3, <3>4 DEF SystemNext, ExtendChain, vars, BaseInv
  <2>2. CASE ExtendChain
    BY <2>2, ExtendInv, StutterInv DEF ExtendChain, BaseInv
  <2>3. QED
    BY <2>1, <2>2 DEF SystemNext, Deploy, Submit, vars
<1>3. QED
  BY <1>1, <1>2, PTL DEF SystemSpec

\* The public values of an update that the whole committee of the newest slot
\* signed, over the block before it, are proved by that update.
LEMMA NewestIsProvable ==
  ASSUME ChainInv, tip > 0, NEW pv \in PublicValuesType,
         pv.finalizedSlot = finalized[tip - 1],
         pv.finalizedHeaderRoot = HeaderRoot(CanonicalBlock(pv.finalizedSlot)),
         pv.finalizedStateRoot = StateRoot(CanonicalBlock(pv.finalizedSlot)),
         pv.currentSyncCommitteeHash = Committee(Period(tip), TRUE),
         pv.nextSyncCommitteeHash = Zero,
         pv.participation = CommitteeSize
  PROVE  Provable(pv, {})
<1> DEFINE attested == CanonicalBlock(tip - 1)
           finality == CanonicalBlock(pv.finalizedSlot)
           update == ChosenUpdate(pv, attested, MaxSlot, finality)
           keys == Committee(Period(tip), TRUE)
<1>1. /\ tip \in Slot /\ tip - 1 \in Slot /\ tip \in Nat /\ MaxSlot \in Nat
      /\ tip <= MaxSlot /\ pv.finalizedSlot \in Slot
  BY MaxSlotAssumption DEF ChainInv, ChainTypeOK, Slot, PublicValuesType
<1>2. pv.finalizedSlot \in Nat /\ pv.finalizedSlot <= tip - 1
  <2>1. tip - 1 \in 0..tip
    BY <1>1
  <2>2. finalized[tip - 1] <= tip - 1
    BY <2>1 DEF ChainInv, FinalityMonotone
  <2>3. QED
    BY <1>1, <2>2, SlotTyped
<1>3. /\ attested \in Block /\ finality \in Block
      /\ attested.slot = tip - 1 /\ attested.canonical = TRUE
      /\ finality.slot = pv.finalizedSlot
  BY <1>1, CanonicalBlockTyped
<1>4. finality \in ChosenFinality(pv.finalizedHeaderRoot, {})
  BY <1>3 DEF ChosenFinality, HeadersOf
<1>5. HasFinality(update)
  BY <1>2, <1>3 DEF HasFinality, NoBlock, ChosenUpdate
<1>6. keys \in ChosenKeys({})
  <2>1. Period(tip) \in 0..Period(MaxSlot)
    BY <1>1, PeriodBounds, PeriodMonotone
  <2>2. QED
    BY <2>1 DEF ChosenKeys, SyncCommittees
<1>7. CommitsTo(update, pv.currentSyncCommitteeHash, pv)
  BY <1>5 DEF CommitsTo, ResultHeader, ChosenUpdate, CanonicalBlock
<1>8. VerifyUpdate(update)
  <2>1. VerifyParticipation(update)
    BY CommitteeSizeAssumption
    DEF VerifyParticipation, MinSyncCommitteeParticipants, ChosenUpdate
  <2>2. VerifySignatureSlot(update)
    BY <1>1, <1>3 DEF VerifySignatureSlot, ChosenUpdate
  <2>3. VerifyFinality(update)
    BY <1>2, <1>3
    DEF VerifyFinality, ChosenUpdate, CommitsToFinalized
  <2>4. VerifyRotation(update)
    BY DEF VerifyRotation, RotationInPlace, HasRotation, ChosenUpdate,
           NoCommittee
  <2>5. QED
    BY <2>1, <2>2, <2>3, <2>4 DEF VerifyUpdate
<1>9. VerifySignature(update, pv.currentSyncCommitteeHash, keys, tip)
  <2>1. SignatureExists(attested, tip, CommitteeSize)
    BY <1>1, <1>3, SlotsPerPeriodAssumption, CommitteeSizeAssumption
    DEF SignatureExists
  <2>2. QED
    BY <1>1, <2>1 DEF VerifySignature, ChosenUpdate
<1>10. RotationInPlace(update)
  BY DEF RotationInPlace, HasRotation, ChosenUpdate, NoCommittee
<1>11. QED
  BY <1>1, <1>3, <1>4, <1>6, <1>7, <1>8, <1>9, <1>10 DEF Provable

\* Whatever was accepted before, and whatever checks provers skipped, the
\* update signed in the newest slot goes through with all of them.
THEOREM NewestUpdateIsAccepted ==
  ASSUME PlainProofsPossible, MinParticipation <= CommitteeSize
  PROVE  SystemSpec => []NewestUpdateAccepted
<1>1. BaseInv => NewestUpdateAccepted
  <2> DEFINE signers == Committee(Period(tip), TRUE)
  <2> SUFFICES ASSUME BaseInv, initialized, tip > 0,
                      finalized[tip - 1] > head,
                      signers \in {currentSyncCommitteeHash,
                                   nextSyncCommitteeHash}
               PROVE  \E pv \in PublicValues :
                        /\ pv.finalizedSlot = finalized[tip - 1]
                        /\ ValidateUpdate(pv)
                        /\ Provable(pv, {})
    BY DEF NewestUpdateAccepted
  <2>1. /\ tip \in Nat /\ MaxSlot \in Nat /\ tip <= MaxSlot
        /\ finalized[tip - 1] \in Slot
    BY MaxSlotAssumption DEF BaseInv, ChainInv, ChainTypeOK, Slot
  <2>2. Period(tip) \in 0..Period(MaxSlot) /\ Period(tip) \in Nat
    BY <2>1, PeriodBounds, PeriodMonotone
  <2>3. PICK pv \in PublicValues :
          /\ pv.finalizedSlot = finalized[tip - 1]
          /\ pv.finalizedHeaderRoot = HeaderRoot(CanonicalBlock(finalized[tip - 1]))
          /\ pv.finalizedStateRoot = StateRoot(CanonicalBlock(finalized[tip - 1]))
          /\ pv.currentSyncCommitteeHash = signers
          /\ pv.nextSyncCommitteeHash = Zero
          /\ pv.participation = CommitteeSize
    BY <2>1, <2>2 DEF PlainProofsPossible
  <2>4. ValidateUpdate(pv)
    <3>1. signers # Zero
      BY <2>2, HashesDiffer
    <3>2. KnownCommittee(pv)
      BY <2>3, <3>1 DEF KnownCommittee
    <3>3. NewerSlot(pv) /\ EnoughParticipation(pv)
      BY <2>3, CommitteeSizeAssumption, MinParticipationAssumption
      DEF NewerSlot, EnoughParticipation
    <3>4. QED
      BY <3>2, <3>3 DEF ValidateUpdate
  <2>5. Provable(pv, {})
    BY <2>3, NewestIsProvable, PublicValuesAssumption DEF BaseInv
  <2>6. QED
    BY <2>3, <2>4, <2>5
<1>2. QED
  BY <1>1, BaseInvariant, PTL

-----------------------------------------------------------------------------
(* What a proof that passes the threshold tells the contract *)

\* Enough participation is two thirds of the committee.
LEMMA ThresholdIsSupermajority ==
  ASSUME NEW n \in Nat, n >= MinParticipation
  PROVE  Supermajority(n)
  BY ThresholdAssumption, MinParticipationAssumption, CommitteeSizeAssumption
  DEF Supermajority

\* The block pv was proved from, and the slot it was signed in.
SignedFrom(pv, skips, a, s) ==
  /\ s \in a + 1..a + SlotsPerPeriod
  /\ s <= tip
  /\ pv.finalizedSlot = IF "finality" \in skips THEN a ELSE finalized[a]
  /\ pv.finalizedHeaderRoot = HeaderRoot(CanonicalBlock(pv.finalizedSlot))
  /\ pv.finalizedStateRoot = StateRoot(CanonicalBlock(pv.finalizedSlot))
  /\ pv.currentSyncCommitteeHash = Committee(Period(s), TRUE)
  /\ "place" \notin skips =>
       \/ pv.nextSyncCommitteeHash = Zero
       \/ pv.nextSyncCommitteeHash = Committee(Period(a) + 1, TRUE)

\* A proof with keys that passes the threshold, under a committee the chain
\* has, comes from a canonical block: it tells that block, or what that block
\* finalizes, and unless its branch leads elsewhere the committee that follows
\* that block's.
LEMMA ProvableCanonical ==
  ASSUME ChainTypeOK, NEW pv \in PublicValuesType, NEW skips,
         "signature" \notin skips,
         NEW period \in Nat,
         pv.currentSyncCommitteeHash = Committee(period, TRUE),
         Provable(pv, skips), EnoughParticipation(pv)
  PROVE  \E a, s \in Slot : SignedFrom(pv, skips, a, s)
<1>1. PICK attested \in Block,
           finality \in ChosenFinality(pv.finalizedHeaderRoot, skips) :
        \E signatureSlot \in {attested.slot, MaxSlot} :
          LET u == ChosenUpdate(pv, attested, signatureSlot, finality) IN
          /\ CommitsTo(u, pv.currentSyncCommitteeHash, pv)
          /\ VerifyUpdate(u)
          /\ "place" \in skips <=> ~RotationInPlace(u)
          /\ \E keys \in ChosenKeys(skips), signedIn \in Slot :
               VerifySignature(u, pv.currentSyncCommitteeHash, keys, signedIn)
  BY DEF Provable
<1>2. PICK signatureSlot \in {attested.slot, MaxSlot} :
        LET u == ChosenUpdate(pv, attested, signatureSlot, finality) IN
        /\ CommitsTo(u, pv.currentSyncCommitteeHash, pv)
        /\ VerifyUpdate(u)
        /\ "place" \in skips <=> ~RotationInPlace(u)
        /\ \E keys \in ChosenKeys(skips), signedIn \in Slot :
             VerifySignature(u, pv.currentSyncCommitteeHash, keys, signedIn)
  BY <1>1
<1> DEFINE update == ChosenUpdate(pv, attested, signatureSlot, finality)
<1>3. PICK keys \in ChosenKeys(skips), s \in Slot :
        VerifySignature(update, pv.currentSyncCommitteeHash, keys, s)
  BY <1>2
<1> USE DEF ChosenUpdate
<1>4. keys # NoCommittee
  <2>1. PICK p \in 0..Period(MaxSlot), c \in BOOLEAN : keys = Committee(p, c)
    BY DEF ChosenKeys, SyncCommittees, MadeUpCommittees
  <2>2. p \in Nat
    BY PeriodBounds, MaxSlotAssumption
  <2>3. keys # Zero
    BY <2>1, <2>2, HashesDiffer
  <2>4. QED
    BY <2>3 DEF NoCommittee
<1>5. /\ pv.currentSyncCommitteeHash = Committee(Period(s), TRUE)
      /\ SignatureExists(attested, s, pv.participation)
  <2>1. /\ keys = pv.currentSyncCommitteeHash
        /\ \/ /\ keys = Committee(Period(s), TRUE)
              /\ SignatureExists(attested, s, pv.participation)
           \/ keys = Committee(Period(s), FALSE)
    BY <1>3, <1>4 DEF VerifySignature
  <2>2. keys # Committee(Period(s), FALSE)
    BY <2>1 DEF Committee
  <2>3. QED
    BY <2>1, <2>2
<1>6. attested.slot \in Slot /\ attested = CanonicalBlock(attested.slot)
  <2>1. Supermajority(pv.participation)
    BY ThresholdIsSupermajority DEF EnoughParticipation, PublicValuesType
  <2>2. attested.slot \in Slot /\ attested.canonical = TRUE
    BY <1>5, <2>1 DEF SignatureExists, Block
  <2>3. QED
    BY <2>2 DEF CanonicalBlock, Block
<1> DEFINE a == attested.slot
           certified == IF "finality" \in skips THEN a ELSE finalized[a]
<1>7. certified \in Slot /\ ResultHeader(update) = CanonicalBlock(certified)
  <2>1. CASE "finality" \in skips
    <3>1. finality = NoBlock
      BY <2>1 DEF ChosenFinality
    <3>2. QED
      BY <1>6, <2>1, <3>1 DEF ResultHeader, HasFinality
  <2>2. CASE "finality" \notin skips
    <3>1. finality \in Block
      BY <2>2 DEF ChosenFinality, HeadersOf
    <3>2. finality.slot # -1
      <4>1. finality.slot \in Nat
        BY <3>1, SlotTyped DEF Block
      <4>2. QED
        BY <4>1
    <3>3. HasFinality(update)
      BY <3>1, <3>2 DEF HasFinality, NoBlock
    <3>4. CommitsToFinalized(attested, HeaderRoot(finality))
      BY <1>2, <3>3 DEF VerifyUpdate, VerifyFinality
    <3>5. finalized[a] \in Slot
      BY <1>6 DEF ChainTypeOK
    <3>6. attested.canonical = TRUE
      BY <1>6, CanonicalBlockTyped
    <3>7. finality = CanonicalBlock(finalized[a])
      BY <3>1, <3>4, <3>5, <3>6, HeaderRootsDistinct, CanonicalBlockTyped
      DEF CommitsToFinalized
    <3>8. QED
      BY <2>2, <3>3, <3>5, <3>7 DEF ResultHeader
  <2>3. QED
    BY <2>1, <2>2
<1>8. /\ pv.finalizedSlot = certified
      /\ pv.finalizedHeaderRoot = HeaderRoot(CanonicalBlock(certified))
      /\ pv.finalizedStateRoot = StateRoot(CanonicalBlock(certified))
  BY <1>2, <1>7, CanonicalBlockTyped DEF CommitsTo
<1>9. "place" \notin skips =>
        \/ pv.nextSyncCommitteeHash = Zero
        \/ pv.nextSyncCommitteeHash = Committee(Period(a) + 1, TRUE)
  <2>1. attested.canonical = TRUE
    BY <1>6, CanonicalBlockTyped
  <2>2. QED
    BY <1>2, <2>1 DEF RotationInPlace, HasRotation, NoCommittee,
                      CommitsToNextCommittee
<1>10. s \in a + 1..a + SlotsPerPeriod /\ s <= tip
  BY <1>5 DEF SignatureExists
<1>11. SignedFrom(pv, skips, a, s)
  BY <1>5, <1>8, <1>9, <1>10 DEF SignedFrom
<1>12. QED
  BY <1>6, <1>11

-----------------------------------------------------------------------------
(* The invariant *)

LEMMA SystemInitInv == SystemInit => SystemInv
<1> SUFFICES ASSUME SystemInit PROVE SystemInv
  OBVIOUS
<1>1. ContractInv /\ ChainInv
  BY InitInv, ChainInitInv DEF SystemInit
<1>2. NothingAnnounced /\ CommitteesTrackChain /\ HandoverBehind
  BY DEF SystemInit, Init, NothingAnnounced, CommitteesTrackChain,
         HandoverBehind
<1>3. StoredRootsFinalized /\ VouchedUpToHead
  BY DEF SystemInit, Init, StoredRootsFinalized, VouchedUpToHead
<1>4. QED
  BY <1>1, <1>2, <1>3 DEF SystemInv

\* A new block changes nothing the contract has relied on.
LEMMA ExtendChainInv ==
  ASSUME SystemInv, ExtendChain
  PROVE  SystemInv'
<1>1. /\ ChainInv' /\ FinalizedTip <= FinalizedTip'
      /\ \A s \in 0..tip : finalized'[s] = finalized[s]
  BY ExtendInv DEF ExtendChain, SystemInv
<1>2. UNCHANGED contractVars /\ UNCHANGED historyVars
  BY DEF ExtendChain
<1>3. ContractInv'
  BY <1>2, StutterInv DEF SystemInv
<1>4. /\ tip' = tip + 1 /\ tip \in Nat /\ tip' \in Nat
      /\ FinalizedTip \in Nat /\ FinalizedTip' \in Nat
  <2>1. tip' = tip + 1
    BY DEF ExtendChain, Extend
  <2>2. tip \in Nat /\ FinalizedTip \in Nat
    BY FinalizedTipTyped DEF SystemInv
  <2>3. FinalizedTip' \in Nat
    BY <1>1, SlotTyped DEF ChainInv, ChainTypeOK, FinalizedTip
  <2>4. QED
    BY <2>1, <2>2, <2>3
<1> USE <1>2 DEF contractVars, latest, committees, history, results, historyVars
<1>5. NothingAnnounced' /\ VouchedUpToHead'
  BY DEF SystemInv, NothingAnnounced, VouchedUpToHead
<1>6. StoredRootsFinalized'
  <2> SUFFICES ASSUME NEW s \in vouched, s <= FinalizedTip
               PROVE  s <= FinalizedTip'
    BY DEF StoredRootsFinalized, SystemInv
  <2>1. s \in Nat
    BY SlotTyped DEF SystemInv, VouchedUpToHead
  <2>2. QED
    BY <1>1, <1>4, <2>1
<1>7. CommitteesTrackChain'
  <2>1. CASE ~(initialized /\ ~hearsay)
    BY <2>1 DEF CommitteesTrackChain
  <2>2. CASE initialized /\ ~hearsay
    <3>1. PICK period \in 0..Period(tip) + 1 :
            /\ CommitteesOf(period)
            /\ "signature" \notin skipped => period \in Period(head)..Period(tip)
      BY <2>2 DEF CommitteesTrackChain, SystemInv
    <3>2. /\ Period(tip) \in Nat /\ Period(tip') \in Nat
          /\ Period(tip) <= Period(tip')
      BY <1>4, PeriodMonotone, PeriodBounds
    <3>3. Period(head) \in Nat /\ Period(head') = Period(head)
      BY PeriodBounds, SlotTyped DEF SystemInv, ContractInv, TypeOK
    <3>4. /\ period \in 0..Period(tip') + 1
          /\ "signature" \notin skipped' => period \in Period(head')..Period(tip')
      BY <3>1, <3>2, <3>3
    <3>5. CommitteesOf(period)'
      BY <3>1 DEF CommitteesOf
    <3>6. QED
      BY <3>4, <3>5 DEF CommitteesTrackChain
  <2>3. QED
    BY <2>1, <2>2
<1>8. HandoverBehind'
  <2> SUFFICES ASSUME NEW a \in 0..tip
               PROVE  a \in 0..tip' /\ finalized'[a] = finalized[a]
    BY DEF HandoverBehind, SystemInv
  <2>1. QED
    BY <1>1, <1>4
<1>9. QED
  BY <1>1, <1>3, <1>5, <1>6, <1>7, <1>8 DEF SystemInv

LEMMA DeployInv ==
  ASSUME SystemInv, NEW checkpoint \in Checkpoints, Deploy(checkpoint)
  PROVE  SystemInv'
<1>1. /\ ~initialized /\ initialized' /\ Initialize(checkpoint)
      /\ UNCHANGED chainVars /\ TrustedCheckpoint(checkpoint)
      /\ vouched' = {checkpoint.slot} /\ hearsay' = hearsay
      /\ skipped' = skipped
  BY DEF Deploy, Initialize
<1>2. ContractInv'
  BY <1>1, InitializeInv DEF SystemInv
<1>3. checkpoint.slot \in Slot /\ head' = checkpoint.slot
  BY CheckpointsAssumption DEF CheckpointType, Deploy, Initialize
<1>4. ChainInv'
  BY <1>1 DEF chainVars, SystemInv, ChainInv, ChainTypeOK, FinalityMonotone
<1>5. /\ finalizedHeaderRoots' =
           [finalizedHeaderRoots EXCEPT
              ![checkpoint.slot] = HeaderRoot(CanonicalBlock(checkpoint.slot))]
      /\ finalizedStateRoots' =
           [finalizedStateRoots EXCEPT
              ![checkpoint.slot] = StateRoot(CanonicalBlock(checkpoint.slot))]
  BY <1>1 DEF Initialize, TrustedCheckpoint
<1>6. nextSyncCommitteeHash = Zero /\ nextSyncCommitteeHash' = Zero
  BY <1>1 DEF SystemInv, NothingAnnounced, Initialize
<1>7. VouchedUpToHead'
  <2>1. checkpoint.slot \in Nat
    BY <1>3, SlotTyped
  <2>2. QED
    BY <1>1, <1>3, <2>1 DEF VouchedUpToHead, SystemInv
<1>8. StoredRootsFinalized'
  <2>1. checkpoint.slot <= FinalizedTip /\ FinalizedTip' = FinalizedTip
    BY <1>1 DEF TrustedCheckpoint, chainVars, FinalizedTip
  <2>2. \A s \in Slot : finalizedHeaderRoots[s] = Zero /\ finalizedStateRoots[s] = Zero
    BY <1>1 DEF SystemInv, ContractInv, NothingAfterHead
  <2>3. QED
    BY <1>1, <1>3, <1>5, <2>1, <2>2
    DEF StoredRootsFinalized, SystemInv, ContractInv, TypeOK
<1>9. CommitteesTrackChain'
  <2>1. PICK period \in Period(checkpoint.slot)..Period(tip) :
          checkpoint.syncCommitteeHash = Committee(period, TRUE)
    BY <1>1 DEF TrustedCheckpoint
  <2>2. CommitteesOf(period)'
    BY <1>1, <1>6, <2>1 DEF CommitteesOf, Initialize
  <2>3. period \in Period(head')..Period(tip')
    BY <1>1, <1>3, <2>1 DEF chainVars
  <2>4. Period(head') \in Nat /\ Period(tip') \in Nat
    BY <1>1, <1>3, SlotTyped, PeriodBounds, FinalizedTipTyped
    DEF chainVars, SystemInv
  <2>5. period \in 0..Period(tip') + 1
    BY <2>3, <2>4
  <2>6. QED
    BY <2>2, <2>3, <2>5 DEF CommitteesTrackChain
<1>10. HandoverBehind'
  <2>1. \A period \in Nat : Committee(period + 1, TRUE) # Zero
    BY DEF Committee, Zero
  <2>2. QED
    BY <1>6, <2>1 DEF HandoverBehind
<1>11. NothingAnnounced'
  BY <1>6 DEF NothingAnnounced
<1>12. QED
  BY <1>2, <1>4, <1>7, <1>8, <1>9, <1>10, <1>11 DEF SystemInv

-----------------------------------------------------------------------------
(* An accepted proof *)

\* What update does, whatever the proof skipped.
LEMMA SubmitWrites ==
  ASSUME SystemInv, NEW pv \in PublicValues, NEW skips, Submit(pv, skips)
  PROVE  /\ pv \in PublicValuesType /\ Update(pv) /\ initialized /\ initialized'
         /\ UNCHANGED chainVars /\ FinalizedTip' = FinalizedTip
         /\ head' = pv.finalizedSlot /\ head' \in Slot
         /\ head \in Nat /\ head' \in Nat /\ head < head'
         /\ finalizedHeaderRoots' =
              [finalizedHeaderRoots EXCEPT
                 ![pv.finalizedSlot] = pv.finalizedHeaderRoot]
         /\ finalizedStateRoots' =
              [finalizedStateRoots EXCEPT
                 ![pv.finalizedSlot] = pv.finalizedStateRoot]
<1>1. /\ pv \in PublicValuesType /\ Update(pv) /\ initialized
      /\ UNCHANGED chainVars
  BY PublicValuesAssumption DEF Submit
<1>2. /\ initialized' /\ head' = pv.finalizedSlot /\ pv.finalizedSlot > head
  BY <1>1 DEF Update, ValidateUpdate, NewerSlot, RecordCheckpoint
<1>3. head \in Nat /\ head' \in Nat /\ head' \in Slot
  BY <1>1, <1>2, SlotTyped
  DEF SystemInv, ContractInv, TypeOK, PublicValuesType
<1>4. QED
  BY <1>1, <1>2, <1>3 DEF Update, RecordCheckpoint, chainVars, FinalizedTip

\* The signers become, or stay, the current committee.
LEMMA SignersCurrent ==
  ASSUME NEW pv, Update(pv)
  PROVE  currentSyncCommitteeHash' = pv.currentSyncCommitteeHash
  BY DEF Update, RotateCommittees, ValidateUpdate, KnownCommittee, CrossesPeriod

\* A proof that announces nothing keeps the two committees or lets the
\* announced one take over.
LEMMA NothingAnnouncedMoves ==
  ASSUME NEW pv, Update(pv), pv.nextSyncCommitteeHash = Zero
  PROVE  \/ UNCHANGED committees
         \/ /\ nextSyncCommitteeHash # Zero
            /\ currentSyncCommitteeHash' = nextSyncCommitteeHash
            /\ nextSyncCommitteeHash' = Zero
  BY DEF Update, RotateCommittees, CrossesPeriod, committees

\* The signers of an accepted proof are a committee the chain has, unless
\* an unchecked proof announced them.
LEMMA SignersOfChain ==
  ASSUME SystemInv, initialized, ~hearsay, NEW pv, Update(pv)
  PROVE  \E period \in Nat :
           pv.currentSyncCommitteeHash = Committee(period, TRUE)
<1>1. PICK period \in 0..Period(tip) + 1 : CommitteesOf(period)
  BY DEF SystemInv, CommitteesTrackChain
<1>2. period \in Nat /\ period + 1 \in Nat
  BY <1>1, FinalizedTipTyped, PeriodBounds DEF SystemInv
<1>3. QED
  BY <1>1, <1>2 DEF CommitteesOf, Update, ValidateUpdate, KnownCommittee

\* A proof that comes from block a, signed in slot s, and is not taken on
\* trust.
Accepts(pv, skips, a, s) ==
  /\ "signature" \notin skips
  /\ SignedFrom(pv, skips, a, s)
  /\ Submit(pv, skips)

LEMMA SubmitAccepts ==
  ASSUME SystemInv, ~hearsay, NEW pv \in PublicValues, NEW skips,
         "signature" \notin skips, Submit(pv, skips)
  PROVE  \E a, s \in Slot : Accepts(pv, skips, a, s)
<1>1. pv \in PublicValuesType /\ Update(pv) /\ initialized
  BY SubmitWrites
<1>2. PICK period \in Nat :
        pv.currentSyncCommitteeHash = Committee(period, TRUE)
  BY <1>1, SignersOfChain
<1>3. Provable(pv, skips) /\ EnoughParticipation(pv)
  BY DEF Submit, ValidateUpdate
<1>4. PICK a \in Slot, s \in Slot : SignedFrom(pv, skips, a, s)
  BY <1>1, <1>2, <1>3, ProvableCanonical DEF SystemInv, ChainInv
<1>5. QED
  BY <1>4 DEF Accepts

\* The slots of such a proof, and their periods.
LEMMA AcceptedSlots ==
  ASSUME SystemInv, NEW pv \in PublicValues, NEW skips,
         NEW a \in Slot, NEW s \in Slot, Accepts(pv, skips, a, s)
  PROVE  /\ a \in 0..tip /\ a \in Nat /\ s \in Nat
         /\ finalized[a] \in Nat /\ finalized[a] <= head' /\ head' <= a
         /\ finalized[a] <= FinalizedTip
         /\ "finality" \notin skips => head' = finalized[a]
         /\ Period(head') <= Period(s) /\ Period(s) <= Period(tip)
         /\ Period(a) \in Nat /\ Period(s) \in Nat
         /\ Period(s) \in {Period(a), Period(a) + 1}
<1>1. a \in Nat /\ s \in Nat /\ tip \in Nat /\ FinalizedTip \in Nat
  BY SlotTyped, FinalizedTipTyped DEF SystemInv
<1>2. s \in a + 1..a + SlotsPerPeriod /\ s <= tip
  BY DEF Accepts, SignedFrom
<1>3. a < tip /\ a < s
  BY <1>1, <1>2, SlotsPerPeriodAssumption
<1>4. finalized[a] \in Nat
  BY SlotTyped DEF SystemInv, ChainInv, ChainTypeOK
<1>5. finalized[a] <= a /\ finalized[a] <= FinalizedTip
  <2>1. a \in 0..tip /\ tip \in 0..tip /\ a <= tip
    BY <1>1, <1>3
  <2>2. QED
    BY <2>1 DEF SystemInv, ChainInv, FinalityMonotone, FinalizedTip
<1>6. /\ head' = IF "finality" \in skips THEN a ELSE finalized[a]
      /\ head' \in Nat
  BY SubmitWrites DEF Accepts, SignedFrom
<1>7. finalized[a] <= head' /\ head' <= a
  BY <1>1, <1>4, <1>5, <1>6
<1>8. Period(head') <= Period(s) /\ Period(s) <= Period(tip)
  BY <1>1, <1>2, <1>3, <1>6, <1>7, PeriodMonotone
<1>9. Period(s) \in {Period(a), Period(a) + 1}
  BY <1>1, <1>2, SignaturePeriod
<1>10. a \in 0..tip
  BY <1>1, <1>3
<1>11. QED
  BY <1>1, <1>4, <1>5, <1>6, <1>7, <1>8, <1>9, <1>10, PeriodBounds

\* What is announced by a proof whose checks were made.
LEMMA AcceptedAnnounces ==
  ASSUME NEW pv, NEW skips, NEW a, NEW s, Accepts(pv, skips, a, s), ~hearsay',
         hearsay \in BOOLEAN
  PROVE  \/ pv.nextSyncCommitteeHash = Zero
         \/ pv.nextSyncCommitteeHash = Committee(Period(a) + 1, TRUE)
<1>1. ~Unchecked(pv, skips)
  BY DEF Accepts, Submit, Remember
<1>2. CASE "place" \in skips
  BY <1>1, <1>2 DEF Unchecked
<1>3. CASE "place" \notin skips
  BY <1>3 DEF Accepts, SignedFrom
<1>4. QED
  BY <1>2, <1>3

LEMMA AcceptedCommittees ==
  ASSUME SystemInv, NEW pv \in PublicValues, NEW skips,
         NEW a \in Slot, NEW s \in Slot, Accepts(pv, skips, a, s),
         ~hearsay, ~hearsay'
  PROVE  CommitteesTrackChain'
<1>1. /\ Period(s) \in {Period(a), Period(a) + 1}
      /\ Period(head') <= Period(s) /\ Period(s) <= Period(tip)
      /\ Period(a) \in Nat /\ Period(s) \in Nat
  BY AcceptedSlots
<1>2. Update(pv) /\ initialized /\ head' \in Nat /\ UNCHANGED chainVars
  BY SubmitWrites DEF Accepts
<1>3. currentSyncCommitteeHash' = Committee(Period(s), TRUE)
  BY <1>2, SignersCurrent DEF Accepts, SignedFrom
<1>4. \/ nextSyncCommitteeHash' = Zero
      \/ nextSyncCommitteeHash' = Committee(Period(s), TRUE)
      \/ nextSyncCommitteeHash' = Committee(Period(s) + 1, TRUE)
  <2>1. CASE pv.nextSyncCommitteeHash # Zero
    <3>1. pv.nextSyncCommitteeHash = Committee(Period(a) + 1, TRUE)
      BY <2>1, AcceptedAnnounces DEF SystemInv, VouchedUpToHead
    <3>2. nextSyncCommitteeHash' = Committee(Period(a) + 1, TRUE)
      BY <1>2, <2>1, <3>1 DEF Update, RotateCommittees
    <3>3. QED
      BY <3>2, <1>1
  <2>2. CASE pv.nextSyncCommitteeHash = Zero /\ CrossesPeriod(pv)
    BY <1>2, <2>2 DEF Update, RotateCommittees
  <2>3. CASE pv.nextSyncCommitteeHash = Zero /\ ~CrossesPeriod(pv)
    <3>1. /\ nextSyncCommitteeHash' = nextSyncCommitteeHash
          /\ currentSyncCommitteeHash = Committee(Period(s), TRUE)
      BY <1>2, <1>3, <2>3 DEF Update, RotateCommittees
    <3>2. PICK period \in 0..Period(tip) + 1 : CommitteesOf(period)
      BY <1>2 DEF SystemInv, CommitteesTrackChain
    <3>3. period \in Nat
      BY <3>2, FinalizedTipTyped, PeriodBounds DEF SystemInv
    <3>4. period = Period(s)
      BY <1>1, <3>1, <3>2, <3>3, CommitteesDistinct DEF CommitteesOf
    <3>5. QED
      BY <3>1, <3>2, <3>4 DEF CommitteesOf
  <2>4. QED
    BY <2>1, <2>2, <2>3
<1>5. CommitteesOf(Period(s))'
  BY <1>3, <1>4 DEF CommitteesOf
<1>6. Period(head') \in Nat /\ Period(tip) \in Nat /\ Period(tip') = Period(tip)
  BY <1>2, FinalizedTipTyped, PeriodBounds DEF chainVars, SystemInv
<1>7. /\ Period(s) \in Period(head')..Period(tip')
      /\ Period(s) \in 0..Period(tip') + 1
  BY <1>1, <1>6
<1>8. QED
  BY <1>5, <1>7 DEF CommitteesTrackChain

\* A proof nobody signed that announces nothing.
LEMMA UnsignedCommittees ==
  ASSUME SystemInv, NEW pv \in PublicValues, NEW skips, Submit(pv, skips),
         "signature" \in skips, pv.nextSyncCommitteeHash = Zero, ~hearsay
  PROVE  CommitteesTrackChain'
<1>1. Update(pv) /\ initialized /\ UNCHANGED chainVars
  BY SubmitWrites
<1>2. "signature" \in skipped'
  BY DEF Submit, Remember
<1>3. PICK period \in 0..Period(tip) + 1 : CommitteesOf(period)
  BY <1>1 DEF SystemInv, CommitteesTrackChain
<1>4. Period(tip) \in Nat /\ period \in Nat
  BY <1>3, FinalizedTipTyped, PeriodBounds DEF SystemInv
<1> SUFFICES \E later \in 0..Period(tip) + 1 : CommitteesOf(later)'
  BY <1>1, <1>2 DEF CommitteesTrackChain, chainVars
<1>5. CASE UNCHANGED committees
  BY <1>3, <1>5 DEF CommitteesOf, committees
<1>6. CASE /\ nextSyncCommitteeHash # Zero
           /\ currentSyncCommitteeHash' = nextSyncCommitteeHash
           /\ nextSyncCommitteeHash' = Zero
  <2>1. CASE nextSyncCommitteeHash = Committee(period, TRUE)
    BY <1>3, <1>6, <2>1 DEF CommitteesOf
  <2>2. CASE nextSyncCommitteeHash = Committee(period + 1, TRUE)
    <3>1. PICK b \in 0..tip : Period(b) = period
      BY <1>1, <1>3, <1>4, <2>2 DEF SystemInv, HandoverBehind, CommitteesOf
    <3>2. b \in Nat /\ tip \in Nat /\ b <= tip
      BY <3>1, FinalizedTipTyped DEF SystemInv
    <3>3. period <= Period(tip)
      BY <3>1, <3>2, PeriodMonotone
    <3>4. period + 1 \in 0..Period(tip) + 1
      BY <1>4, <3>3
    <3>5. QED
      BY <1>6, <2>2, <3>4 DEF CommitteesOf
  <2>3. QED
    BY <1>3, <1>6, <2>1, <2>2 DEF CommitteesOf
<1>7. QED
  BY <1>1, <1>5, <1>6, NothingAnnouncedMoves

\* A block of an earlier period than period a's finalizes nothing newer.
LEMMA EarlierPeriodEarlierBlock ==
  ASSUME NEW a \in Nat, NEW b \in Nat, Period(b) < Period(a)
  PROVE  b < a
<1>1. CASE a <= b
  BY <1>1, PeriodMonotone, PeriodBounds
<1>2. QED
  BY <1>1

\* While a hand-over is announced, an accepted proof keeps the two committees
\* or lets the announced one take over.
LEMMA AcceptedKeepsHandover ==
  ASSUME SystemInv, NEW pv \in PublicValues, NEW skips,
         NEW a \in Slot, NEW s \in Slot, Accepts(pv, skips, a, s),
         ~hearsay, ~hearsay', "finality" \notin skips,
         NEW period \in Nat,
         currentSyncCommitteeHash = Committee(period, TRUE),
         nextSyncCommitteeHash = Committee(period + 1, TRUE)
  PROVE  \/ UNCHANGED committees
         \/ currentSyncCommitteeHash' = Committee(period + 1, TRUE)
<1>1. Update(pv) /\ initialized /\ head \in Nat /\ head < head'
  BY SubmitWrites DEF Accepts
<1>2. currentSyncCommitteeHash' = Committee(Period(s), TRUE)
  BY <1>1, SignersCurrent DEF Accepts, SignedFrom
<1>3. CASE CrossesPeriod(pv)
  BY <1>1, <1>3 DEF Update, RotateCommittees
<1>4. CASE ~CrossesPeriod(pv) /\ pv.nextSyncCommitteeHash = Zero
  BY <1>1, <1>4 DEF Update, RotateCommittees, committees
<1>5. CASE ~CrossesPeriod(pv) /\ pv.nextSyncCommitteeHash # Zero
  <2>1. /\ a \in 0..tip /\ a \in Nat /\ tip \in Nat
        /\ head' = finalized[a] /\ finalized[a] \in Nat
        /\ Period(a) \in Nat /\ Period(s) \in Nat
        /\ Period(s) \in {Period(a), Period(a) + 1}
    BY AcceptedSlots, FinalizedTipTyped DEF SystemInv
  <2>2. Period(s) = period
    <3>1. currentSyncCommitteeHash' = currentSyncCommitteeHash
      BY <1>1, <1>5 DEF Update, RotateCommittees
    <3>2. QED
      BY <1>2, <2>1, <3>1, CommitteesDistinct
  <2>3. PICK b \in 0..tip : Period(b) = period /\ finalized[b] <= head
    BY <1>1 DEF SystemInv, HandoverBehind
  <2>4. Period(a) = period
    <3>1. CASE Period(a) < Period(b)
      <4>1. b \in Nat /\ a < b
        BY <2>1, <2>3, <3>1, EarlierPeriodEarlierBlock
      <4>2. finalized[a] <= finalized[b]
        BY <2>1, <2>3, <4>1 DEF SystemInv, ChainInv, FinalityMonotone
      <4>3. finalized[b] \in Nat
        BY <2>3, CheckpointTyped DEF SystemInv
      <4>4. QED
        BY <1>1, <2>1, <2>3, <4>2, <4>3
    <3>2. QED
      BY <2>1, <2>2, <2>3, <3>1
  <2>5. pv.nextSyncCommitteeHash = Committee(period + 1, TRUE)
    BY <1>5, <2>4, AcceptedAnnounces DEF SystemInv, VouchedUpToHead
  <2>6. /\ nextSyncCommitteeHash' = Committee(period + 1, TRUE)
        /\ currentSyncCommitteeHash' = currentSyncCommitteeHash
    BY <1>1, <1>5, <2>5 DEF Update, RotateCommittees
  <2>7. QED
    BY <2>6 DEF committees
<1>6. QED
  BY <1>3, <1>4, <1>5

\* What is announced after a proof was announced before, or by a proof from a
\* block of the current period.
LEMMA SubmitHandover ==
  ASSUME SystemInv, NEW pv \in PublicValues, NEW skips, Submit(pv, skips),
         ~hearsay, ~hearsay',
         \/ pv.nextSyncCommitteeHash = Zero
         \/ \E a, s \in Slot : Accepts(pv, skips, a, s)
  PROVE  HandoverBehind'
<1>1. /\ Update(pv) /\ initialized /\ UNCHANGED chainVars
      /\ head < head' /\ head \in Nat /\ head' \in Nat
  BY SubmitWrites
<1> SUFFICES ASSUME NEW period \in Nat,
                    currentSyncCommitteeHash' = Committee(period, TRUE),
                    nextSyncCommitteeHash' = Committee(period + 1, TRUE)
             PROVE  \E b \in 0..tip : Period(b) = period /\ finalized[b] <= head'
  BY <1>1 DEF HandoverBehind, chainVars
<1>2. nextSyncCommitteeHash' # Zero
  BY DEF Committee, Zero
<1>3. CASE pv.nextSyncCommitteeHash = Zero
  <2>1. UNCHANGED committees
    BY <1>1, <1>2, <1>3, NothingAnnouncedMoves
  <2>2. PICK b \in 0..tip : Period(b) = period /\ finalized[b] <= head
    BY <1>1, <2>1 DEF SystemInv, HandoverBehind, committees
  <2>3. finalized[b] \in Nat
    BY <2>2, CheckpointTyped DEF SystemInv
  <2>4. QED
    BY <1>1, <2>2, <2>3
<1>4. CASE pv.nextSyncCommitteeHash # Zero
  <2>1. PICK a \in Slot, s \in Slot : Accepts(pv, skips, a, s)
    BY <1>4
  <2>2. pv.nextSyncCommitteeHash = Committee(Period(a) + 1, TRUE)
    BY <1>4, <2>1, AcceptedAnnounces DEF SystemInv, VouchedUpToHead
  <2>3. nextSyncCommitteeHash' = Committee(Period(a) + 1, TRUE)
    BY <1>1, <1>4, <2>2 DEF Update, RotateCommittees
  <2>4. a \in 0..tip /\ Period(a) \in Nat /\ finalized[a] <= head'
    BY <2>1, AcceptedSlots
  <2>5. Period(a) + 1 \in Nat /\ period + 1 \in Nat
    BY <2>4
  <2>6. Period(a) + 1 = period + 1
    BY <2>3, <2>5, CommitteesDistinct
  <2>7. Period(a) = period
    BY <2>4, <2>6
  <2>8. QED
    BY <2>4, <2>7
<1>5. QED
  BY <1>3, <1>4

\* The slots the contract vouches for keep their roots, and a slot it begins
\* to vouch for has those of a finalized canonical block.
LEMMA SubmitVouches ==
  ASSUME SystemInv, NEW pv \in PublicValues, NEW skips, Submit(pv, skips)
  PROVE  VouchedUpToHead' /\ StoredRootsFinalized'
<1>1. /\ pv \in PublicValuesType /\ initialized /\ initialized'
      /\ FinalizedTip' = FinalizedTip
      /\ head' = pv.finalizedSlot /\ head' \in Slot
      /\ head \in Nat /\ head' \in Nat /\ head < head'
      /\ finalizedHeaderRoots' =
           [finalizedHeaderRoots EXCEPT
              ![pv.finalizedSlot] = pv.finalizedHeaderRoot]
      /\ finalizedStateRoots' =
           [finalizedStateRoots EXCEPT
              ![pv.finalizedSlot] = pv.finalizedStateRoot]
  BY SubmitWrites
<1>2. /\ skipped' = skipped \cup skips
      /\ hearsay' = (hearsay \/ Unchecked(pv, skips))
      /\ vouched' = IF hearsay \/ skips \cap {"finality", "signature"} # {}
                    THEN vouched
                    ELSE vouched \cup {pv.finalizedSlot}
  BY DEF Submit, Remember
<1>3. /\ vouched \in SUBSET Slot /\ vouched # {} /\ hearsay \in BOOLEAN
      /\ \A s \in vouched : s <= head
      /\ skipped = {} => ~hearsay
  BY <1>1 DEF SystemInv, VouchedUpToHead
<1>4. \A s \in vouched : s \in Nat /\ s <= head' /\ s # pv.finalizedSlot
  <2> SUFFICES ASSUME NEW s \in vouched
               PROVE  s \in Nat /\ s <= head' /\ s # pv.finalizedSlot
    OBVIOUS
  <2>1. s \in Nat /\ s <= head
    BY <1>3, SlotTyped
  <2>2. QED
    BY <1>1, <2>1
<1>5. skipped' = {} => skipped = {} /\ skips = {} /\ ~hearsay /\ ~hearsay'
  BY <1>2, <1>3 DEF Unchecked
<1>6. VouchedUpToHead'
  <2>1. hearsay' \in BOOLEAN
    BY <1>2, <1>3 DEF Unchecked
  <2>2. vouched' \in SUBSET Slot /\ vouched' # {} /\ \A s \in vouched' : s <= head'
    <3>1. CASE vouched' = vouched
      BY <1>3, <1>4, <3>1
    <3>2. CASE vouched' = vouched \cup {pv.finalizedSlot}
      <4>1. \A s \in vouched' : s \in Slot /\ s <= head'
        BY <1>1, <1>3, <1>4, <3>2
      <4>2. pv.finalizedSlot \in vouched'
        BY <3>2
      <4>3. QED
        BY <4>1, <4>2
    <3>3. QED
      BY <1>2, <3>1, <3>2
  <2>3. QED
    BY <1>1, <1>5, <2>1, <2>2 DEF VouchedUpToHead
<1>7. \A s \in vouched :
        /\ s <= FinalizedTip
        /\ finalizedHeaderRoots'[s] = HeaderRoot(CanonicalBlock(s))
        /\ finalizedStateRoots'[s] = StateRoot(CanonicalBlock(s))
  <2> SUFFICES ASSUME NEW s \in vouched
               PROVE  /\ s <= FinalizedTip
                      /\ finalizedHeaderRoots'[s] = HeaderRoot(CanonicalBlock(s))
                      /\ finalizedStateRoots'[s] = StateRoot(CanonicalBlock(s))
    OBVIOUS
  <2>1. /\ s <= FinalizedTip /\ s \in Slot /\ s # pv.finalizedSlot
        /\ finalizedHeaderRoots[s] = HeaderRoot(CanonicalBlock(s))
        /\ finalizedStateRoots[s] = StateRoot(CanonicalBlock(s))
    BY <1>3, <1>4 DEF SystemInv, StoredRootsFinalized
  <2>2. /\ finalizedHeaderRoots'[s] = finalizedHeaderRoots[s]
        /\ finalizedStateRoots'[s] = finalizedStateRoots[s]
    BY <1>1, <2>1 DEF SystemInv, ContractInv, TypeOK
  <2>3. QED
    BY <2>1, <2>2
<1>8. ASSUME ~hearsay, "finality" \notin skips, "signature" \notin skips
      PROVE  /\ pv.finalizedSlot <= FinalizedTip
             /\ pv.finalizedHeaderRoot =
                  HeaderRoot(CanonicalBlock(pv.finalizedSlot))
             /\ pv.finalizedStateRoot =
                  StateRoot(CanonicalBlock(pv.finalizedSlot))
  <2>1. PICK a \in Slot, s \in Slot : Accepts(pv, skips, a, s)
    BY <1>8, SubmitAccepts
  <2>2. QED
    BY <1>1, <1>8, <2>1, AcceptedSlots DEF Accepts, SignedFrom
<1>9. \A s \in vouched' :
        /\ s <= FinalizedTip'
        /\ finalizedHeaderRoots'[s] = HeaderRoot(CanonicalBlock(s))
        /\ finalizedStateRoots'[s] = StateRoot(CanonicalBlock(s))
  <2>1. CASE hearsay \/ skips \cap {"finality", "signature"} # {}
    BY <1>1, <1>2, <1>7, <2>1
  <2>2. CASE ~(hearsay \/ skips \cap {"finality", "signature"} # {})
    <3>1. ~hearsay /\ "finality" \notin skips /\ "signature" \notin skips
      BY <2>2
    <3>2. /\ finalizedHeaderRoots'[pv.finalizedSlot] = pv.finalizedHeaderRoot
          /\ finalizedStateRoots'[pv.finalizedSlot] = pv.finalizedStateRoot
      BY <1>1 DEF SystemInv, ContractInv, TypeOK
    <3>3. QED
      BY <1>1, <1>2, <1>7, <1>8, <2>2, <3>1, <3>2
  <2>3. QED
    BY <2>1, <2>2
<1>10. skipped' = {} =>
         \A s \in Slot \ vouched' :
           finalizedHeaderRoots'[s] = Zero /\ finalizedStateRoots'[s] = Zero
  <2> SUFFICES ASSUME skipped' = {}, NEW s \in Slot, s \notin vouched'
               PROVE  finalizedHeaderRoots'[s] = Zero /\ finalizedStateRoots'[s] = Zero
    OBVIOUS
  <2>1. s \notin vouched /\ s # pv.finalizedSlot /\ skipped = {}
    BY <1>2, <1>5
  <2>2. finalizedHeaderRoots[s] = Zero /\ finalizedStateRoots[s] = Zero
    BY <2>1 DEF SystemInv, StoredRootsFinalized
  <2>3. QED
    BY <1>1, <2>1, <2>2 DEF SystemInv, ContractInv, TypeOK
<1>11. QED
  BY <1>6, <1>9, <1>10 DEF StoredRootsFinalized

LEMMA SubmitInv ==
  ASSUME SystemInv, NEW pv \in PublicValues, NEW skips, Submit(pv, skips)
  PROVE  SystemInv'
<1>1. /\ pv \in PublicValuesType /\ Update(pv) /\ initialized /\ initialized'
      /\ UNCHANGED chainVars
  BY SubmitWrites
<1>2. ContractInv'
  BY <1>1, UpdateInv DEF SystemInv
<1>3. ChainInv'
  BY <1>1 DEF chainVars, SystemInv, ChainInv, ChainTypeOK, FinalityMonotone
<1>4. NothingAnnounced'
  BY <1>1 DEF NothingAnnounced
<1>5. CommitteesTrackChain' /\ HandoverBehind'
  <2>1. CASE hearsay'
    BY <2>1 DEF CommitteesTrackChain, HandoverBehind
  <2>2. CASE ~hearsay'
    <3>1. ~hearsay /\ ~Unchecked(pv, skips)
      BY <2>2 DEF Submit, Remember, SystemInv, VouchedUpToHead
    <3>2. CASE "signature" \in skips
      <4>1. pv.nextSyncCommitteeHash = Zero
        BY <3>1, <3>2 DEF Unchecked
      <4>2. QED
        BY <2>2, <3>1, <3>2, <4>1, UnsignedCommittees, SubmitHandover
    <3>3. CASE "signature" \notin skips
      <4>1. PICK a \in Slot, s \in Slot : Accepts(pv, skips, a, s)
        BY <3>1, <3>3, SubmitAccepts
      <4>2. QED
        BY <2>2, <3>1, <4>1, AcceptedCommittees, SubmitHandover
    <3>4. QED
      BY <3>2, <3>3
  <2>3. QED
    BY <2>1, <2>2
<1>6. QED
  BY <1>2, <1>3, <1>4, <1>5, SubmitVouches DEF SystemInv

LEMMA SystemStutterInv ==
  ASSUME SystemInv, UNCHANGED vars
  PROVE  SystemInv'
<1> USE DEF vars, contractVars, chainVars, latest, committees, history, results,
            historyVars
<1>1. ContractInv'
  BY StutterInv DEF SystemInv
<1>2. ChainInv' /\ NothingAnnounced' /\ VouchedUpToHead'
  BY DEF SystemInv, ChainInv, ChainTypeOK, FinalityMonotone, NothingAnnounced,
         VouchedUpToHead
<1>3. StoredRootsFinalized' /\ CommitteesTrackChain' /\ HandoverBehind'
  BY DEF SystemInv, StoredRootsFinalized, CommitteesTrackChain, CommitteesOf,
         HandoverBehind, FinalizedTip
<1>4. QED
  BY <1>1, <1>2, <1>3 DEF SystemInv

\* Whichever checks provers skip, the invariant holds for ever.
THEOREM SystemInvariant == SystemSpec => []SystemInv
<1>1. SystemInit => SystemInv
  BY SystemInitInv
<1>2. SystemInv /\ [SystemNext]_vars => SystemInv'
  <2> SUFFICES ASSUME SystemInv, [SystemNext]_vars PROVE SystemInv'
    OBVIOUS
  <2>1. CASE ExtendChain
    BY <2>1, ExtendChainInv
  <2>2. ASSUME NEW checkpoint \in Checkpoints, Deploy(checkpoint)
        PROVE  SystemInv'
    BY <2>2, DeployInv
  <2>3. ASSUME NEW pv \in PublicValues, NEW skips \in MaySkip,
               Submit(pv, skips)
        PROVE  SystemInv'
    BY <2>3, SubmitInv
  <2>4. CASE UNCHANGED vars
    BY <2>4, SystemStutterInv
  <2>5. QED
    BY <2>1, <2>2, <2>3, <2>4 DEF SystemNext
<1>3. QED
  BY <1>1, <1>2, PTL DEF SystemSpec

\* Every root of a slot the contract vouches for is that of a canonical,
\* finalized block, and without skipped checks it has no others.
THEOREM StoredRootsAreFinalized == SystemSpec => []StoredRootsFinalized
<1>1. SystemInv => StoredRootsFinalized
  BY DEF SystemInv
<1>2. QED
  BY <1>1, SystemInvariant, PTL

\* Until an unchecked proof announces one, the committees the contract trusts
\* are those of a period of the chain.
THEOREM CommitteesFollowChain == SystemSpec => []CommitteesTrackChain
<1>1. SystemInv => CommitteesTrackChain
  BY DEF SystemInv
<1>2. QED
  BY <1>1, SystemInvariant, PTL

-----------------------------------------------------------------------------
(* What a step may not do *)

\* An announced committee is never forgotten or replaced by an older one
\* before it takes over, unless a proof was made without finality data or
\* announced an unchecked one.
THEOREM HandoverIsKept == SystemSpec => HandoverKept
<1> DEFINE Kept ==
      ~hearsay' /\ "finality" \notin skipped' =>
        \A period \in 0..Period(MaxSlot) :
          /\ currentSyncCommitteeHash = Committee(period, TRUE)
          /\ nextSyncCommitteeHash = Committee(period + 1, TRUE)
          => \/ UNCHANGED committees
             \/ currentSyncCommitteeHash' = Committee(period + 1, TRUE)
<1>1. SystemInv /\ SystemNext => Kept
  <2> SUFFICES ASSUME SystemInv, SystemNext,
                      ~hearsay', "finality" \notin skipped',
                      NEW period \in 0..Period(MaxSlot),
                      currentSyncCommitteeHash = Committee(period, TRUE),
                      nextSyncCommitteeHash = Committee(period + 1, TRUE)
               PROVE  \/ UNCHANGED committees
                      \/ currentSyncCommitteeHash' = Committee(period + 1, TRUE)
    OBVIOUS
  <2>1. CASE ExtendChain
    BY <2>1 DEF ExtendChain, contractVars
  <2>2. ASSUME NEW checkpoint \in Checkpoints, Deploy(checkpoint)
        PROVE  FALSE
    <3>1. nextSyncCommitteeHash = Zero
      BY <2>2 DEF Deploy, Initialize, SystemInv, NothingAnnounced
    <3>2. QED
      BY <3>1 DEF Committee, Zero
  <2>3. ASSUME NEW pv \in PublicValues, NEW skips \in MaySkip,
               Submit(pv, skips)
        PROVE  \/ UNCHANGED committees
               \/ currentSyncCommitteeHash' = Committee(period + 1, TRUE)
    <3>1. ~hearsay /\ ~Unchecked(pv, skips) /\ "finality" \notin skips
      BY <2>3 DEF Submit, Remember, SystemInv, VouchedUpToHead
    <3>2. Update(pv) /\ period \in Nat
      BY <2>3, SubmitWrites, PeriodBounds, MaxSlotAssumption
    <3>3. CASE "signature" \in skips
      <4>1. pv.nextSyncCommitteeHash = Zero
        BY <3>1, <3>3 DEF Unchecked
      <4>2. QED
        BY <3>2, <4>1, NothingAnnouncedMoves
    <3>4. CASE "signature" \notin skips
      <4>1. PICK a \in Slot, s \in Slot : Accepts(pv, skips, a, s)
        BY <2>3, <3>1, <3>4, SubmitAccepts
      <4>2. QED
        BY <3>1, <3>2, <4>1, AcceptedKeepsHandover
    <3>5. QED
      BY <3>3, <3>4
  <2>4. QED
    BY <2>1, <2>2, <2>3 DEF SystemNext
<1>2. QED
  BY <1>1, SystemInvariant, PTL DEF SystemSpec, HandoverKept

-----------------------------------------------------------------------------
(* The system implements the finality follower *)

LEMMA InitRefines == SystemInit => Follower!Init
  BY SlotTyped
  DEF SystemInit, ChainInit, Follower!Init, FinalizedTip

LEMMA ExtendRefines ==
  ASSUME SystemInv, ExtendChain
  PROVE  [Follower!Next]_Follower!followerVars
<1>1. vouched' = vouched
  BY DEF ExtendChain, historyVars
<1>2. FinalizedTip <= FinalizedTip' /\ FinalizedTip' \in Slot
  BY ExtendInv
  DEF ExtendChain, SystemInv, ChainInv, ChainTypeOK, FinalizedTip
<1>3. FinalizedTip \in Nat /\ FinalizedTip' \in Nat
  BY <1>2, SlotTyped, FinalizedTipTyped DEF SystemInv
<1>4. CASE FinalizedTip' = FinalizedTip
  BY <1>1, <1>4 DEF Follower!followerVars
<1>5. CASE FinalizedTip' > FinalizedTip
  BY <1>1, <1>2, <1>5 DEF Follower!Next, Follower!Finalize
<1>6. QED
  BY <1>2, <1>3, <1>4, <1>5

LEMMA DeployRefines ==
  ASSUME SystemInv, NEW checkpoint \in Checkpoints, Deploy(checkpoint)
  PROVE  Follower!Start
<1>1. checkpoint.slot \in Slot
  BY CheckpointsAssumption DEF CheckpointType
<1>2. /\ ~initialized /\ checkpoint.slot <= FinalizedTip
      /\ FinalizedTip' = FinalizedTip /\ vouched' = {checkpoint.slot}
  BY DEF Deploy, Initialize, TrustedCheckpoint, chainVars, FinalizedTip
<1>3. vouched = {}
  BY <1>2 DEF SystemInv, VouchedUpToHead
<1>4. QED
  BY <1>1, <1>2, <1>3 DEF Follower!Start

\* A proof by which the contract vouches for one more slot is a step of the
\* follower, any other one a stutter.
LEMMA SubmitRefines ==
  ASSUME SystemInv, NEW pv \in PublicValues, NEW skips, Submit(pv, skips)
  PROVE  [Follower!Next]_Follower!followerVars
<1>1. /\ initialized /\ FinalizedTip' = FinalizedTip
      /\ head' = pv.finalizedSlot /\ head' \in Slot
      /\ head \in Nat /\ head' \in Nat /\ head < head'
  BY SubmitWrites
<1>2. CASE vouched' = vouched
  BY <1>1, <1>2 DEF Follower!followerVars
<1>3. CASE vouched' = vouched \cup {pv.finalizedSlot}
  <2>1. pv.finalizedSlot <= FinalizedTip
    BY <1>1, <1>3, SubmitVouches DEF StoredRootsFinalized
  <2>2. vouched # {} /\ \A earlier \in vouched : earlier < pv.finalizedSlot
    <3> SUFFICES ASSUME NEW earlier \in vouched
                 PROVE  earlier < pv.finalizedSlot
      BY <1>1 DEF SystemInv, VouchedUpToHead
    <3>1. earlier \in Nat /\ earlier <= head
      BY SlotTyped DEF SystemInv, VouchedUpToHead
    <3>2. QED
      BY <1>1, <3>1
  <2>3. QED
    BY <1>1, <1>3, <2>1, <2>2 DEF Follower!Next, Follower!Follow
<1>4. QED
  BY <1>2, <1>3 DEF Submit, Remember

\* The contract is an implementation of the finality follower, in the slots
\* it vouches for.
THEOREM SystemFollowsFinality == SystemSpec => FollowsFinality
<1>1. SystemInit => Follower!Init
  BY InitRefines
<1>2. SystemInv /\ [SystemNext]_vars => [Follower!Next]_Follower!followerVars
  <2> SUFFICES ASSUME SystemInv, [SystemNext]_vars
               PROVE  [Follower!Next]_Follower!followerVars
    OBVIOUS
  <2>1. CASE ExtendChain
    BY <2>1, ExtendRefines
  <2>2. ASSUME NEW checkpoint \in Checkpoints, Deploy(checkpoint)
        PROVE  Follower!Next
    BY <2>2, DeployRefines DEF Follower!Next
  <2>3. ASSUME NEW pv \in PublicValues, NEW skips \in MaySkip,
               Submit(pv, skips)
        PROVE  [Follower!Next]_Follower!followerVars
    BY <2>3, SubmitRefines
  <2>4. CASE UNCHANGED vars
    BY <2>4 DEF vars, chainVars, historyVars, Follower!followerVars,
                FinalizedTip
  <2>5. QED
    BY <2>1, <2>2, <2>3, <2>4 DEF SystemNext
<1>3. QED
  BY <1>1, <1>2, SystemInvariant, PTL
  DEF SystemSpec, FollowsFinality, Follower!Spec
=============================================================================
