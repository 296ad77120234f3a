---------------------------- MODULE RelayerProofs ----------------------------
(***************************************************************************)
(* What an operator's commands guarantee for chains, forks and numbers of  *)
(* operators of any size: bin/main is refused exactly for another          *)
(* committee than the signers, and a contract fed with the fixtures of     *)
(* bin/evm never leaves the period it was initialized for.                 *)
(***************************************************************************)
EXTENDS Relayer, BeaconChainProofs, FiniteSetTheorems

-----------------------------------------------------------------------------
(* The inductive invariant *)

\* An update the node may have answered with: of a block of the chain, signed
\* by the whole committee of the slot it names.
HonestUpdate(update) ==
  \E attested \in 0..tip - 1 :
    /\ update.attestedHeader = CanonicalBlock(attested)
    /\ update.signatureSlot \in attested + 1..attested + SlotsPerPeriod
    /\ update.signatureSlot <= tip
    /\ update.participation = CommitteeSize
    /\ update.finalityUpdate = CanonicalBlock(finalized[attested])
    /\ update.syncCommitteeUpdate \in
         {NoCommittee, Committee(Period(attested) + 1, TRUE)}

SignersOf(update) == Committee(Period(update.signatureSlot), TRUE)

LEMMA NoKeysNotMadeUp == NotMadeUp(NoCommittee)
  BY ChainCommitteesNotMadeUp DEF NoCommittee

\* What the commands of the machine have fetched.  bin/evm has neither
\* rotation data nor keys.
ProverInv ==
  /\ prover.stage \in {"idle", "prove", "updates", "committee", "execute",
                       "accepted", "refused"}
  /\ prover.stage # "idle" => HonestUpdate(prover.update)
  /\ NotMadeUp(prover.committee)
  /\ prover.stage = "prove" => /\ prover.committee = NoCommittee
                               /\ prover.update.syncCommitteeUpdate = NoCommittee

\* What a proof of bin/evm commits to.
EvmProof(pv) ==
  \E attested \in 0..tip - 1 :
    /\ pv.finalizedSlot = finalized[attested]
    /\ pv.finalizedHeaderRoot = HeaderRoot(CanonicalBlock(finalized[attested]))
    /\ pv.currentSyncCommitteeHash = PeriodPlaceholder(Period(attested))
    /\ pv.nextSyncCommitteeHash = Zero

\* The fixture, and the copies the runs of the script hold.
FixtureInv ==
  /\ fixture \in PublicValues \cup {NoFixture}
  /\ fixture # NoFixture => EvmProof(fixture)
  /\ script \in [Operator -> [stage   : {"idle", "initialize", "update"},
                              fixture : PublicValues \cup {NoFixture}]]
  /\ \A o \in Operator :
       /\ script[o].stage \in {"initialize", "update"} =>
            /\ script[o].fixture \in PublicValues
            /\ EvmProof(script[o].fixture)
       /\ script[o].stage = "initialize" =>
            script[o].fixture.finalizedSlot >= InitializationGap

\* The contract has a root for every slot, and none before initialize.
ContractFresh ==
  /\ finalizedHeaderRoots = [s \in Slot |-> finalizedHeaderRoots[s]]
  /\ ~initialized =>
       /\ finalizedHeaderRoots = [s \in Slot |-> Zero]
       /\ nextSyncCommitteeHash = Zero

RelayInv ==
  /\ ChainInv
  /\ ProverInv
  /\ FixtureInv
  /\ ContractFresh
  /\ ConfinedToPeriod
  /\ RefusedIffOtherCommittee

-----------------------------------------------------------------------------
(* Forks *)

\* n slots are d * epoch or more exactly when the epoch is reached.
LEMMA EpochReached ==
  ASSUME NEW n \in Nat, NEW d \in Nat \ {0}, NEW epoch \in Nat
  PROVE  n \div d >= epoch <=> epoch * d <= n
<1> DEFINE q == n \div d
<1>1. /\ q \in Nat /\ d * q <= n /\ n < d * q + d
  BY DivisionBounds
<1> HIDE DEF q
<1>2. CASE epoch <= q
  <2>1. d * epoch <= d * q
    BY <1>1, <1>2, ProductMonotone
  <2>2. d * epoch = epoch * d /\ d * epoch \in Nat /\ d * q \in Nat
    BY <1>1
  <2>3. QED
    BY <1>1, <1>2, <2>1, <2>2 DEF q
<1>3. CASE q + 1 <= epoch
  <2>1. d * (q + 1) <= d * epoch
    BY <1>1, <1>3, ProductMonotone
  <2>2. d * (q + 1) = d * q + d
    BY <1>1
  <2>3. d * epoch = epoch * d /\ d * epoch \in Nat /\ d * q \in Nat
    BY <1>1
  <2>4. ~(epoch * d <= n) /\ ~(q >= epoch)
    BY <1>1, <1>3, <2>1, <2>2, <2>3
  <2>5. QED
    BY <2>4 DEF q
<1>4. QED
  BY <1>1, <1>2, <1>3

\* A set of indices that goes down to 1 is empty, or ends at its maximum.
LEMMA LowerIndices ==
  ASSUME NEW n \in Nat, NEW S \in SUBSET (1..n),
         \A i \in 1..n, j \in S : i <= j => i \in S
  PROVE  (IF S = {} THEN 0 ELSE Max(S)) = Cardinality(S)
<1>1. CASE S = {}
  <2>1. S = 1..0
    BY <1>1
  <2>2. Cardinality(S) = 0
    BY <2>1, FS_Interval
  <2>3. QED
    BY <1>1, <2>2
<1>2. CASE S # {}
  <2> DEFINE FromEnd == {d \in Nat : n - d \in S}
  <2>1. FromEnd \subseteq Nat /\ FromEnd # {}
    <3>1. PICK i \in S : TRUE
      BY <1>2
    <3>2. n - i \in Nat /\ n - (n - i) = i
      BY <3>1
    <3>3. QED
      BY <3>1, <3>2
  <2>2. PICK least \in FromEnd : \A d \in FromEnd : least <= d
    <3> HIDE DEF FromEnd
    <3>1. QED
      BY <2>1, LeastNumber
  <2> DEFINE k == n - least
  <2>3. k \in S /\ k \in Nat
    OBVIOUS
  <2>4. \A i \in S : k >= i
    <3> TAKE i \in S
    <3>1. n - i \in Nat /\ n - (n - i) = i /\ i \in Nat
      OBVIOUS
    <3>2. least <= n - i
      BY <2>2, <3>1
    <3>3. least \in Nat
      OBVIOUS
    <3> HIDE DEF FromEnd
    <3>4. QED
      BY <3>1, <3>2, <3>3
  <2> HIDE DEF FromEnd, k
  <2>5. Max(S) = k
    <3>1. \A m \in S : (\A i \in S : m >= i) => m = k
      <4> SUFFICES ASSUME NEW m \in S, \A i \in S : m >= i
                   PROVE  m = k
        OBVIOUS
      <4>1. m >= k /\ k >= m /\ m \in Nat
        BY <2>3, <2>4
      <4>2. QED
        BY <2>3, <4>1
    <3>2. QED
      BY <2>3, <2>4, <3>1 DEF Max
  <2>6. S = 1..k
    <3>1. ASSUME NEW i \in S
          PROVE  i \in 1..k
      BY <2>3, <2>4
    <3>2. ASSUME NEW i \in 1..k
          PROVE  i \in S
      <4>1. i \in 1..n /\ i <= k
        BY <2>3
      <4>2. QED
        BY <2>3, <4>1
    <3>3. QED
      BY <3>1, <3>2
  <2>7. Cardinality(S) = k
    BY <2>3, <2>6, FS_Interval
  <2>8. QED
    BY <1>2, <2>5, <2>7
<1>3. QED
  BY <1>1, <1>2

\* The version the tools choose for a slot is that of the fork in force in it.
LEMMA ForkVersionRight ==
  ASSUME NEW n \in Nat
  PROVE  ForkVersionForSlot(n) = ForkOfSlot(n)
<1> DEFINE S == {i \in DOMAIN ForkEpochs : n \div SlotsPerEpoch >= ForkEpochs[i]}
<1>1. DOMAIN ForkEpochs = 1..Len(ForkEpochs) /\ Len(ForkEpochs) \in Nat
  BY ForkEpochsAssumption
<1>2. \A i \in DOMAIN ForkEpochs : ForkEpochs[i] \in Nat
  BY ForkEpochsAssumption
<1>3. n \div SlotsPerEpoch \in Nat
  BY DivisionBounds, SlotsPerEpochAssumption
<1>4. S = {i \in DOMAIN ForkEpochs : ForkEpochs[i] * SlotsPerEpoch <= n}
  <2>1. \A i \in DOMAIN ForkEpochs :
          n \div SlotsPerEpoch >= ForkEpochs[i] <=>
          ForkEpochs[i] * SlotsPerEpoch <= n
    BY <1>2, EpochReached, SlotsPerEpochAssumption
  <2>2. QED
    BY <2>1
<1>5. S \in SUBSET (1..Len(ForkEpochs))
  BY <1>1
<1>6. \A i \in 1..Len(ForkEpochs), j \in S : i <= j => i \in S
  <2> SUFFICES ASSUME NEW i \in 1..Len(ForkEpochs), NEW j \in S, i <= j
               PROVE  n \div SlotsPerEpoch >= ForkEpochs[i]
    BY <1>1
  <2>1. ForkEpochs[i] <= ForkEpochs[j] /\ n \div SlotsPerEpoch >= ForkEpochs[j]
    BY <1>1, ForkEpochsAssumption
  <2>2. QED
    BY <1>1, <1>2, <1>3, <2>1
<1> HIDE DEF S
<1>7. (IF S = {} THEN 0 ELSE Max(S)) = Cardinality(S)
  BY <1>1, <1>5, <1>6, LowerIndices
<1>8. QED
  BY <1>4, <1>7 DEF S, ForkVersionForSlot, ForkVersionForEpoch, ForkOfSlot

-----------------------------------------------------------------------------
(* What the guest says to a fetched update *)

LEMMA LatestIsHonest ==
  ASSUME ChainInv, tip > 0
  PROVE  /\ HonestUpdate(LatestFinalityUpdate)
         /\ LatestFinalityUpdate.syncCommitteeUpdate = NoCommittee
<1>1. tip \in Nat /\ tip - 1 \in 0..tip - 1
  BY FinalizedTipTyped
<1>2. tip \in (tip - 1) + 1..(tip - 1) + SlotsPerPeriod
  BY <1>1, SlotsPerPeriodAssumption
<1>3. QED
  BY <1>1, <1>2 DEF HonestUpdate, LatestFinalityUpdate, SignedUpdate

LEMMA UpdatesAreHonest ==
  ASSUME ChainInv, NEW period, NEW update \in UpdatesOf(period)
  PROVE  HonestUpdate(update)
<1> DEFINE Announced(by) == IF Period(by[2]) = period
                            THEN Committee(period + 1, TRUE) ELSE NoCommittee
<1>1. PICK by \in Slot \X Slot :
        /\ Period(by[1]) = period
        /\ SignatureExists(CanonicalBlock(by[1]), by[2], CommitteeSize)
        /\ update = SignedUpdate(by[1], by[2], Announced(by))
  BY DEF UpdatesOf
<1>2. by[1] \in Nat /\ by[2] \in Nat /\ tip \in Nat
  BY SlotsAreNumbers, FinalizedTipTyped
<1>3. by[2] \in by[1] + 1..by[1] + SlotsPerPeriod /\ by[2] <= tip
  BY <1>1 DEF SignatureExists, CanonicalBlock
<1>4. by[1] \in 0..tip - 1
  BY <1>2, <1>3, SlotsPerPeriodAssumption
<1>5. QED
  BY <1>1, <1>3, <1>4 DEF HonestUpdate, SignedUpdate

\* What the node answered stays right when the chain grows.
LEMMA AnswersStayRight ==
  ASSUME tip \in Nat, tip' \in Nat, tip <= tip',
         \A s \in 0..tip : finalized'[s] = finalized[s]
  PROVE  /\ \A update : HonestUpdate(update) => HonestUpdate(update)'
         /\ \A pv : EvmProof(pv) => EvmProof(pv)'
<1>1. \A attested \in 0..tip - 1 :
        attested \in 0..tip' - 1 /\ finalized'[attested] = finalized[attested]
  BY LongerChain
<1>2. ASSUME NEW update, HonestUpdate(update)
      PROVE  HonestUpdate(update)'
  <2>1. PICK attested \in 0..tip - 1 :
          /\ update.attestedHeader = CanonicalBlock(attested)
          /\ update.signatureSlot \in attested + 1..attested + SlotsPerPeriod
          /\ update.signatureSlot <= tip
          /\ update.participation = CommitteeSize
          /\ update.finalityUpdate = CanonicalBlock(finalized[attested])
          /\ update.syncCommitteeUpdate \in
               {NoCommittee, Committee(Period(attested) + 1, TRUE)}
    BY <1>2 DEF HonestUpdate
  <2>2. update.signatureSlot <= tip'
    BY <2>1, SlotsPerPeriodAssumption
  <2>3. QED
    BY <1>1, <2>1, <2>2 DEF HonestUpdate
<1>3. \A pv : EvmProof(pv) => EvmProof(pv)'
  BY <1>1 DEF EvmProof
<1>4. QED
  BY <1>2, <1>3

\* The guest refuses an honest update exactly for another committee.
LEMMA GuestVerdict ==
  ASSUME ChainInv, NEW update, HonestUpdate(update),
         NEW committee, NotMadeUp(committee)
  PROVE  GuestAccepts(ToProofInputs(update, committee)) <=>
           committee \in {NoCommittee, SignersOf(update)}
<1> DEFINE inputs == ToProofInputs(update, committee)
           signed == update.signatureSlot
<1>1. PICK attested \in 0..tip - 1 :
        /\ update.attestedHeader = CanonicalBlock(attested)
        /\ signed \in attested + 1..attested + SlotsPerPeriod
        /\ signed <= tip
        /\ update.participation = CommitteeSize
        /\ update.finalityUpdate = CanonicalBlock(finalized[attested])
        /\ update.syncCommitteeUpdate \in
             {NoCommittee, Committee(Period(attested) + 1, TRUE)}
  BY DEF HonestUpdate
<1>2. /\ attested \in Nat /\ attested \in 0..tip /\ tip \in Nat
      /\ signed \in Nat /\ signed - 1 \in Nat /\ signed > 0 /\ signed > attested
  BY <1>1, FinalizedTipTyped, SlotsPerPeriodAssumption
<1>3. finalized[attested] \in Nat /\ finalized[attested] <= attested
  BY <1>2, CheckpointTyped DEF ChainInv, FinalityMonotone
<1>4. /\ inputs.update = update /\ inputs.syncCommittee = committee
      /\ committee # NoCommittee => inputs.currentSyncCommitteeHash = committee
      /\ inputs.forkVersion = ForkVersionForSlot(ForkVersionSlot(signed))
  BY DEF ToProofInputs
<1>5. VerifyUpdate(update)
  <2>1. VerifyParticipation(update) /\ VerifySignatureSlot(update)
    BY <1>1, <1>2, CommitteeSizeAssumption
    DEF VerifyParticipation, MinSyncCommitteeParticipants, VerifySignatureSlot,
        CanonicalBlock
  <2>2. VerifyFinality(update)
    BY <1>1, <1>2, <1>3 DEF VerifyFinality, CommitsToFinalized, CanonicalBlock
  <2>3. VerifyRotation(update)
    <3>1. update.attestedHeader.slot = attested
      BY <1>1 DEF CanonicalBlock
    <3>2. update.attestedHeader.canonical = TRUE
      BY <1>1 DEF CanonicalBlock
    <3>3. QED
      BY <1>1, <3>1, <3>2
      DEF VerifyRotation, RotationInPlace, HasRotation, CommitsToNextCommittee
  <2>4. QED
    BY <2>1, <2>2, <2>3 DEF VerifyUpdate
<1>6. SignedInDomain(inputs)
  <2>1. ForkVersionSlot(signed) = signed - 1
    BY <1>2 DEF ForkVersionSlot
  <2>2. ForkVersionForSlot(signed - 1) = ForkOfSlot(signed - 1)
    BY <1>2, ForkVersionRight
  <2> HIDE DEF inputs
  <2>3. QED
    BY <1>4, <2>1, <2>2 DEF SignedInDomain
<1>7. SignatureExists(update.attestedHeader, signed, update.participation)
  BY <1>1, CommitteeSizeAssumption DEF SignatureExists, CanonicalBlock
<1> HIDE DEF inputs
<1>8. committee # Committee(Period(signed), FALSE)
  BY <1>2, PeriodBounds DEF NotMadeUp
<1>9. GuestAccepts(inputs) <=> committee \in {NoCommittee, SignersOf(update)}
  BY <1>4, <1>5, <1>6, <1>7, <1>8 DEF GuestAccepts, VerifySignature, SignersOf
<1>10. QED
  BY <1>9 DEF inputs

-----------------------------------------------------------------------------
(* Every step keeps the invariant *)

LEMMA RelayInitInv == RelayInit => RelayInv
<1> SUFFICES ASSUME RelayInit PROVE RelayInv
  OBVIOUS
<1>1. ChainInv
  BY ChainInitInv DEF RelayInit
<1>2. ProverInv /\ RefusedIffOtherCommittee
  BY NoKeysNotMadeUp DEF RelayInit, Idle, ProverInv, RefusedIffOtherCommittee
<1>3. FixtureInv
  BY DEF RelayInit, NoRun, FixtureInv
<1>4. ContractFresh /\ ConfinedToPeriod
  BY DEF RelayInit, Init, ContractFresh, ConfinedToPeriod
<1>5. QED
  BY <1>1, <1>2, <1>3, <1>4 DEF RelayInv

\* The contract's part does not mind a longer chain.
LEMMA ContractKept ==
  ASSUME ContractFresh, ConfinedToPeriod, UNCHANGED contractVars,
         tip \in Nat, tip' \in Nat, tip <= tip',
         \A s \in 0..tip : finalized'[s] = finalized[s]
  PROVE  ContractFresh' /\ ConfinedToPeriod'
<1>1. UNCHANGED <<initialized, committees, nextSyncCommitteeHash,
                  finalizedHeaderRoots>>
  BY DEF contractVars, committees, history
<1>2. ContractFresh'
  BY <1>1 DEF ContractFresh
<1>3. \A s \in Slot : \A attested \in s..tip :
        attested \in s..tip' /\ finalized'[attested] = finalized[attested]
  <2> SUFFICES ASSUME NEW s \in Slot, NEW attested \in s..tip
               PROVE  attested \in s..tip' /\ attested \in 0..tip
    OBVIOUS
  <2>1. s \in Nat
    BY SlotsAreNumbers
  <2>2. QED
    BY <2>1
<1>4. ConfinedToPeriod'
  BY <1>1, <1>3 DEF ConfinedToPeriod
<1>5. QED
  BY <1>2, <1>4

\* Nor do the fixtures.
LEMMA FixturesKept ==
  ASSUME FixtureInv, UNCHANGED <<fixture, script>>,
         tip \in Nat, tip' \in Nat, tip <= tip',
         \A s \in 0..tip : finalized'[s] = finalized[s]
  PROVE  FixtureInv'
<1>1. \A pv : EvmProof(pv) => EvmProof(pv)'
  BY AnswersStayRight
<1>2. fixture' # NoFixture => EvmProof(fixture)'
  BY <1>1 DEF FixtureInv, EvmProof
<1>3. ASSUME NEW o \in Operator, script[o].stage \in {"initialize", "update"}
      PROVE  EvmProof(script[o].fixture)'
  BY <1>1, <1>3 DEF FixtureInv, EvmProof
<1>4. QED
  BY <1>2, <1>3 DEF FixtureInv

LEMMA ExtendChainInv ==
  ASSUME RelayInv, ExtendChain
  PROVE  RelayInv'
<1>1. /\ ChainInv' /\ UNCHANGED <<contractVars, prover, fixture, script>>
      /\ \A s \in 0..tip : finalized'[s] = finalized[s]
  BY ExtendInv DEF ExtendChain, relayVars, RelayInv
<1>2. tip \in Nat /\ tip' \in Nat /\ tip <= tip'
  BY FinalizedTipTyped DEF RelayInv, ExtendChain, Extend
<1>3. ContractFresh' /\ ConfinedToPeriod' /\ FixtureInv'
  BY <1>1, <1>2, ContractKept, FixturesKept DEF RelayInv
<1>4. prover.stage # "idle" => HonestUpdate(prover.update)'
  BY <1>1, <1>2, AnswersStayRight DEF RelayInv, ProverInv, HonestUpdate
<1>5. ProverInv' /\ RefusedIffOtherCommittee'
  BY <1>1, <1>4 DEF RelayInv, ProverInv, HonestUpdate, RefusedIffOtherCommittee
<1>6. QED
  BY <1>1, <1>3, <1>5 DEF RelayInv

\* Without a new block or a transaction, chain and contract stay right.
LEMMA OutsideKept ==
  ASSUME RelayInv, UNCHANGED <<chainVars, contractVars>>
  PROVE  /\ ChainInv' /\ ContractFresh' /\ ConfinedToPeriod'
         /\ UNCHANGED <<tip, finalized>>
         /\ tip \in Nat /\ tip' \in Nat /\ tip <= tip'
<1>1. UNCHANGED <<tip, finalized>>
  BY DEF chainVars
<1>2. ChainInv'
  BY <1>1 DEF RelayInv, ChainInv, ChainTypeOK, FinalityMonotone
<1>3. tip \in Nat /\ tip' \in Nat /\ tip <= tip'
  BY <1>1, FinalizedTipTyped DEF RelayInv
<1>4. ContractFresh' /\ ConfinedToPeriod'
  BY <1>1, <1>3, ContractKept DEF RelayInv
<1>5. QED
  BY <1>1, <1>2, <1>3, <1>4

\* The machine's command goes on with an honest update, and shows what the
\* guest said.
LEMMA BecomeInv ==
  ASSUME RelayInv, NEW stage, NEW update, NEW committee,
         Become(stage, update, committee),
         stage \in {"idle", "prove", "updates", "committee", "execute",
                    "accepted", "refused"},
         stage # "idle" => HonestUpdate(update),
         NotMadeUp(committee),
         stage = "prove" => /\ committee = NoCommittee
                            /\ update.syncCommitteeUpdate = NoCommittee,
         stage = "accepted" => committee \in {NoCommittee, SignersOf(update)},
         stage = "refused" => committee \notin {NoCommittee, SignersOf(update)}
  PROVE  RelayInv'
<1>1. /\ prover'.stage = stage /\ prover'.update = update
      /\ prover'.committee = committee
      /\ UNCHANGED <<chainVars, contractVars, fixture, script>>
  BY DEF Become
<1>2. /\ ChainInv' /\ ContractFresh' /\ ConfinedToPeriod'
      /\ UNCHANGED <<tip, finalized>>
      /\ tip \in Nat /\ tip' \in Nat /\ tip <= tip'
  BY <1>1, OutsideKept
<1>3. FixtureInv'
  BY <1>1, <1>2, FixturesKept DEF RelayInv
<1>4. ProverInv'
  BY <1>1, <1>2 DEF ProverInv, HonestUpdate
<1>5. RefusedIffOtherCommittee'
  BY <1>1 DEF RefusedIffOtherCommittee, SignersOf
<1>6. QED
  BY <1>2, <1>3, <1>4, <1>5 DEF RelayInv

LEMMA MainInv ==
  ASSUME RelayInv, Main
  PROVE  RelayInv'
<1>1. tip > 0 => HonestUpdate(LatestFinalityUpdate)
  BY LatestIsHonest DEF RelayInv
<1> USE NoKeysNotMadeUp
<1>2. ASSUME NEW bls \in BOOLEAN, MainFetchFinality(bls)
      PROVE  RelayInv'
  BY <1>1, <1>2, BecomeInv DEF MainFetchFinality, Fetched
<1>3. ASSUME NEW bls \in BOOLEAN, MainFetchFull(bls)
      PROVE  RelayInv'
  <2>1. PICK update \in UpdatesOf(Period(prover.update.attestedHeader.slot)) :
          Fetched(update, bls)
    BY <1>3 DEF MainFetchFull
  <2>2. HonestUpdate(update)
    BY <2>1, UpdatesAreHonest DEF RelayInv
  <2>3. QED
    BY <2>1, <2>2, BecomeInv DEF Fetched
<1>4. CASE MainAskPeriod
  BY <1>1, <1>4, BecomeInv DEF MainAskPeriod
<1>5. CASE MainFetchCommittee
  <2>1. HonestUpdate(prover.update)
    BY <1>5 DEF MainFetchCommittee, RelayInv, ProverInv
  <2>2. NotMadeUp(FetchedCommittee)
    BY FinalizedTipTyped, PeriodBounds, ChainCommitteesNotMadeUp
    DEF FetchedCommittee, RelayInv
  <2>3. QED
    BY <1>5, <2>1, <2>2, BecomeInv DEF MainFetchCommittee
<1>6. CASE MainExecute
  <2>1. HonestUpdate(prover.update) /\ NotMadeUp(prover.committee)
    BY <1>6 DEF MainExecute, RelayInv, ProverInv
  <2>2. GuestAccepts(ToProofInputs(prover.update, prover.committee)) <=>
          prover.committee \in {NoCommittee, SignersOf(prover.update)}
    BY <2>1, GuestVerdict DEF RelayInv
  <2> DEFINE verdict ==
        IF GuestAccepts(ToProofInputs(prover.update, prover.committee))
        THEN "accepted" ELSE "refused"
  <2>3. Become(verdict, prover.update, prover.committee)
    BY <1>6 DEF MainExecute
  <2>4. /\ verdict \in {"accepted", "refused"}
        /\ verdict = "accepted" <=>
             prover.committee \in {NoCommittee, SignersOf(prover.update)}
    BY <2>2
  <2> HIDE DEF verdict
  <2>5. QED
    BY <2>1, <2>3, <2>4, BecomeInv
<1>7. QED
  BY <1>2, <1>3, <1>4, <1>5, <1>6 DEF Main

LEMMA EvmProveInv ==
  ASSUME RelayInv, EvmProve
  PROVE  RelayInv'
<1> DEFINE inputs == ToProofInputs(prover.update, prover.committee)
<1>1. PICK pv \in PublicValues :
        /\ CommitsTo(inputs.update, inputs.currentSyncCommitteeHash, pv)
        /\ fixture' = pv
  BY DEF EvmProve, WriteFixture
<1>2. /\ prover.stage = "prove" /\ prover' = Idle
      /\ UNCHANGED <<chainVars, contractVars, script>>
  BY DEF EvmProve
<1>3. /\ HonestUpdate(prover.update) /\ prover.committee = NoCommittee
      /\ prover.update.syncCommitteeUpdate = NoCommittee
  BY <1>2 DEF RelayInv, ProverInv
<1>4. /\ ChainInv' /\ ContractFresh' /\ ConfinedToPeriod'
      /\ UNCHANGED <<tip, finalized>>
      /\ tip \in Nat /\ tip' \in Nat /\ tip <= tip'
  BY <1>2, OutsideKept
<1>5. EvmProof(pv)
  <2>1. PICK attested \in 0..tip - 1 :
          /\ prover.update.attestedHeader = CanonicalBlock(attested)
          /\ prover.update.finalityUpdate = CanonicalBlock(finalized[attested])
    BY <1>3 DEF HonestUpdate
  <2>2. attested \in 0..tip
    BY <1>4, LongerChain
  <2>3. finalized[attested] \in Nat
    BY <2>2, CheckpointTyped DEF RelayInv
  <2>4. ResultHeader(prover.update) = CanonicalBlock(finalized[attested])
    BY <2>1, <2>3 DEF ResultHeader, HasFinality, NoBlock, CanonicalBlock
  <2>5. /\ inputs.update = prover.update
        /\ inputs.currentSyncCommitteeHash = PeriodPlaceholder(Period(attested))
    BY <1>3, <2>1 DEF ToProofInputs, CanonicalBlock
  <2>6. CanonicalBlock(finalized[attested]).slot = finalized[attested]
    BY DEF CanonicalBlock
  <2> HIDE DEF inputs
  <2>7. QED
    BY <1>1, <1>3, <2>1, <2>4, <2>5, <2>6 DEF CommitsTo, EvmProof, NoCommittee
<1>6. FixtureInv'
  <2>1. EvmProof(pv)'
    BY <1>4, <1>5 DEF EvmProof
  <2>2. ASSUME NEW o \in Operator, script[o].stage \in {"initialize", "update"}
        PROVE  EvmProof(script[o].fixture)'
    BY <1>2, <1>4, <2>2 DEF RelayInv, FixtureInv, EvmProof
  <2>3. QED
    BY <1>1, <1>2, <2>1, <2>2 DEF RelayInv, FixtureInv, EvmProof
<1>7. ProverInv' /\ RefusedIffOtherCommittee'
  BY <1>2, NoKeysNotMadeUp DEF Idle, ProverInv, RefusedIffOtherCommittee
<1>8. QED
  BY <1>4, <1>6, <1>7 DEF RelayInv

\* One run of the script goes on, and the contract with it.
LEMMA ScriptStepInv ==
  ASSUME RelayInv, NEW o \in Operator, NEW run,
         UNCHANGED <<tip, finalized, prover, fixture>>,
         script' = [script EXCEPT ![o] = run],
         run \in [stage   : {"idle", "initialize", "update"},
                  fixture : PublicValues \cup {NoFixture}],
         run.stage \in {"initialize", "update"} =>
           run.fixture \in PublicValues /\ EvmProof(run.fixture),
         run.stage = "initialize" => run.fixture.finalizedSlot >= InitializationGap,
         ContractFresh', ConfinedToPeriod'
  PROVE  RelayInv'
<1>1. ChainInv'
  BY DEF RelayInv, ChainInv, ChainTypeOK, FinalityMonotone
<1>2. ProverInv' /\ RefusedIffOtherCommittee'
  BY DEF RelayInv, ProverInv, HonestUpdate, RefusedIffOtherCommittee
<1>3. FixtureInv'
  <2>1. \A pv : EvmProof(pv) => EvmProof(pv)'
    BY DEF EvmProof
  <2>2. fixture # NoFixture => EvmProof(fixture)'
    BY <2>1 DEF RelayInv, FixtureInv, EvmProof
  <2>3. script' \in [Operator -> [stage   : {"idle", "initialize", "update"},
                                  fixture : PublicValues \cup {NoFixture}]]
    BY DEF RelayInv, FixtureInv
  <2>4. \A i \in Operator : script'[i] = IF i = o THEN run ELSE script[i]
    BY DEF RelayInv, FixtureInv
  <2>5. ASSUME NEW i \in Operator
        PROVE  /\ script'[i].stage \in {"initialize", "update"} =>
                    /\ script'[i].fixture \in PublicValues
                    /\ EvmProof(script[i].fixture)'
               /\ script'[i].stage = "initialize" =>
                    script'[i].fixture.finalizedSlot >= InitializationGap
    <3>1. CASE i = o
      BY <2>4, <3>1 DEF EvmProof
    <3>2. CASE i # o
      BY <2>4, <3>2 DEF RelayInv, FixtureInv, EvmProof
    <3>3. QED
      BY <3>1, <3>2
  <2>6. QED
    BY <2>2, <2>3, <2>5 DEF RelayInv, FixtureInv
<1>4. QED
  BY <1>1, <1>2, <1>3 DEF RelayInv

LEMMA ScriptRunInv ==
  ASSUME RelayInv, NEW o \in Operator, ScriptRun(o)
  PROVE  RelayInv'
<1> DEFINE run == [ stage   |-> IF initialized THEN "update" ELSE "initialize",
                    fixture |-> fixture ]
<1>1. /\ script' = [script EXCEPT ![o] = run]
      /\ UNCHANGED <<chainVars, contractVars, prover, fixture>>
  BY DEF ScriptRun
<1>2. fixture \in PublicValues /\ EvmProof(fixture)
  BY DEF ScriptRun, RelayInv, FixtureInv
<1>3. ~initialized => fixture.finalizedSlot >= InitializationGap
  BY DEF ScriptRun, RunPasses
<1>4. ContractFresh' /\ ConfinedToPeriod' /\ UNCHANGED <<tip, finalized>>
  BY <1>1, OutsideKept
<1>5. /\ run \in [stage   : {"idle", "initialize", "update"},
                  fixture : PublicValues \cup {NoFixture}]
      /\ run.fixture = fixture
      /\ run.stage = "initialize" => ~initialized
  BY <1>2
<1> HIDE DEF run
<1>6. QED
  BY <1>1, <1>2, <1>3, <1>4, <1>5, ScriptStepInv

LEMMA ScriptEndsInv ==
  ASSUME RelayInv, NEW o \in Operator, ScriptEnds(o)
  PROVE  RelayInv'
<1>1. /\ script' = [script EXCEPT ![o] = NoRun]
      /\ UNCHANGED <<chainVars, contractVars, prover, fixture>>
  BY DEF ScriptEnds
<1>2. ContractFresh' /\ ConfinedToPeriod' /\ UNCHANGED <<tip, finalized>>
  BY <1>1, OutsideKept
<1>3. /\ NoRun \in [stage   : {"idle", "initialize", "update"},
                    fixture : PublicValues \cup {NoFixture}]
      /\ NoRun.stage = "idle"
  BY DEF NoRun
<1>4. QED
  BY <1>1, <1>2, <1>3, ScriptStepInv

\* Different periods have different placeholders.
LEMMA PlaceholdersDistinct ==
  ASSUME NEW p \in Nat, NEW q \in Nat, PeriodPlaceholder(p) = PeriodPlaceholder(q)
  PROVE  p = q
  BY DEF PeriodPlaceholder, Zero

\* The slot and the period of a proof of bin/evm.
LEMMA EvmProofTyped ==
  ASSUME ChainInv, NEW attested \in 0..tip - 1
  PROVE  /\ attested \in Nat /\ tip \in Nat /\ attested < tip
         /\ finalized[attested] \in Slot /\ finalized[attested] \in Nat
         /\ finalized[attested] <= attested
         /\ Period(attested) \in 0..Period(MaxSlot)
<1>1. tip \in Nat /\ attested \in Nat /\ attested < tip /\ attested \in 0..tip
  BY FinalizedTipTyped
<1>2. attested \in Slot /\ finalized[attested] \in Slot
  BY <1>1, CheckpointTyped DEF ChainInv, ChainTypeOK
<1>3. finalized[attested] \in Nat /\ finalized[attested] <= attested
  BY <1>1, CheckpointTyped DEF ChainInv, FinalityMonotone
<1>4. attested <= MaxSlot
  BY <1>2 DEF Slot
<1>5. Period(attested) \in 0..Period(MaxSlot)
  BY <1>1, <1>4, PeriodBounds, PeriodMonotone, MaxSlotAssumption
<1>6. QED
  BY <1>1, <1>2, <1>3, <1>5

LEMMA SendInitializeInv ==
  ASSUME RelayInv, NEW o \in Operator, SendInitialize(o)
  PROVE  RelayInv'
<1> DEFINE pv == script[o].fixture
           run == [script[o] EXCEPT !.stage = "update"]
           checkpoint == InitialCheckpoint(pv)
<1>1. /\ script[o].stage = "initialize" /\ Initialize(checkpoint)
      /\ script' = [script EXCEPT ![o] = run]
      /\ UNCHANGED <<tip, finalized, prover, fixture>>
  BY DEF SendInitialize, chainVars
<1>2. /\ pv \in PublicValues /\ EvmProof(pv)
      /\ pv.finalizedSlot >= InitializationGap
      /\ script[o] \in [stage   : {"idle", "initialize", "update"},
                        fixture : PublicValues \cup {NoFixture}]
  BY <1>1 DEF RelayInv, FixtureInv
<1>3. PICK attested \in 0..tip - 1 :
        /\ pv.finalizedSlot = finalized[attested]
        /\ pv.currentSyncCommitteeHash = PeriodPlaceholder(Period(attested))
  BY <1>2 DEF EvmProof
<1>4. /\ ~initialized /\ initialized'
      /\ currentSyncCommitteeHash' = pv.currentSyncCommitteeHash
      /\ nextSyncCommitteeHash' = nextSyncCommitteeHash
      /\ finalizedHeaderRoots' =
           [finalizedHeaderRoots EXCEPT ![checkpoint.slot] = MadeUpHeaderRoot]
  BY <1>1 DEF Initialize, InitialCheckpoint
<1>5. /\ finalizedHeaderRoots = [s \in Slot |-> Zero]
      /\ nextSyncCommitteeHash = Zero
  BY <1>4 DEF RelayInv, ContractFresh
<1>6. \A s \in Slot : finalizedHeaderRoots'[s] \in {Zero, MadeUpHeaderRoot}
  BY <1>4, <1>5
<1>7. ContractFresh'
  BY <1>4, <1>5 DEF ContractFresh
<1>8. Period(attested) \in 1..Period(MaxSlot)
  <2>1. /\ attested \in Nat /\ finalized[attested] \in Nat
        /\ finalized[attested] <= attested /\ attested >= SlotsPerPeriod
        /\ Period(attested) \in 0..Period(MaxSlot)
    BY <1>2, <1>3, EvmProofTyped, SlotsPerPeriodAssumption
    DEF RelayInv, InitializationGap
  <2>2. Period(attested) # 0
    BY <2>1, PeriodBounds, SlotsPerPeriodAssumption
  <2>3. QED
    BY <2>1, <2>2
<1>9. ConfinedToPeriod'
  <2>1. committees' = <<PeriodPlaceholder(Period(attested)), Zero>>
    BY <1>3, <1>4, <1>5 DEF committees
  <2>2. QED
    BY <1>6, <1>8, <2>1 DEF ConfinedToPeriod
<1>10. /\ run \in [stage   : {"idle", "initialize", "update"},
                   fixture : PublicValues \cup {NoFixture}]
       /\ run.stage = "update" /\ run.fixture = pv
  BY <1>2
<1> HIDE DEF run, pv
<1>11. QED
  BY <1>1, <1>2, <1>7, <1>9, <1>10, ScriptStepInv

LEMMA SendUpdateInv ==
  ASSUME RelayInv, NEW o \in Operator, SendUpdate(o)
  PROVE  RelayInv'
<1> DEFINE pv == script[o].fixture
<1>1. /\ script[o].stage = "update" /\ Update(pv)
      /\ script' = [script EXCEPT ![o] = NoRun]
      /\ UNCHANGED <<tip, finalized, prover, fixture>>
  BY DEF SendUpdate, chainVars
<1>2. pv \in PublicValues /\ EvmProof(pv)
  BY <1>1 DEF RelayInv, FixtureInv
<1>3. PICK attested \in 0..tip - 1 :
        /\ pv.finalizedSlot = finalized[attested]
        /\ pv.finalizedHeaderRoot = HeaderRoot(CanonicalBlock(finalized[attested]))
        /\ pv.currentSyncCommitteeHash = PeriodPlaceholder(Period(attested))
        /\ pv.nextSyncCommitteeHash = Zero
  BY <1>2 DEF EvmProof
<1>4. /\ attested \in Nat /\ tip \in Nat /\ attested < tip
      /\ finalized[attested] \in Slot /\ finalized[attested] \in Nat
      /\ finalized[attested] <= attested
      /\ Period(attested) \in Nat
  BY EvmProofTyped, PeriodBounds DEF RelayInv
<1>5. initialized /\ initialized' /\ KnownCommittee(pv)
  BY <1>1 DEF Update, ValidateUpdate
<1>6. PICK period \in 1..Period(MaxSlot) :
        /\ committees = <<PeriodPlaceholder(period), Zero>>
        /\ \A s \in Slot :
             finalizedHeaderRoots[s] \notin {Zero, MadeUpHeaderRoot} =>
               \E block \in s..tip : /\ Period(block) = period
                                      /\ finalized[block] = s
  BY <1>5 DEF RelayInv, ConfinedToPeriod
<1>7. Period(attested) = period
  <2>1. /\ currentSyncCommitteeHash = PeriodPlaceholder(period)
        /\ nextSyncCommitteeHash = Zero
    BY <1>6 DEF committees
  <2>2. pv.currentSyncCommitteeHash = PeriodPlaceholder(period)
    BY <1>5, <2>1 DEF KnownCommittee
  <2>3. PeriodPlaceholder(Period(attested)) = PeriodPlaceholder(period)
    BY <1>3, <2>2
  <2>4. period \in Nat
    BY PeriodBounds, MaxSlotAssumption
  <2>5. QED
    BY <1>4, <2>3, <2>4, PlaceholdersDistinct
<1>8. committees' = committees
  BY <1>1, <1>3, <1>6 DEF Update, RotateCommittees, CrossesPeriod, committees
<1>9. /\ finalizedHeaderRoots' =
           [finalizedHeaderRoots EXCEPT ![finalized[attested]] =
              HeaderRoot(CanonicalBlock(finalized[attested]))]
      /\ finalizedHeaderRoots = [s \in Slot |-> finalizedHeaderRoots[s]]
  BY <1>1, <1>3 DEF Update, RecordCheckpoint, RelayInv, ContractFresh
<1>10. ContractFresh'
  BY <1>5, <1>9 DEF ContractFresh
<1>11. ConfinedToPeriod'
  <2>1. ASSUME NEW s \in Slot,
               finalizedHeaderRoots'[s] \notin {Zero, MadeUpHeaderRoot}
        PROVE  \E block \in s..tip : /\ Period(block) = period
                                      /\ finalized[block] = s
    <3>1. CASE s = finalized[attested]
      <4>1. attested \in s..tip
        BY <1>4, <3>1
      <4>2. QED
        BY <1>7, <3>1, <4>1
    <3>2. CASE s # finalized[attested]
      <4>1. finalizedHeaderRoots'[s] = finalizedHeaderRoots[s]
        BY <1>9, <3>2
      <4>2. QED
        BY <1>6, <2>1, <4>1
    <3>3. QED
      BY <3>1, <3>2
  <2>2. QED
    BY <1>1, <1>6, <1>8, <2>1 DEF ConfinedToPeriod
<1>12. /\ NoRun \in [stage   : {"idle", "initialize", "update"},
                     fixture : PublicValues \cup {NoFixture}]
       /\ NoRun.stage = "idle"
  BY DEF NoRun
<1>13. QED
  BY <1>1, <1>10, <1>11, <1>12, ScriptStepInv

LEMMA RelayStutterInv ==
  ASSUME RelayInv, UNCHANGED vars
  PROVE  RelayInv'
<1>1. UNCHANGED <<chainVars, contractVars, prover, fixture, script>>
  BY DEF vars, relayVars
<1>2. /\ ChainInv' /\ ContractFresh' /\ ConfinedToPeriod'
      /\ UNCHANGED <<tip, finalized>>
      /\ tip \in Nat /\ tip' \in Nat /\ tip <= tip'
  BY <1>1, OutsideKept
<1>3. FixtureInv'
  BY <1>1, <1>2, FixturesKept DEF RelayInv
<1>4. ProverInv' /\ RefusedIffOtherCommittee'
  BY <1>1, <1>2 DEF RelayInv, ProverInv, HonestUpdate, RefusedIffOtherCommittee
<1>5. QED
  BY <1>2, <1>3, <1>4 DEF RelayInv

\* Machine, fixture, scripts and contract agree with the chain for ever.
THEOREM RelayInvariant == RelaySpec => []RelayInv
<1>1. RelayInv /\ [RelayNext]_vars => RelayInv'
  <2> SUFFICES ASSUME RelayInv, [RelayNext]_vars PROVE RelayInv'
    OBVIOUS
  <2>1. CASE ExtendChain
    BY <2>1, ExtendChainInv
  <2>2. CASE EvmFetch
    BY <2>2, LatestIsHonest, NoKeysNotMadeUp, BecomeInv DEF EvmFetch, RelayInv
  <2>3. CASE EvmProve
    BY <2>3, EvmProveInv
  <2>4. CASE Main
    BY <2>4, MainInv
  <2>5. CASE Killed
    BY <2>5, NoKeysNotMadeUp, BecomeInv DEF Killed
  <2>6. ASSUME NEW o \in Operator, Script(o)
        PROVE  RelayInv'
    BY <2>6, ScriptRunInv, SendInitializeInv, SendUpdateInv, ScriptEndsInv
    DEF Script
  <2>7. CASE UNCHANGED vars
    BY <2>7, RelayStutterInv
  <2>8. QED
    BY <2>1, <2>2, <2>3, <2>4, <2>5, <2>6, <2>7 DEF RelayNext, Evm
<1>2. QED
  BY <1>1, RelayInitInv, PTL DEF RelaySpec

\* bin/main is refused exactly when it fetched another committee than the one
\* that signed, across periods, forks and any lag of finality.
THEOREM RefusedForOtherCommittee == RelaySpec => []RefusedIffOtherCommittee
<1>1. RelayInv => RefusedIffOtherCommittee
  BY DEF RelayInv
<1>2. QED
  BY <1>1, RelayInvariant, PTL

\* A contract fed with the fixtures of bin/evm stays in the period it was
\* initialized for, whatever operators send in whatever order.
THEOREM StaysInPeriod == RelaySpec => []ConfinedToPeriod
<1>1. RelayInv => ConfinedToPeriod
  BY DEF RelayInv
<1>2. QED
  BY <1>1, RelayInvariant, PTL
=============================================================================
