------------------------------- MODULE Relayer -------------------------------
(***************************************************************************)
(* The commands an operator runs by hand between the beacon node and the   *)
(* contract:                                                               *)
(*   bin/evm         fetches the latest finality update, proves it and     *)
(*                   overwrites the fixture file;                          *)
(*   DeployAndVerify reads the fixture and sends it to the contract, which *)
(*                   it first initializes, in a transaction of its own;    *)
(*   bin/main        fetches an update, with or without rotation data and  *)
(*                   committee keys, and only executes the guest on it.    *)
(* One machine runs bin/evm and bin/main, one at a time; several operators *)
(* may run the script.  The chain moves on between any two requests, and   *)
(* any command may be killed.                                              *)
(***************************************************************************)
EXTENDS LightClientContract, GuestProgram, SequencesExt

CONSTANTS
  Operator,
  SlotsPerEpoch,
  ForkEpochs    \* the epochs of the forks in the network's configuration

ASSUME SlotsPerEpochAssumption == SlotsPerEpoch \in Nat \ {0}

\* Every network of config.rs lists its forks in the order they activate.
ASSUME ForkEpochsAssumption ==
  /\ ForkEpochs \in Seq(Nat)
  /\ \A i, j \in DOMAIN ForkEpochs : i <= j => ForkEpochs[i] <= ForkEpochs[j]

VARIABLES
  prover,   \* the command the machine runs and how far it is
  fixture,  \* groth16-fixture.json: what the newest proof commits to
  script    \* operator -> the run of the script: transaction to send, fixture

relayVars == <<prover, fixture, script>>
vars == <<chainVars, contractVars, relayVars>>

-----------------------------------------------------------------------------
(***************************************************************************)
(* Fork versions, numbered by fork from 0 for genesis.  The chain signs in *)
(* a slot under the version of the slot before it.                         *)
(***************************************************************************)
ForkVersionForEpoch(epoch) ==
  LET applicable == {i \in DOMAIN ForkEpochs : epoch >= ForkEpochs[i]} IN
  IF applicable = {} THEN 0 ELSE Max(applicable)

ForkVersionForSlot(slot) == ForkVersionForEpoch(slot \div SlotsPerEpoch)

\* Faulty variant: the version in force in the signature slot itself.
SignatureSlotItself(signatureSlot) == signatureSlot

ForkVersionSlot(signatureSlot) ==
  IF signatureSlot > 0 THEN signatureSlot - 1 ELSE 0

\* External: the fork in force in a slot of the chain.
ForkOfSlot(slot) ==
  Cardinality({i \in DOMAIN ForkEpochs : ForkEpochs[i] * SlotsPerEpoch <= slot})

-----------------------------------------------------------------------------
(* What the node answers, and the inputs made of it *)

SignedUpdate(attested, signed, next) ==
  [ attestedHeader      |-> CanonicalBlock(attested),
    signatureSlot       |-> signed,
    participation       |-> CommitteeSize,
    finalityUpdate      |-> CanonicalBlock(finalized[attested]),
    syncCommitteeUpdate |-> next ]

\* get_finality_update: of the newest block signed so far.
LatestFinalityUpdate == SignedUpdate(tip - 1, tip, NoCommittee)

\* get_updates: an update of the period, the node's choice.  It carries the
\* next committee when block and signature are of one period.
UpdatesOf(period) ==
  { SignedUpdate(by[1], by[2], IF Period(by[2]) = period
                               THEN Committee(period + 1, TRUE)
                               ELSE NoCommittee)
    : by \in {by \in Slot \X Slot :
                /\ Period(by[1]) = period
                /\ SignatureExists(CanonicalBlock(by[1]), by[2], CommitteeSize)} }

\* fetch_current_sync_committee: of the checkpoint final at the node's head.
FetchedCommittee == Committee(Period(FinalizedTip), TRUE)

\* finality_update_to_proof_inputs, full_update_to_proof_inputs
ToProofInputs(update, committee) ==
  [ update                   |-> update,
    currentSyncCommitteeHash |->
      IF committee = NoCommittee
      THEN PeriodPlaceholder(Period(update.attestedHeader.slot))
      ELSE committee,
    syncCommittee            |-> committee,
    forkVersion              |->
      ForkVersionForSlot(ForkVersionSlot(update.signatureSlot)) ]

\* The signature of a fetched update was made in its signature slot, in the
\* signing domain of that time.
SignedInDomain(inputs) ==
  inputs.forkVersion = ForkOfSlot(inputs.update.signatureSlot - 1)

GuestAccepts(inputs) ==
  /\ VerifyUpdate(inputs.update)
  /\ VerifySignature(inputs.update, inputs.currentSyncCommitteeHash,
                     inputs.syncCommittee, inputs.update.signatureSlot)
  /\ inputs.syncCommittee # NoCommittee => SignedInDomain(inputs)

-----------------------------------------------------------------------------
(***************************************************************************)
(* A command's stage: what it does next.  bin/main, when it is done, shows *)
(* whether the guest ran to its end or panicked.                           *)
(***************************************************************************)
NoUpdate ==
  [ attestedHeader |-> NoBlock, signatureSlot |-> 0, participation |-> 0,
    finalityUpdate |-> NoBlock, syncCommitteeUpdate |-> NoCommittee ]

Idle == [stage |-> "idle", update |-> NoUpdate, committee |-> NoCommittee]

NoFixture == [finalizedSlot |-> -1]
NoRun == [stage |-> "idle", fixture |-> NoFixture]

RelayInit ==
  /\ ChainInit
  /\ Init
  /\ prover = Idle
  /\ fixture = NoFixture
  /\ script = [o \in Operator |-> NoRun]

ExtendChain == Extend /\ UNCHANGED <<contractVars, relayVars>>

Free == prover.stage \in {"idle", "accepted", "refused"}

Become(stage, update, committee) ==
  /\ prover' = [stage |-> stage, update |-> update, committee |-> committee]
  /\ UNCHANGED <<chainVars, contractVars, fixture, script>>

\* bin/evm --live
EvmFetch ==
  /\ Free
  /\ tip > 0
  /\ Become("prove", LatestFinalityUpdate, NoCommittee)

\* Faulty variant: a fixture that is there is kept.
FixtureKept(pv) == fixture' = IF fixture = NoFixture THEN pv ELSE fixture

WriteFixture(pv) == fixture' = pv

\* Proves and writes the fixture; a guest that refuses ends the command.
EvmProve ==
  LET inputs == ToProofInputs(prover.update, prover.committee) IN
  /\ prover.stage = "prove"
  /\ GuestAccepts(inputs)
  /\ \E pv \in PublicValues :
       /\ CommitsTo(inputs.update, inputs.currentSyncCommitteeHash, pv)
       /\ WriteFixture(pv)
  /\ prover' = Idle
  /\ UNCHANGED <<chainVars, contractVars, script>>

\* bin/main --live, with --full-update the second one, with --bls the keys.
Fetched(update, bls) ==
  Become(IF bls THEN "committee" ELSE "execute", update, NoCommittee)

MainFetchFinality(bls) ==
  /\ Free
  /\ tip > 0
  /\ Fetched(LatestFinalityUpdate, bls)

\* The period is that of a finality update fetched first.
MainAskPeriod ==
  /\ Free
  /\ tip > 0
  /\ Become("updates", LatestFinalityUpdate, NoCommittee)

MainFetchFull(bls) ==
  /\ prover.stage = "updates"
  /\ \E update \in UpdatesOf(Period(prover.update.attestedHeader.slot)) :
       Fetched(update, bls)

MainFetchCommittee ==
  /\ prover.stage = "committee"
  /\ Become("execute", prover.update, FetchedCommittee)

MainExecute ==
  /\ prover.stage = "execute"
  /\ Become(IF GuestAccepts(ToProofInputs(prover.update, prover.committee))
            THEN "accepted" ELSE "refused",
            prover.update, prover.committee)

Killed ==
  /\ ~Free
  /\ Become("idle", NoUpdate, NoCommittee)

-----------------------------------------------------------------------------
(***************************************************************************)
(* DeployAndVerify.s.sol, submitProof.  forge runs the script against the  *)
(* contract as it is and sends what it recorded, one transaction after the *)
(* other, if nothing reverted.  deployAndVerify does the same with a       *)
(* contract of its own.                                                    *)
(***************************************************************************)
InitializationGap == SlotsPerPeriod   \* 8192 slots

\* The slot is made up from the proof's, and so are the roots.
MadeUpHeaderRoot == <<"header", 0, FALSE>>
MadeUpStateRoot == <<"state", 0, FALSE>>

InitialCheckpoint(pv) ==
  [ slot              |-> pv.finalizedSlot - InitializationGap,
    headerRoot        |-> MadeUpHeaderRoot,
    stateRoot         |-> MadeUpStateRoot,
    syncCommitteeHash |-> pv.currentSyncCommitteeHash ]

RunPasses(pv) ==
  IF initialized
  THEN ValidateUpdate(pv)
  ELSE pv.finalizedSlot >= InitializationGap /\ EnoughParticipation(pv)

ScriptRun(o) ==
  /\ script[o] = NoRun
  /\ fixture # NoFixture
  /\ RunPasses(fixture)
  /\ script' = [script EXCEPT ![o] =
       [ stage   |-> IF initialized THEN "update" ELSE "initialize",
         fixture |-> fixture ]]
  /\ UNCHANGED <<chainVars, contractVars, prover, fixture>>

SendInitialize(o) ==
  /\ script[o].stage = "initialize"
  /\ Initialize(InitialCheckpoint(script[o].fixture))
  /\ script' = [script EXCEPT ![o].stage = "update"]
  /\ UNCHANGED <<chainVars, prover, fixture>>

SendUpdate(o) ==
  /\ script[o].stage = "update"
  /\ Update(script[o].fixture)
  /\ script' = [script EXCEPT ![o] = NoRun]
  /\ UNCHANGED <<chainVars, prover, fixture>>

\* A transaction reverts because another operator's came first, or the run
\* is interrupted: nothing more is sent.
ScriptEnds(o) ==
  /\ script[o] # NoRun
  /\ script' = [script EXCEPT ![o] = NoRun]
  /\ UNCHANGED <<chainVars, contractVars, prover, fixture>>

-----------------------------------------------------------------------------

Evm == EvmFetch \/ EvmProve

Main ==
  \/ \E bls \in BOOLEAN : MainFetchFinality(bls) \/ MainFetchFull(bls)
  \/ MainAskPeriod
  \/ MainFetchCommittee
  \/ MainExecute

Script(o) == ScriptRun(o) \/ SendInitialize(o) \/ SendUpdate(o) \/ ScriptEnds(o)

RelayNext ==
  \/ ExtendChain
  \/ Evm
  \/ Main
  \/ Killed
  \/ \E o \in Operator : Script(o)

\* No command runs forever.
ProverEnds == EvmProve \/ MainExecute \/ Killed

\* The operators keep repeating bin/evm and the script, and are not
\* interrupted every time.
RelayFairness ==
  /\ WF_vars(ProverEnds)
  /\ SF_vars(EvmFetch)
  /\ SF_vars(EvmProve)
  /\ \A o \in Operator :
       /\ WF_vars(ScriptEnds(o))
       /\ SF_vars(ScriptRun(o))
       /\ SF_vars(SendInitialize(o))
       /\ SF_vars(SendUpdate(o))

RelaySpec == RelayInit /\ [][RelayNext]_vars /\ RelayFairness

-----------------------------------------------------------------------------
(* Properties *)

\* Whatever happened between its requests, and across a fork, a period and
\* the lag of finality, bin/main is refused exactly when the committee it
\* fetched is not the one that signed the update it fetched.
RefusedIffOtherCommittee ==
  LET signers == Committee(Period(prover.update.signatureSlot), TRUE) IN
  /\ prover.stage = "refused" => prover.committee \notin {NoCommittee, signers}
  /\ prover.stage = "accepted" => prover.committee \in {NoCommittee, signers}

\* bin/evm never announces a next committee, and names the period where the
\* committee's hash belongs: a contract it feeds accepts nothing that was
\* attested in another period than the proof it was initialized for.
ConfinedToPeriod ==
  initialized =>
    \E period \in 1..Period(MaxSlot) :
      /\ committees = <<PeriodPlaceholder(period), Zero>>
      /\ \A s \in Slot :
           finalizedHeaderRoots[s] \notin {Zero, MadeUpHeaderRoot} =>
             \E attested \in s..tip : /\ Period(attested) = period
                                      /\ finalized[attested] = s

\* Within the period the contract was initialized for, it catches up with
\* the chain: when the chain stops at a newest update, its finalized slot is
\* reached, however often commands were killed and whatever they sent before.
Relayable(slot) ==
  /\ tip > 0
  /\ finalized[tip - 1] = slot
  /\ slot >= InitializationGap
  /\ initialized => currentSyncCommitteeHash = PeriodPlaceholder(Period(tip - 1))

CatchesUp ==
  \A slot \in Slot : <>[]Relayable(slot) => <>[](head >= slot)
=============================================================================
