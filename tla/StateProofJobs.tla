--------------------------- MODULE StateProofJobs ---------------------------
(***************************************************************************)
(* One job that proves something about the state of a chain, while the     *)
(* chains move: run_storage_proof of the proof server (script/src/api.rs)  *)
(* with its two requests to the execution client (script/src/eth_rpc.rs),  *)
(* a caller of the message verifiers of lib/src/cross_chain.rs, and a      *)
(* prover that gathers the storage inputs of the guest program.            *)
(***************************************************************************)
EXTENDS StateProofs

CONSTANTS
  Kinds,          \* the kinds of job that occur
  Requests,       \* accounts and slots a storage job is asked for
  BridgeAddress,  \* an L1 contract that keeps messages
  GenesisL1, GenesisL2,  \* the first states
  Messages,
  MaxHeight,      \* bound on the length of either chain
  MaxOutputs      \* bound on the outputs the oracle holds

VARIABLES
  l1,  \* the states of the L1 blocks, first to latest
  l2,  \* the states of the L2 blocks
  job

stateVars == <<l1, l2, job>>

Latest == 0  \* the block tag, resolved at each request
NoAnswer == <<>>

Number(n) == <<"number", n>>

\* The state root in the header of a finalized beacon block; the execution
\* state root is several fields and two containers below it.
BeaconStateRoot(height) == <<"beacon", height>>

\* Writing a storage slot of an account.
Write(state, address, slot, word) ==
  [state EXCEPT ![address] =
     [s \in DOMAIN @ \cup {slot} |-> IF s = slot THEN word ELSE @[s]]]

Output(height) ==
  LET state == l2[height]
  IN [version |-> 0,
      stateRoot |-> ExecutionStateRoot(state),
      withdrawalStorageRoot |->
        TrieHash(StorageTrie(state[MessagePasserAddress])),
      latestBlockHash |-> <<"block", height>>]

\* The slots of an output in the oracle's storage: its root, then timestamp
\* and block number, packed.
OutputRootSlot(index) == <<"l2Outputs", 2 * index>>
OutputInfoSlot(index) == <<"l2Outputs", 2 * index + 1>>

NumOutputs(state) ==
  Cardinality({i \in 0..MaxOutputs - 1 :
                 OutputRootSlot(i) \in DOMAIN state[OracleAddress]})

MessageSlot(m) == ComputeMappingSlot(m, 0)

ASSUME BoundsAssumption == MaxHeight \in Nat /\ MaxOutputs \in Nat \ {0}

ASSUME KindsAssumption == Kinds \subseteq {"storage", "message", "withdrawal", "guest"}

ASSUME GenesisAssumption == IsState(GenesisL1) /\ IsState(GenesisL2)

\* The hashes of the addresses and slots that occur are given.
ASSUME AddressesAssumption ==
  {OracleAddress, MessagePasserAddress, BridgeAddress} \subseteq DOMAIN AddressPath

ASSUME SlotsAssumption ==
  /\ \A m \in Messages : MessageSlot(m) \in DOMAIN SlotPath
  /\ \A i \in 0..MaxOutputs - 1 :
       {OutputRootSlot(i), OutputInfoSlot(i)} \subseteq DOMAIN SlotPath

ASSUME RequestsAssumption ==
  \A request \in Requests : /\ request.address \in DOMAIN AddressPath
                            /\ request.slots \subseteq DOMAIN SlotPath

\* What eth_getProof is asked for.
RequestsFor(kind, index, m) ==
  CASE kind = "storage" -> Requests
    [] kind = "message" ->
         {[address |-> BridgeAddress, slots |-> {MessageSlot(m)}]}
    [] OTHER ->
         {[address |-> OracleAddress, slots |-> {L2OutputSlot(index)}]}

StateInit ==
  /\ l1 = <<GenesisL1>>
  /\ l2 = <<GenesisL2>>
  /\ \E kind \in Kinds, index \in 0..MaxOutputs - 1, m \in Messages :
     \E request \in RequestsFor(kind, index, m) :
       /\ kind \in {"storage", "message"} => index = 0
       /\ job = [kind |-> kind, step |-> "pin", request |-> request,
                 index |-> index, message |-> m, height |-> Latest,
                 answer |-> NoAnswer, root |-> NoAnswer,
                 output |-> NoAnswer, l2Answer |-> NoAnswer]

-----------------------------------------------------------------------------
(***************************************************************************)
(* The chains.                                                             *)
(***************************************************************************)

ExtendL1(state) ==
  /\ Len(l1) < MaxHeight
  /\ l1' = Append(l1, state)
  /\ UNCHANGED <<l2, job>>

\* The proposer records the output of an L2 block.
ProposeOutput ==
  \E height \in 1..Len(l2) :
    LET head == l1[Len(l1)]
        index == NumOutputs(head)
    IN /\ index < MaxOutputs
       /\ ExtendL1(Write(Write(head, OracleAddress, OutputRootSlot(index),
                               ComputeOutputRoot(Output(height))),
                         OracleAddress, OutputInfoSlot(index), Number(height)))

SendMessage ==
  \E m \in Messages :
    ExtendL1(Write(l1[Len(l1)], BridgeAddress, MessageSlot(m), OneWord))

\* The latest block is dropped; another takes its place later.
ReorgL1 ==
  /\ Len(l1) > 1
  /\ l1' = SubSeq(l1, 1, Len(l1) - 1)
  /\ UNCHANGED <<l2, job>>

Withdraw ==
  \E m \in Messages :
    /\ Len(l2) < MaxHeight
    /\ l2' = Append(l2, Write(l2[Len(l2)], MessagePasserAddress,
                              L2SentMessagesSlot(m), OneWord))
    /\ UNCHANGED <<l1, job>>

-----------------------------------------------------------------------------
(***************************************************************************)
(* The job.                                                                *)
(***************************************************************************)

\* The block a request is answered for; none has height 0.
BlockFor(height) == IF height = Latest THEN Len(l1) ELSE height

GoTo(step) == [job EXCEPT !.step = step]

Advance(to) == job' = to /\ UNCHANGED <<l1, l2>>

\* "latest", "safe" and "finalized" alike become the number of the latest
\* block, unless eth_blockNumber answers without one; a number stays as it is.
Pin ==
  /\ job.step = "pin"
  /\ \E height \in {Latest} \cup 1..MaxHeight :
       Advance([job EXCEPT !.step = "proof", !.height = height])

\* eth_getProof for the pinned block, if that exists.
GetProof ==
  /\ job.step = "proof"
  /\ IF BlockFor(job.height) <= Len(l1)
     THEN Advance([job EXCEPT
            !.step = "root",
            !.answer = EthGetProof(l1[BlockFor(job.height)],
                                   job.request.address, job.request.slots)])
     ELSE Advance(GoTo("failed"))

\* eth_getBlockByNumber for the pinned block.  The guest program is given the
\* root its consensus step returns.
GetStateRoot ==
  /\ job.step = "root"
  /\ LET height == BlockFor(job.height)
         next == IF job.kind \in {"withdrawal", "guest"} THEN "l2" ELSE "verify"
     IN IF height <= Len(l1)
        THEN Advance([job EXCEPT
               !.step = next,
               !.root = IF job.kind = "guest" THEN BeaconStateRoot(height)
                        ELSE ExecutionStateRoot(l1[height])])
        ELSE Advance(GoTo("failed"))

\* The parts of an output and the message passer's proof, each of some block.
GetL2Parts ==
  /\ job.step = "l2"
  /\ \E height, other \in 1..Len(l2) :
       Advance([job EXCEPT
         !.step = "verify",
         !.output = Output(height),
         !.l2Answer = EthGetProof(l2[other], MessagePasserAddress,
                                  {L2SentMessagesSlot(job.message)})])

\* Any request may time out or be answered with an error.
RequestFails ==
  /\ job.step \in {"proof", "root", "l2"}
  /\ Advance(GoTo("failed"))

\* Faulty variant: only the storage proofs of the answer are verified.
StorageOnlyVerified(j) ==
  \A slot \in DOMAIN j.answer.storageProofs :
    VerifyStorageProof(slot, j.answer.storageProofs[slot],
                       j.answer.storageRoot).ok

\* run_storage_proof: the account against the root of the block, each slot
\* against the storage root the answer names.
StorageVerified(j) ==
  /\ VerifyAccountProof(j.answer.address, j.answer.accountProof, j.root).ok
  /\ \A slot \in DOMAIN j.answer.storageProofs :
       VerifyStorageProof(slot, j.answer.storageProofs[slot],
                          j.answer.storageRoot).ok

MessageVerified(j) ==
  VerifyL1Message(j.root, BridgeAddress, j.answer.accountProof,
                  MessageSlot(j.message),
                  j.answer.storageProofs[MessageSlot(j.message)], OneWord)

\* The L2 state root from the oracle, then the message in that state.
WithdrawalVerified(j) ==
  LET slot == L2SentMessagesSlot(j.message)
  IN /\ VerifyL2Account(j.answer.accountProof, j.root, j.index,
                        j.answer.storageProofs[L2OutputSlot(j.index)],
                        j.output, MessagePasserAddress,
                        j.l2Answer.accountProof).ok
     /\ VerifyL2WithdrawalMessage(j.output.stateRoot, MessagePasserAddress,
                                  j.l2Answer.accountProof, j.message,
                                  j.l2Answer.storageProofs[slot])

GuestVerified(j) ==
  /\ GuestStorageStep(j.answer, j.root).ok
  /\ GuestL2Step([oracle |-> j.answer, outputIndex |-> j.index,
                  outputRootStorageProof |->
                    j.answer.storageProofs[L2OutputSlot(j.index)],
                  output |-> j.output, l2 |-> j.l2Answer], j.root).ok

Verified(j) ==
  \/ j.kind = "storage" /\ StorageVerified(j)
  \/ j.kind = "message" /\ MessageVerified(j)
  \/ j.kind = "withdrawal" /\ WithdrawalVerified(j)
  \/ j.kind = "guest" /\ GuestVerified(j)

Verify ==
  /\ job.step = "verify"
  /\ Advance(GoTo(IF Verified(job) THEN "done" ELSE "refused"))

StateNext ==
  \/ ProposeOutput
  \/ SendMessage
  \/ ReorgL1
  \/ Withdraw
  \/ Pin
  \/ GetProof
  \/ GetStateRoot
  \/ GetL2Parts
  \/ RequestFails
  \/ Verify

StateSpec == StateInit /\ [][StateNext]_stateVars

-----------------------------------------------------------------------------
(***************************************************************************)
(* Properties.                                                             *)
(***************************************************************************)

\* The storage of an account, and a word of it, in the state with a root.
StorageUnder(root, address) ==
  LET account == Lookup(root[2], AddressPath[address])
  IN IF account = Empty THEN <<>> ELSE account[2][2]

WordUnder(root, address, slot) ==
  LET leaf == Lookup(StorageUnder(root, address), SlotPath[slot])
  IN IF leaf = Empty THEN ZeroWord ELSE leaf[2]

\* A completed storage job answers for one block, the one whose state root it
\* fetched: the storage root and every value proved in its answer are those
\* of that state, although proof and root are fetched by two requests and the
\* block at the pinned height may be replaced between them
\* (run_storage_proof).
AnswerOfOneBlock ==
  job.kind = "storage" /\ job.step = "done" =>
    /\ job.answer.storageRoot =
         TrieHash(StorageUnder(job.root, job.request.address))
    /\ \A slot \in job.request.slots :
         VerifyStorageProof(slot, job.answer.storageProofs[slot],
                            job.answer.storageRoot).value
           = WordUnder(job.root, job.request.address, slot)

\* A message proved on L1 is in the state with the given root; a withdrawal
\* proved from L2 was sent in a block of the L2 chain whose output the oracle
\* holds in that state, whatever blocks the parts of the proof were taken
\* from (verify_l1_message, verify_l2_account, verify_l2_withdrawal_message).
ProvenMessagesWereSent ==
  job.step = "done" =>
    /\ job.kind = "message" =>
         WordUnder(job.root, BridgeAddress, MessageSlot(job.message)) = OneWord
    /\ job.kind = "withdrawal" =>
         \E n \in 1..Len(l2) :
           /\ WordUnder(ExecutionStateRoot(l2[n]), MessagePasserAddress,
                        L2SentMessagesSlot(job.message)) = OneWord
           /\ WordUnder(job.root, OracleAddress, OutputRootSlot(job.index))
                = ComputeOutputRoot(Output(n))

\* Every node on the way to an account and its slots has a hash of its own.
NothingEmbedded(state, address, slots) ==
  /\ ~EmbeddedOnTheWay(StateTrie(state), AddressPath[address])
  /\ \A slot \in slots :
       ~EmbeddedOnTheWay(StorageTrie(StorageOf(state, address)), SlotPath[slot])

Holds(state, address, slot, word) ==
  /\ slot \in DOMAIN StorageOf(state, address)
  /\ StorageOf(state, address)[slot] = word

AnswerFrom(state) ==
  job.answer = EthGetProof(state, job.request.address, job.request.slots)

\* The L2 parts are those of the output an L1 state holds.
L2PartsFrom(state) ==
  \E n \in 1..Len(l2) :
    /\ job.output = Output(n)
    /\ Holds(state, OracleAddress, OutputRootSlot(job.index),
             ComputeOutputRoot(Output(n)))
    /\ job.l2Answer = EthGetProof(l2[n], MessagePasserAddress,
                                  {L2SentMessagesSlot(job.message)})
    /\ Holds(l2[n], MessagePasserAddress, L2SentMessagesSlot(job.message), OneWord)
    /\ NothingEmbedded(l2[n], MessagePasserAddress,
                       {L2SentMessagesSlot(job.message)})

HonestParts(state) ==
  /\ AnswerFrom(state)
  /\ NothingEmbedded(state, job.request.address, job.request.slots)
  /\ CASE job.kind = "storage" ->
            /\ job.request.address \in DOMAIN state
            /\ DOMAIN state[job.request.address] # {}
       [] job.kind = "message" ->
            Holds(state, BridgeAddress, MessageSlot(job.message), OneWord)
       [] OTHER -> L2PartsFrom(state)

\* A job whose parts all come from one block, for something that is there, is
\* not refused.  For an account without storage there is no node to list and
\* every slot of it is refused; so is a small word whose node has no hash.
HonestPartsAccepted ==
  job.step = "refused" =>
    ~ \E n \in 1..Len(l1) :
        job.root = ExecutionStateRoot(l1[n]) /\ HonestParts(l1[n])

\* What program/src/main.rs:43 says: the account proof is verified against
\* the finalized execution state root, so the guest program accepts the proof
\* of an account and of an L2 output in the state of the finalized block.
GuestAcceptsHonestProofs ==
  job.kind = "guest" /\ job.step = "refused" =>
    ~ \E n \in 1..Len(l1) :
        job.root = BeaconStateRoot(n) /\ HonestParts(l1[n])
=============================================================================
