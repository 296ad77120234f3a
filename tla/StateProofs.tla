---------------------------- MODULE StateProofs ----------------------------
(***************************************************************************)
(* The verifiers of accounts, storage, L2 outputs and cross-chain messages *)
(* (lib/src/mpt.rs, l2.rs and cross_chain.rs), and the steps of the guest  *)
(* program that call them (program/src/main.rs, Steps 2 and 3).            *)
(*                                                                         *)
(* Each of them answers with a record whose field "ok" is FALSE where the  *)
(* code returns an error.                                                  *)
(***************************************************************************)
EXTENDS ExecutionClient

CONSTANTS
  OracleAddress,        \* the L2OutputOracle contract on L1
  MessagePasserAddress  \* the L2ToL1MessagePasser contract on L2

Refused == [ok |-> FALSE]

\* verify_mpt_proof as one call: its loop over the nodes, and the errors for
\* no node at all and for none left (the walk TriePath takes step by step).
VerifyMptProof(key, nodes, root) ==
  LET after[n \in 0..Len(nodes)] ==
        IF n = 0 THEN Start(root)
        ELSE LET w == after[n - 1]
             IN IF w.status = "walking" THEN Visit(w, key, nodes[n]) ELSE w
      end == after[Len(nodes)]
  IN IF end.status = "ok" THEN [ok |-> TRUE, value |-> end.result] ELSE Refused

\* bytes32(0), which stands for the storage root of an account that does not
\* exist; no node has this hash.
ZeroRoot == <<"zero">>

\* A value is an account's record only if it is a list of four items.
RlpDecodeAccount(value) ==
  IF value[1] = "account" THEN [ok |-> TRUE, storageRoot |-> value[2]]
                          ELSE Refused

VerifyAccountProof(address, nodes, stateRoot) ==
  LET leaf == VerifyMptProof(AddressPath[address], nodes, stateRoot)
  IN IF ~leaf.ok THEN Refused
     ELSE IF leaf.value = Empty THEN [ok |-> TRUE, storageRoot |-> ZeroRoot]
     ELSE RlpDecodeAccount(leaf.value)

ZeroWord == <<"number", 0>>
OneWord == <<"number", 1>>

VerifyStorageProof(slot, nodes, storageRoot) ==
  LET leaf == VerifyMptProof(SlotPath[slot], nodes, storageRoot)
  IN IF ~leaf.ok THEN Refused
     ELSE IF leaf.value = Empty THEN [ok |-> TRUE, value |-> ZeroWord]
     ELSE IF leaf.value[1] # "word" THEN Refused
     ELSE [ok |-> TRUE, value |-> leaf.value[2]]

-----------------------------------------------------------------------------
(***************************************************************************)
(* L2 outputs (lib/src/l2.rs).                                             *)
(***************************************************************************)

ComputeOutputRoot(output) ==
  <<"output", output.version, output.stateRoot, output.withdrawalStorageRoot,
    output.latestBlockHash>>

\* Faulty variant: what the oracle holds is not compared.
OutputRootUnchecked(output, expectedRoot) == TRUE

VerifyOutputRoot(output, expectedRoot) ==
  ComputeOutputRoot(output) = expectedRoot

\* Faulty variant: an element of the array takes one slot.
L2OutputSlotOfOneWord(index) == <<"l2Outputs", index>>

\* l2Outputs[index].outputRoot: elements take two slots each.
L2OutputSlot(index) == <<"l2Outputs", 2 * index>>

VerifyOracleOutputRoot(index, nodes, oracleStorageRoot) ==
  VerifyStorageProof(L2OutputSlot(index), nodes, oracleStorageRoot)

VerifyL2Account(oracleProof, l1Root, index, rootProof, output, address, proof) ==
  LET oracle == VerifyAccountProof(OracleAddress, oracleProof, l1Root)
      outputRoot == VerifyOracleOutputRoot(index, rootProof, oracle.storageRoot)
  IN IF /\ oracle.ok
        /\ outputRoot.ok
        /\ VerifyOutputRoot(output, outputRoot.value)
     THEN VerifyAccountProof(address, proof, output.stateRoot)
     ELSE Refused

-----------------------------------------------------------------------------
(***************************************************************************)
(* Messages (lib/src/cross_chain.rs).                                      *)
(***************************************************************************)

ComputeMappingSlot(key, baseSlot) == <<"mapping", key, baseSlot>>

L2SentMessagesSlot(messageHash) == ComputeMappingSlot(messageHash, 0)

\* Faulty variant: any value is taken for the message.
MatchesAnyValue(proven, expectedValue) == proven.ok

Matches(proven, expectedValue) == proven.ok /\ proven.value = expectedValue

VerifyL1Message(stateRoot, address, accountProof, slot, proof, expectedValue) ==
  LET account == VerifyAccountProof(address, accountProof, stateRoot)
  IN /\ account.ok
     /\ Matches(VerifyStorageProof(slot, proof, account.storageRoot),
                expectedValue)

VerifyL2WithdrawalMessage(stateRoot, address, accountProof, message, proof) ==
  LET account == VerifyAccountProof(address, accountProof, stateRoot)
  IN /\ account.ok
     /\ Matches(VerifyStorageProof(L2SentMessagesSlot(message), proof,
                                   account.storageRoot),
                OneWord)

-----------------------------------------------------------------------------
(***************************************************************************)
(* The guest program.                                                      *)
(***************************************************************************)

\* Step 2: the values proved are checked and dropped, the account's storage
\* root and the number of slots are committed.
GuestStorageStep(input, finalizedStateRoot) ==
  LET account ==
        VerifyAccountProof(input.address, input.accountProof, finalizedStateRoot)
  IN IF /\ account.ok
        /\ \A slot \in DOMAIN input.storageProofs :
             VerifyStorageProof(slot, input.storageProofs[slot],
                                account.storageRoot).ok
     THEN [ok |-> TRUE, numStorageSlots |-> Cardinality(DOMAIN input.storageProofs),
           address |-> input.address, storageRoot |-> account.storageRoot]
     ELSE Refused

\* Step 3: the state root of the L2 output and the number of slots are
\* committed.
GuestL2Step(input, finalizedStateRoot) ==
  LET account ==
        VerifyL2Account(input.oracle.accountProof, finalizedStateRoot,
                        input.outputIndex, input.outputRootStorageProof,
                        input.output, input.l2.address, input.l2.accountProof)
  IN IF /\ account.ok
        /\ \A slot \in DOMAIN input.l2.storageProofs :
             VerifyStorageProof(slot, input.l2.storageProofs[slot],
                                account.storageRoot).ok
     THEN [ok |-> TRUE, numL2StorageSlots |-> Cardinality(DOMAIN input.l2.storageProofs),
           l2StateRoot |-> input.output.stateRoot]
     ELSE Refused
=============================================================================
