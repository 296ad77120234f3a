-------------------------- MODULE ExecutionClient --------------------------
(***************************************************************************)
(* What the JSON-RPC endpoint of an execution client answers: the state of *)
(* a block as a trie of accounts over tries of words, its root, and        *)
(* eth_getProof.  The client is not part of the repository.                *)
(*                                                                         *)
(* A state is a function from the addresses of the accounts that exist to  *)
(* their storage, a function from the slots that are not zero to words.    *)
(***************************************************************************)
EXTENDS Trie

CONSTANTS
  AddressPath,  \* the Keccak hash of an address, as nibbles
  SlotPath      \* the Keccak hash of a storage slot, as nibbles

\* Hashes are whole paths, and no two are equal.
ArePaths(pathOf) ==
  \A x, y \in DOMAIN pathOf :
    /\ pathOf[x] \in Keys(PathLength)
    /\ pathOf[x] = pathOf[y] => x = y

ASSUME PathsAssumption == ArePaths(AddressPath) /\ ArePaths(SlotPath)

IsStorage(storage) ==
  /\ DOMAIN storage \subseteq DOMAIN SlotPath
  /\ storage = [slot \in DOMAIN storage |-> storage[slot]]

IsState(state) ==
  /\ DOMAIN state \subseteq DOMAIN AddressPath
  /\ state = [a \in DOMAIN state |-> state[a]]
  /\ \A a \in DOMAIN state : IsStorage(state[a])

\* The map from paths to values of a function on addresses or slots.
Hashed(f, pathOf) ==
  [key \in {pathOf[x] : x \in DOMAIN f} |->
     f[CHOOSE x \in DOMAIN f : pathOf[x] = key]]

EncodeWord(word) == <<"word", word>>

StorageTrie(storage) ==
  Hashed([slot \in DOMAIN storage |-> EncodeWord(storage[slot])], SlotPath)

\* Of an account's record only the storage root is kept.
EncodeAccount(storage) == <<"account", TrieHash(StorageTrie(storage))>>

StateTrie(state) ==
  Hashed([a \in DOMAIN state |-> EncodeAccount(state[a])], AddressPath)

ExecutionStateRoot(state) == TrieHash(StateTrie(state))

-----------------------------------------------------------------------------

StorageOf(state, address) ==
  IF address \in DOMAIN state THEN state[address] ELSE <<>>

\* eth_getProof answers for one block.
EthGetProof(state, address, slots) ==
  LET storage == StorageOf(state, address)
  IN [address |-> address,
      storageRoot |-> TrieHash(StorageTrie(storage)),
      accountProof |-> HonestProof(StateTrie(state), AddressPath[address]),
      storageProofs |->
        [slot \in slots |-> HonestProof(StorageTrie(storage), SlotPath[slot])]]
=============================================================================
