-------------------------- MODULE LightClientTypes --------------------------
(***************************************************************************)
(* The values the guest program, the on-chain light client and the beacon  *)
(* chain exchange: slots and sync-committee periods, blocks, 32-byte       *)
(* hashes, and the public values a proof commits to.                       *)
(*                                                                         *)
(* SHA-256 and Keccak are taken to be free of collisions, so a hash is     *)
(* the tagged value it is the hash of; bytes32(0) is a value no hash has.  *)
(***************************************************************************)
EXTENDS Integers, Sequences

CONSTANTS
  MaxSlot,         \* the last slot of the bounded chain
  SlotsPerPeriod,  \* SLOTS_PER_SYNC_COMMITTEE_PERIOD: 8192 on mainnet
  CommitteeSize,   \* SYNC_COMMITTEE_SIZE: 512 on mainnet
  Address          \* L1 accounts whose storage may be proved

ASSUME MaxSlotAssumption == MaxSlot \in Nat
ASSUME SlotsPerPeriodAssumption == SlotsPerPeriod \in Nat \ {0}
ASSUME CommitteeSizeAssumption == CommitteeSize \in Nat \ {0}

Slot == 0..MaxSlot

\* compute_sync_committee_period
Period(slot) == slot \div SlotsPerPeriod

\* count * 3 >= SYNC_COMMITTEE_SIZE * 2
Supermajority(count) == 3 * count >= 2 * CommitteeSize

-----------------------------------------------------------------------------

Tag == {"zero", "header", "state", "node", "committee", "placeholder",
        "storage", "l2", "block"}

Hash == Tag \X Nat \X BOOLEAN

Byte == 0..255

Bytes8 == [1..8 -> Byte]

\* The Keccak hash of block numbers and hashes packed one after another.  An
\* entry is the eight bytes of a number and the hash that follows them.
Commitment(entries) == <<"packed", entries>>

Bytes32 == Hash \cup {"packed"} \X Seq(Bytes8 \X Hash)

Zero == <<"zero", 0, FALSE>>

(***************************************************************************)
(* One canonical block and one block of a competing branch per slot.  The  *)
(* roots of a block name it; a sync committee is the one the canonical     *)
(* chain, or the competing branch, has for a period.                       *)
(***************************************************************************)
Block == [slot : Slot, canonical : BOOLEAN]

CanonicalBlock(slot) == [slot |-> slot, canonical |-> TRUE]

HeaderRoot(block) == <<"header", block.slot, block.canonical>>

StateRoot(block) == <<"state", block.slot, block.canonical>>

\* A node of the state's tree that is neither its root nor at a place read:
\* one stands for all of them.
InnerNode(block) == <<"node", block.slot, block.canonical>>

Committee(period, canonical) == <<"committee", period, canonical>>

\* What the scripts put where a committee's hash is not known: the period, as
\* eight little-endian bytes and zeros.  For period 0 it is bytes32(0).
PeriodPlaceholder(period) ==
  IF period = 0 THEN Zero ELSE <<"placeholder", period, FALSE>>

-----------------------------------------------------------------------------

(***************************************************************************)
(* What a proof commits to.  The two ends of the block range that the      *)
(* contract only emits in an event are left out.                           *)
(***************************************************************************)
PublicValuesType ==
  [ finalizedSlot            : Slot,
    finalizedHeaderRoot      : Bytes32,
    finalizedStateRoot       : Bytes32,
    currentSyncCommitteeHash : Bytes32,
    nextSyncCommitteeHash    : Bytes32,
    participation            : Nat,
    numStorageSlots          : Nat,
    storageProofAddress      : Address,
    storageProofStorageRoot  : Bytes32,
    numL2StorageSlots        : Nat,
    l2StateRoot              : Bytes32,
    numVerifiedBlocks        : Nat,
    blockHashCommitment      : Bytes32 ]
=============================================================================
