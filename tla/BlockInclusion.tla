--------------------------- MODULE BlockInclusion ---------------------------
(***************************************************************************)
(* lib/src/block_inclusion.rs and step 4 of program/src/main.rs: which     *)
(* chains of execution headers the guest accepts, and the commitment it    *)
(* makes public over their numbers and hashes.                             *)
(*                                                                         *)
(* A header's RLP bytes are named by the block they encode, and the        *)
(* Keccak hash of the bytes is that block's hash.  The number and the      *)
(* parent hash that come next to the bytes are fields of the input of      *)
(* their own: the guest does not read the ones inside the bytes.           *)
(***************************************************************************)
EXTENDS ExecutionChain

ExecutionBlockHeader ==
  [block_number : BlockNumber, rlp_header : ExecutionBlock, parent_hash : Hash]

\* The first header follows the anchor by its number and its parent hash.
FollowsAnchor(inputs) ==
  /\ inputs.headers[1].block_number = inputs.anchor_block_number + 1
  /\ inputs.headers[1].parent_hash = inputs.anchor_block_hash

\* Faulty variant: numbers only grow.
AscendingNumber(inputs, i) ==
  i > 1 => inputs.headers[i].block_number > inputs.headers[i - 1].block_number

ConsecutiveNumber(inputs, i) ==
  inputs.headers[i].block_number = inputs.anchor_block_number + i

Linked(inputs, i) ==
  inputs.headers[i].parent_hash =
    IF i = 1 THEN inputs.anchor_block_hash
             ELSE BlockHash(inputs.headers[i - 1].rlp_header)

VerifyBlockInclusion(inputs) ==
  /\ inputs.headers # <<>>
  /\ FollowsAnchor(inputs)
  /\ \A i \in DOMAIN inputs.headers :
       ConsecutiveNumber(inputs, i) /\ Linked(inputs, i)

VerifiedBlocks(inputs) ==
  [i \in DOMAIN inputs.headers |->
     <<inputs.headers[i].block_number, BlockHash(inputs.headers[i].rlp_header)>>]

\* Faulty variant: to_le_bytes.
ToLeBytes(number) == [i \in 1..8 |-> ByteOf(number, i - 1)]

\* u64::to_be_bytes
ToBeBytes(number) == [i \in 1..8 |-> ByteOf(number, 8 - i)]

PackVerified(pairs) ==
  Commitment([i \in DOMAIN pairs |-> <<ToBeBytes(pairs[i][1]), pairs[i][2]>>])
=============================================================================
