--------------------------- MODULE ExecutionChain ---------------------------
(***************************************************************************)
(* Execution blocks as block inclusion and the block hash oracle see them: *)
(* a number, a hash, and a parent hash inside the encoded header.  The     *)
(* chain is not part of the repository; it is modelled from how            *)
(* lib/src/block_inclusion.rs uses it.                                     *)
(***************************************************************************)
EXTENDS LightClientTypes

CONSTANT MaxBlock   \* the last block number of the bounded chain

ASSUME MaxBlockAssumption == MaxBlock \in Nat

BlockNumber == 0..MaxBlock

\* The blocks of the canonical chain and, at each number, one competing
\* block.  Both have the canonical block before them as their parent.
ExecutionBlock == [number : BlockNumber, canonical : BOOLEAN]

BlockHash(block) == <<"block", block.number, block.canonical>>

IsParent(parentHash, childHash) ==
  parentHash = <<"block", childHash[2] - 1, TRUE>>

-----------------------------------------------------------------------------
(* The bytes of a number *)

\* A number with its last 0, 1, ..., 31 bytes shifted out.
Shifts(number) ==
  LET shifted[k \in 0..31] ==
        IF k = 0 THEN number ELSE shifted[k - 1] \div 256
  IN shifted

\* Its bytes, counted from the least significant one.
ByteOf(number, k) == Shifts(number)[k] % 256

\* Block numbers are u64 in the guest and uint64 in the oracle.
ASSUME Uint64Assumption == Shifts(MaxBlock)[8] = 0

\* The number eight bytes stand for, the most significant one first.
NumberOf(bytes) ==
  256 * (256 * (256 * (256 * (256 * (256 * (256 *
    bytes[1] + bytes[2]) + bytes[3]) + bytes[4]) + bytes[5]) + bytes[6])
    + bytes[7]) + bytes[8]
=============================================================================
