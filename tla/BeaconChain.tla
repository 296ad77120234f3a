----------------------------- MODULE BeaconChain -----------------------------
(***************************************************************************)
(* The Ethereum beacon chain as the guest program sees it: what the state  *)
(* of a block commits to, and which sync-committee signatures exist.  The  *)
(* chain is not part of the repository; it is modelled from how            *)
(* lib/src/consensus.rs and script/src/beacon_api.rs use it.               *)
(*                                                                         *)
(* Time is the slot of the newest block.  Each new block fixes which       *)
(* earlier block its state calls finalized; finality never goes back, and  *)
(* may stall for as long as it likes.                                      *)
(***************************************************************************)
EXTENDS LightClientTypes

VARIABLES
  tip,        \* slot of the newest canonical block
  finalized   \* slot -> slot of the checkpoint final in that block's state

chainVars == <<tip, finalized>>

ChainTypeOK ==
  /\ tip \in Slot
  /\ finalized \in [Slot -> Slot]

ChainInit ==
  /\ tip = 0
  /\ finalized = [s \in Slot |-> 0]

\* A block is added; its state finalizes a checkpoint that is no earlier
\* than its parent's and is an ancestor of it.
Extend ==
  /\ tip < MaxSlot
  /\ tip' = tip + 1
  /\ \E checkpoint \in finalized[tip]..tip :
       finalized' = [finalized EXCEPT ![tip + 1] = checkpoint]

\* The latest checkpoint final on the chain.
FinalizedTip == finalized[tip]

\* Every state calls an ancestor finalized, and finality never goes back.
FinalityMonotone ==
  \A r, s \in 0..tip : /\ finalized[s] <= s
                       /\ r <= s => finalized[r] <= finalized[s]

-----------------------------------------------------------------------------
(***************************************************************************)
(* What the state root of a block commits to, at the two places the guest  *)
(* reads: the finalized checkpoint's root (index 41) and the next sync     *)
(* committee (index 23).  A block off the canonical chain, made up by a      *)
(* prover perhaps, may commit to any checkpoint and to any committee.      *)
(***************************************************************************)
CommitsToFinalized(block, checkpointRoot) ==
  IF block.canonical
  THEN checkpointRoot = HeaderRoot(CanonicalBlock(finalized[block.slot]))
  ELSE \E b \in Block : b.slot <= block.slot /\ checkpointRoot = HeaderRoot(b)

CommitsToNextCommittee(block, committeeHash) ==
  block.canonical => committeeHash = Committee(Period(block.slot) + 1, TRUE)

(***************************************************************************)
(* A signature over block, made in signatureSlot by participation members  *)
(* of the committee of that slot's period.  Two thirds of a committee sign *)
(* only canonical blocks, and a block is signed by the next block's        *)
(* committee: no whole period passes without a block.                      *)
(***************************************************************************)
SignatureExists(block, signatureSlot, participation) ==
  /\ signatureSlot \in block.slot + 1..block.slot + SlotsPerPeriod
  /\ signatureSlot <= tip
  /\ participation \in 1..CommitteeSize
  /\ block.canonical \/ ~Supermajority(participation)
=============================================================================
