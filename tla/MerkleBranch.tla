---------------------------- MODULE MerkleBranch ----------------------------
(***************************************************************************)
(* lib/src/merkle.rs and the two uses lib/src/consensus.rs makes of it: a  *)
(* Merkle branch from a leaf up to the state root of an attested header    *)
(* shows that a header is the finalized one, or that a committee is the    *)
(* next one.                                                               *)
(*                                                                         *)
(* SHA-256 of two values is the pair of them.  A chunk is a number, as     *)
(* SSZ lays out an integer, or an opaque 32-byte root.                     *)
(***************************************************************************)
EXTENDS Integers, Sequences

CONSTANTS
  States,  \* the beacon states a header may commit to
  Claims   \* what a caller may ask to be verified

VARIABLES
  claim,    \* the leaf, its branch and the state it is said to be in
  level,    \* how many siblings of the branch were hashed
  computed, \* the hash reached from the leaf
  verdict   \* "none" until the loop ends, then "accepted" or "refused"

branchVars == <<claim, level, computed, verdict>>

Sha256Pair(left, right) == <<left, right>>

Uint64ToLeaf(value) == <<value>>

ZeroHash == Uint64ToLeaf(0)

Root(kind, number) == <<"root", kind, number>>

\* The root over chunks whose number is a power of two: node g is above nodes
\* 2g and 2g+1.
MerkleizeChunks(chunks) ==
  LET size == Len(chunks)
      node[g \in 1..(2 * size - 1)] ==
        IF g >= size THEN chunks[g - size + 1]
                     ELSE Sha256Pair(node[2 * g], node[2 * g + 1])
  IN node[1]

BeaconHeaderRoot(header) ==
  MerkleizeChunks(<<Uint64ToLeaf(header.slot),
                    Uint64ToLeaf(header.proposerIndex),
                    header.parentRoot, header.stateRoot, header.bodyRoot,
                    ZeroHash, ZeroHash, ZeroHash>>)

-----------------------------------------------------------------------------
(***************************************************************************)
(* The beacon state.  From Altair to Deneb it has at most 32 fields, from  *)
(* Electra on more: its fields are 5 or 6 levels below its root, each in   *)
(* the same place among them.                                              *)
(***************************************************************************)

FieldDepths == {5, 6}

LatestBlockHeader == 4
Validators == 11
PreviousJustifiedCheckpoint == 18
CurrentJustifiedCheckpoint == 19
FinalizedCheckpoint == 20
CurrentSyncCommittee == 22
NextSyncCommittee == 23

Checkpoints == PreviousJustifiedCheckpoint..FinalizedCheckpoint

CheckpointHeader(state, field) ==
  CASE field = PreviousJustifiedCheckpoint -> state.previousJustified
    [] field = CurrentJustifiedCheckpoint -> state.currentJustified
    [] field = FinalizedCheckpoint -> state.finalized

\* A checkpoint is its epoch and the root of its block's header.
CheckpointChunk(state, field, right) ==
  IF right THEN BeaconHeaderRoot(CheckpointHeader(state, field))
           ELSE Uint64ToLeaf(CheckpointHeader(state, field).slot \div 4)

\* A list, as the validators are, is its content and its length.
FieldRoot(state, field) ==
  CASE field \in Checkpoints ->
         Sha256Pair(CheckpointChunk(state, field, FALSE),
                    CheckpointChunk(state, field, TRUE))
    [] field = LatestBlockHeader -> BeaconHeaderRoot(state.latest)
    [] field = Validators -> Sha256Pair(Root("field", Validators),
                                        Uint64ToLeaf(state.validatorCount))
    [] field = CurrentSyncCommittee -> state.currentSyncCommittee
    [] field = NextSyncCommittee -> state.nextSyncCommittee
    [] OTHER -> Root("field", field)

\* The nodes of a state by generalized index, down to the checkpoints' parts.
StateTree(state) ==
  LET size == 2 ^ state.fieldDepth
      node[g \in 1..(4 * size - 1)] ==
        IF g >= 2 * size
        THEN CheckpointChunk(state, g \div 2 - size, g % 2 = 1)
        ELSE IF g >= size THEN FieldRoot(state, g - size)
        ELSE Sha256Pair(node[2 * g], node[2 * g + 1])
  IN node

HashTreeRoot(state) == StateTree(state)[1]

Sibling(g) == IF g % 2 = 0 THEN g + 1 ELSE g - 1

\* The siblings of the nodes from generalized index g up to the root.
BranchTo(state, depth, g) ==
  [i \in 1..depth |-> StateTree(state)[Sibling(g \div 2 ^ (i - 1))]]

FieldBranch(state, field) ==
  BranchTo(state, state.fieldDepth, 2 ^ state.fieldDepth + field)

CheckpointBranch(state, field) ==
  BranchTo(state, state.fieldDepth + 1, 2 * (2 ^ state.fieldDepth + field) + 1)

-----------------------------------------------------------------------------

\* A root is opaque here, also where the code's is over chunks of its own.
IsRoot(x) == x = Root(x[2], x[3])

IsHeader(header) ==
  /\ header = [slot |-> header.slot, proposerIndex |-> header.proposerIndex,
               parentRoot |-> header.parentRoot, stateRoot |-> header.stateRoot,
               bodyRoot |-> header.bodyRoot]
  /\ IsRoot(header.parentRoot) /\ IsRoot(header.stateRoot) /\ IsRoot(header.bodyRoot)

IsBeaconState(state) ==
  /\ state.fieldDepth \in FieldDepths
  /\ IsHeader(state.latest) /\ IsHeader(state.finalized)
  /\ IsHeader(state.currentJustified) /\ IsHeader(state.previousJustified)
  /\ IsRoot(state.currentSyncCommittee) /\ IsRoot(state.nextSyncCommittee)

ASSUME StatesAssumption == \A state \in States : IsBeaconState(state)

\* The index is shifted right once per sibling, in a word of 32 bits: by less
\* than its width.
MaxSiblings == 31

\* The header is hashed by the program; a committee's hash is whatever 32 bytes
\* the prover gives, a node of the state or a chunk among them.
ASSUME ClaimsAssumption ==
  \A c \in Claims :
    /\ c.state \in States
    /\ Len(c.branch) \in 0..MaxSiblings
    /\ \/ c.kind = "finality" /\ IsHeader(c.header)
       \/ c.kind = "rotation"

-----------------------------------------------------------------------------
(***************************************************************************)
(* The verifier.  The depth it is called with is the length of the branch. *)
(***************************************************************************)

\* Faulty variant: the subtree index of the justified checkpoint's root.
JustifiedSubtreeIndex == 39

FinalizedRootSubtreeIndex == 41

NextSyncCommitteeSubtreeIndex == 23

SubtreeIndex(kind) ==
  IF kind = "finality" THEN FinalizedRootSubtreeIndex
                       ELSE NextSyncCommitteeSubtreeIndex

\* The header is hashed, the root of a committee is passed as it is.
ClaimLeaf(c) ==
  IF c.kind = "finality" THEN BeaconHeaderRoot(c.header) ELSE c.committee

BranchInit ==
  /\ claim \in Claims
  /\ level = 0
  /\ computed = ClaimLeaf(claim)
  /\ verdict = "none"

\* Faulty variant: the sibling always goes to the right.
SiblingOnTheRight(index, i, hash, sibling) == Sha256Pair(hash, sibling)

HashLevel(index, i, hash, sibling) ==
  IF (index \div 2 ^ i) % 2 = 0 THEN Sha256Pair(hash, sibling)
                                ELSE Sha256Pair(sibling, hash)

HashUp ==
  /\ verdict = "none"
  /\ level < Len(claim.branch)
  /\ level' = level + 1
  /\ computed' = HashLevel(SubtreeIndex(claim.kind), level, computed,
                           claim.branch[level + 1])
  /\ UNCHANGED <<claim, verdict>>

CompareRoot ==
  /\ verdict = "none"
  /\ level = Len(claim.branch)
  /\ verdict' = IF computed = HashTreeRoot(claim.state)
                THEN "accepted" ELSE "refused"
  /\ UNCHANGED <<claim, level, computed>>

BranchNext == HashUp \/ CompareRoot

BranchSpec == BranchInit /\ [][BranchNext]_branchVars

-----------------------------------------------------------------------------
(***************************************************************************)
(* Properties.                                                             *)
(***************************************************************************)

\* The node a rotation branch of n siblings leads to, from the root down.
RotationPlace(n) == 2 ^ n + (NextSyncCommitteeSubtreeIndex % 2 ^ n)

\* What is accepted as finalized is the finalized header itself, in every
\* field of it, and neither a justified one nor the latest, in the states of
\* every fork, although the depth is whatever the branch has (Step 4 of
\* verify_light_client_update).  What is accepted as the next committee (Step 5)
\* is that committee and not the current one if the branch has as many siblings
\* as the fork of the state asks for, which Step 5 leaves to the prover: with
\* fewer it is a node above the fields, the state root itself if there is none,
\* and with more nothing is said.
AcceptedInItsPlace ==
  verdict = "accepted" =>
    LET state == claim.state
        depth == Len(claim.branch)
    IN IF claim.kind = "finality" THEN claim.header = state.finalized
       ELSE /\ depth = state.fieldDepth => claim.committee = state.nextSyncCommittee
            /\ depth < state.fieldDepth =>
                 claim.committee = StateTree(state)[RotationPlace(depth)]

Honest(c) ==
  IF c.kind = "finality"
  THEN /\ c.header = c.state.finalized
       /\ c.branch = CheckpointBranch(c.state, FinalizedCheckpoint)
  ELSE /\ c.committee = c.state.nextSyncCommittee
       /\ c.branch = FieldBranch(c.state, NextSyncCommittee)

\* The branch a beacon node serves for the finalized header or the next
\* committee is accepted, whichever fork the attested state is of.
HonestBranchAccepted == verdict = "refused" => ~Honest(claim)
=============================================================================
