--------------------------- MODULE InclusionSystem ---------------------------
(***************************************************************************)
(* Block inclusion from end to end: a prover gives the guest a chain of    *)
(* execution headers, the contract records the commitment of the proof,    *)
(* and anyone submits block hashes to the oracle.  The consensus values of *)
(* a proof are left to PublicValues: LightClientSystem is about them.      *)
(***************************************************************************)
EXTENDS LightClientContract, BlockInclusion, BlockHashOracle

CONSTANT InclusionInputs   \* the header chains provers may pass to the guest

ASSUME InclusionInputsAssumption ==
  \A inputs \in InclusionInputs :
    /\ inputs.headers \in Seq(ExecutionBlockHeader)
    /\ inputs.anchor_block_number \in BlockNumber
    /\ inputs.anchor_block_hash \in Hash

vars == <<contractVars, oracleVars>>

\* What main.rs puts into the public values, with and without such an input.
WithInclusion(pv, inputs) ==
  /\ VerifyBlockInclusion(inputs)
  /\ pv.numVerifiedBlocks = Len(inputs.headers)
  /\ pv.blockHashCommitment = PackVerified(VerifiedBlocks(inputs))

WithoutInclusion(pv) ==
  /\ pv.numVerifiedBlocks = 0
  /\ pv.blockHashCommitment = Zero

InclusionInit == Init /\ OracleInit

Start(checkpoint) ==
  /\ Initialize(checkpoint)
  /\ UNCHANGED oracleVars

Prove(pv) ==
  /\ WithoutInclusion(pv) \/ \E inputs \in InclusionInputs : WithInclusion(pv, inputs)
  /\ Update(pv)
  /\ UNCHANGED oracleVars

Open(blockNumbers, blockHashValues, commitment) ==
  /\ SubmitBlockHashes(blockNumbers, blockHashValues, commitment)
  /\ UNCHANGED contractVars

InclusionNext ==
  \/ \E checkpoint \in Checkpoints : Start(checkpoint)
  \/ \E pv \in PublicValues : Prove(pv)
  \/ \E s \in Submissions, commitment \in Commitments : Open(s[1], s[2], commitment)

InclusionSpec == InclusionInit /\ [][InclusionNext]_vars

-----------------------------------------------------------------------------
(* Properties *)

\* The commitments the contract has recorded.
Recorded == {blockHashCommitments[s] : s \in Slot} \ {Zero}

\* Each commitment the contract records is over one unbroken run of block
\* numbers: the guest's checks of the anchor and of each number together.
RecordedConsecutive ==
  \A commitment \in Recorded :
    LET pairs == PairsOf(commitment) IN
    /\ pairs # <<>>
    /\ \A i \in DOMAIN pairs : i > 1 => pairs[i][1] = pairs[i - 1][1] + 1

\* The guest packs what it verified in Rust and the oracle what it is given
\* in Solidity.  A recorded commitment is opened by the numbers and hashes of
\* a chain the guest accepts, and by no other submission: the two packings
\* have the same layout, and it can be read in one way only.
RecordedCanBeOpened ==
  \A commitment \in Recorded :
    \E inputs \in InclusionInputs :
      /\ VerifyBlockInclusion(inputs)
      /\ LET blocks == VerifiedBlocks(inputs) IN
         /\ Opens([i \in DOMAIN blocks |-> blocks[i][1]],
                  [i \in DOMAIN blocks |-> blocks[i][2]],
                  commitment)
         /\ \A s \in Submissions :
              WellFormed(s[1], s[2]) /\ Opens(s[1], s[2], commitment) =>
                [i \in DOMAIN s[1] |-> <<s[1][i], s[2][i]>>] = blocks

\* lib/src/block_inclusion.rs:12 says "Parent hash linkage is verified: each
\* block's parentHash == hash(prev_block)".
RecordedLinked ==
  \A commitment \in Recorded :
    LET pairs == PairsOf(commitment) IN
    \A i \in DOMAIN pairs : i > 1 => IsParent(pairs[i - 1][2], pairs[i][2])
=============================================================================
