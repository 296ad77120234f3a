----------------------------- MODULE MCContracts -----------------------------
(***************************************************************************)
(* The two contracts for TLC.  Neither calls the other, so a behaviour     *)
(* looks at one of three things and leaves the rest idle:                  *)
(*   "contract"  the light client alone, with values a proof may carry     *)
(*               whatever the guest checks;                                *)
(*   "oracle"    the oracle alone, with every submission;                  *)
(*   "inclusion" guest, contract and oracle composed (InclusionSystem).    *)
(***************************************************************************)
EXTENDS InclusionSystem, TLC

CONSTANTS a1, a2

VARIABLE part

E(n, canonical) == [number |-> n, canonical |-> canonical]

b(n) == <<"block", n, TRUE>>
c(n) == <<"block", n, FALSE>>

-----------------------------------------------------------------------------
(* Inputs of the guest: chains of one or two headers after block 254,      *)
(* canonical or not, with right and wrong numbers next to the RLP bytes,   *)
(* and with the parent hash of the bytes or the one that links.  From 255  *)
(* to 256 a second byte of the number begins to count.                     *)

Chains ==
  { <<E(255, TRUE)>>, <<E(255, TRUE), E(256, TRUE)>>,
    <<E(255, FALSE), E(256, TRUE)>> }

Numberings(chain) ==
  IF Len(chain) = 1 THEN {<<255>>, <<256>>} ELSE {<<255, 256>>, <<255, 257>>}

Encoded(chain, i) == b(chain[i].number - 1)

Linking(chain, i) == IF i = 1 THEN Encoded(chain, 1) ELSE BlockHash(chain[i - 1])

InputsOf(chain, numbers, asEncoded) ==
  [ headers |->
      [i \in DOMAIN chain |->
         [ block_number |-> numbers[i],
           rlp_header   |-> chain[i],
           parent_hash  |-> IF asEncoded THEN Encoded(chain, i)
                                         ELSE Linking(chain, i) ]],
    anchor_block_hash   |-> Encoded(chain, 1),
    anchor_block_number |-> 254 ]

MCInclusionInputs ==
  UNION { {InputsOf(chain, numbers, asEncoded) :
             numbers \in Numberings(chain), asEncoded \in BOOLEAN}
          : chain \in Chains }

-----------------------------------------------------------------------------
(* Submissions to the oracle: the pairs of every chain, and numbers in and *)
(* out of order, with gaps, with one twice, with the hash zero, with two   *)
(* hashes for one number, and arrays that do not match.                    *)

ChainSubmissions ==
  { << [i \in DOMAIN chain |-> 254 + i], [i \in DOMAIN chain |-> BlockHash(chain[i])] >>
    : chain \in Chains }

MCSubmissions ==
  ChainSubmissions \cup
  { <<  <<255, 257>>,      <<b(255), b(257)>>         >>,
    <<  <<255, 256, 257>>, <<b(255), b(256), c(257)>> >>,
    <<  <<256>>,           <<c(256)>>                 >>,
    <<  <<257, 0>>,        <<b(257), b(0)>>           >>,
    <<  <<256, 256>>,      <<b(256), c(256)>>         >>,
    <<  <<257>>,           <<Zero>>                   >>,
    <<  <<>>,              <<>>                       >>,
    <<  <<255, 256>>,      <<b(255)>>                 >> }

-----------------------------------------------------------------------------
(* Values a proof may carry: two roots per slot, three committees, a       *)
(* participation on each side of the threshold, and no, some or all of the *)
(* results; and for "inclusion" one committee and every commitment.        *)

MCCommittees == {Committee(p, TRUE) : p \in 0..2}

NoResults ==
  [ numStorageSlots |-> 0, storageProofAddress |-> a1,
    storageProofStorageRoot |-> Zero,
    numL2StorageSlots |-> 0, l2StateRoot |-> Zero,
    numVerifiedBlocks |-> 0, blockHashCommitment |-> Zero ]

\* A storage proof that carries an account but no slot, and the results of
\* a proof with storage slots of one account, an L2 state and a block.
AccountOnly == [NoResults EXCEPT !.storageProofStorageRoot = <<"storage", 1, TRUE>>]

AllResults(account) ==
  [ numStorageSlots |-> 2, storageProofAddress |-> account,
    storageProofStorageRoot |-> <<"storage", 2, TRUE>>,
    numL2StorageSlots |-> 1, l2StateRoot |-> <<"l2", 1, TRUE>>,
    numVerifiedBlocks |-> 1, blockHashCommitment |-> PackVerified(<<<<255, b(255)>>>>) ]

Consensus(block, signers, announced, participation) ==
  [ finalizedSlot            |-> block.slot,
    finalizedHeaderRoot      |-> HeaderRoot(block),
    finalizedStateRoot       |-> StateRoot(block),
    currentSyncCommitteeHash |-> signers,
    nextSyncCommitteeHash    |-> announced,
    participation            |-> participation ]

AnyValues ==
  { Consensus(block, signers, announced, participation) @@ carried
    : block \in Block, signers \in MCCommittees,
      announced \in MCCommittees \cup {Zero},
      participation \in {MinParticipation - 1, MinParticipation},
      carried \in {NoResults, AccountOnly} \cup {AllResults(a) : a \in Address} }

Inclusions ==
  { Consensus(CanonicalBlock(slot), Committee(0, TRUE), Zero, MinParticipation) @@
    [NoResults EXCEPT !.numVerifiedBlocks = count, !.blockHashCommitment = commitment]
    : slot \in Slot, count \in 0..2,
      commitment \in {Zero} \cup
        {PackVerified(VerifiedBlocks(inputs)) : inputs \in MCInclusionInputs} }

MCPublicValues == AnyValues \cup Inclusions

\* The repository's tests initialize with real and with zero roots.
MCCheckpoints ==
  { [ slot |-> block.slot, headerRoot |-> HeaderRoot(block),
      stateRoot |-> StateRoot(block), syncCommitteeHash |-> Committee(0, TRUE) ]
    : block \in Block }
  \cup
  { [ slot |-> slot, headerRoot |-> Zero, stateRoot |-> Zero,
      syncCommitteeHash |-> Committee(0, TRUE) ] : slot \in Slot }

-----------------------------------------------------------------------------

MCInit == InclusionInit /\ part \in {"contract", "oracle", "inclusion"}

ContractAlone ==
  /\ part = "contract"
  /\ \/ \E checkpoint \in Checkpoints : Initialize(checkpoint)
     \/ \E pv \in AnyValues : Update(pv)
  /\ UNCHANGED oracleVars

OracleAlone ==
  /\ part = "oracle"
  /\ OracleNext
  /\ UNCHANGED contractVars

Together ==
  /\ part = "inclusion"
  /\ \/ \E checkpoint \in {k \in Checkpoints : k.headerRoot = HeaderRoot(CanonicalBlock(0))} :
          Start(checkpoint)
     \/ \E pv \in Inclusions : Prove(pv)
     \/ \E s \in ChainSubmissions, commitment \in Commitments :
          Open(s[1], s[2], commitment)

MCNext == (ContractAlone \/ OracleAlone \/ Together) /\ UNCHANGED part

MCSpec == MCInit /\ [][MCNext]_<<vars, part>>
=============================================================================
