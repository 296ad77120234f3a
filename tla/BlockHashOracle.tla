--------------------------- MODULE BlockHashOracle ---------------------------
(***************************************************************************)
(* contracts/src/BlockHashOracle.sol.  Anyone may submit two arrays and a  *)
(* commitment; the call reverts (no step) or stores every pair (one step). *)
(* The address of the light client is kept but never called.               *)
(***************************************************************************)
EXTENDS ExecutionChain

CONSTANT Submissions   \* the <<blockNumbers, blockHashValues>> callers pass

ASSUME SubmissionsAssumption ==
  Submissions \subseteq Seq(BlockNumber) \X Seq(Hash)

VARIABLES
  blockHashes,           \* block number -> hash, Zero if not stored
  processedCommitments,  \* the commitments submitted so far
  latestBlockNumber,
  earliestBlockNumber

oracleVars ==
  <<blockHashes, processedCommitments, latestBlockNumber, earliestBlockNumber>>

\* type(uint256).max is above every uint64 block number.
MaxUint256 == MaxBlock + 1

OracleTypeOK ==
  /\ blockHashes \in [BlockNumber -> Hash]
  /\ processedCommitments \subseteq Bytes32
  /\ latestBlockNumber \in BlockNumber
  /\ earliestBlockNumber \in BlockNumber \cup {MaxUint256}

OracleInit ==
  /\ blockHashes = [n \in BlockNumber |-> Zero]
  /\ processedCommitments = {}
  /\ latestBlockNumber = 0
  /\ earliestBlockNumber = MaxUint256

-----------------------------------------------------------------------------
(* submitBlockHashes *)

Numbers(blockNumbers) == {blockNumbers[i] : i \in DOMAIN blockNumbers}

WellFormed(blockNumbers, blockHashValues) ==
  /\ blockNumbers # <<>>
  /\ Len(blockNumbers) = Len(blockHashValues)

\* Faulty variant: a commitment may be submitted again.
AlwaysUnprocessed(commitment) == TRUE

Unprocessed(commitment) == commitment \notin processedCommitments

\* A uint64 as the EVM holds it: a word of 32 bytes, the last one the least
\* significant.
Word(number) == [i \in 1..32 |-> ByteOf(number, 32 - i)]

\* bytes8(number): the word moved to the left, so that the eight bytes of the
\* uint64 stand where the bytes of a bytes8 do.
ToBytes8(number) ==
  LET word == Word(number) IN [i \in 1..32 |-> IF i <= 8 THEN word[24 + i] ELSE 0]

\* abi.encodePacked: the first eight bytes of each bytes8, then the hash.
EncodePacked(blockNumbers, blockHashValues) ==
  [i \in DOMAIN blockNumbers |->
     << [k \in 1..8 |-> ToBytes8(blockNumbers[i])[k]], blockHashValues[i] >>]

\* Faulty variant: the commitment passed in is believed.
AnyCommitment(blockNumbers, blockHashValues, commitment) == TRUE

Opens(blockNumbers, blockHashValues, commitment) ==
  commitment = Commitment(EncodePacked(blockNumbers, blockHashValues))

\* The loop stores the pairs in order: the last one of a number stays.
LastOf(blockNumbers, n) ==
  CHOOSE i \in DOMAIN blockNumbers :
    /\ blockNumbers[i] = n
    /\ \A j \in DOMAIN blockNumbers : blockNumbers[j] = n => j <= i

StoreHashes(blockNumbers, blockHashValues) ==
  blockHashes' =
    [n \in BlockNumber |->
       IF n \in Numbers(blockNumbers)
       THEN blockHashValues[LastOf(blockNumbers, n)]
       ELSE blockHashes[n]]

\* Faulty variant: a number that is the latest is not also the earliest.
StretchEither(blockNumbers) ==
  LET above == {n \in Numbers(blockNumbers) : n > latestBlockNumber}
      rest  == Numbers(blockNumbers) \ above
  IN /\ latestBlockNumber' =
          IF above = {} THEN latestBlockNumber
          ELSE CHOOSE n \in above : \A m \in above : m <= n
     /\ earliestBlockNumber' =
          CHOOSE n \in rest \cup {earliestBlockNumber} :
            \A m \in rest \cup {earliestBlockNumber} : n <= m

\* Faulty variant: the latest number is one past the last stored.
StretchExclusive(blockNumbers) ==
  LET upper == {n + 1 : n \in Numbers(blockNumbers)} \cup {latestBlockNumber}
      lower == Numbers(blockNumbers) \cup {earliestBlockNumber}
  IN /\ \E n \in upper : (\A m \in upper : m <= n) /\ latestBlockNumber' = n
     /\ \E n \in lower : (\A m \in lower : n <= m) /\ earliestBlockNumber' = n

StretchRange(blockNumbers) ==
  LET upper == Numbers(blockNumbers) \cup {latestBlockNumber}
      lower == Numbers(blockNumbers) \cup {earliestBlockNumber}
  IN /\ \E n \in upper : (\A m \in upper : m <= n) /\ latestBlockNumber' = n
     /\ \E n \in lower : (\A m \in lower : n <= m) /\ earliestBlockNumber' = n

SubmitBlockHashes(blockNumbers, blockHashValues, commitment) ==
  /\ WellFormed(blockNumbers, blockHashValues)
  /\ Unprocessed(commitment)
  /\ Opens(blockNumbers, blockHashValues, commitment)
  /\ processedCommitments' = processedCommitments \cup {commitment}
  /\ StoreHashes(blockNumbers, blockHashValues)
  /\ StretchRange(blockNumbers)

Commitments ==
  {Commitment(EncodePacked(s[1], s[2])) :
     s \in {t \in Submissions : WellFormed(t[1], t[2])}}

OracleNext ==
  \E s \in Submissions, commitment \in Commitments :
    SubmitBlockHashes(s[1], s[2], commitment)

OracleSpec == OracleInit /\ [][OracleNext]_oracleVars

-----------------------------------------------------------------------------
(* Properties *)

\* The numbers and hashes a commitment is over, and as a set of pairs.
PairsOf(commitment) ==
  [i \in DOMAIN commitment[2] |->
     <<NumberOf(commitment[2][i][1]), commitment[2][i][2]>>]

Opened(commitment) == {PairsOf(commitment)[i] : i \in DOMAIN commitment[2]}

ProcessedPairs == UNION {Opened(c) : c \in processedCommitments}

\* getStoredRange returns the least and the greatest number ever stored,
\* whatever the order of the numbers in a submission and of the submissions.
RangeIsTight ==
  processedCommitments # {} =>
    LET numbers == {pair[1] : pair \in ProcessedPairs} IN
    /\ {earliestBlockNumber, latestBlockNumber} \subseteq numbers
    /\ \A n \in numbers : earliestBlockNumber <= n /\ n <= latestBlockNumber

\* A hash the oracle answers with is one that a processed commitment has for
\* that number: no submission stores a pair it has not opened.
HashesWereCommitted ==
  \A n \in BlockNumber :
    blockHashes[n] # Zero => <<n, blockHashes[n]>> \in ProcessedPairs

\* Once another submission has replaced the hash of a number, the older
\* submission cannot be made again to bring its hash back: a hash that
\* changes is one that some commitment not yet processed has.
NoReplay ==
  [][ \A n \in BlockNumber :
        blockHashes'[n] # blockHashes[n] =>
          \E c \in processedCommitments' \ processedCommitments :
            <<n, blockHashes'[n]>> \in Opened(c)
    ]_oracleVars
=============================================================================
