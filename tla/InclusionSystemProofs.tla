------------------------ MODULE InclusionSystemProofs ------------------------
(***************************************************************************)
(* Block inclusion from end to end.  First the oracle alone: what it keeps *)
(* for every chain length and every set of submissions (its range, the     *)
(* origin of its hashes, and that no submission brings an older hash       *)
(* back).  Then, for every set of header chains and of public values: what *)
(* the contract records is packed from a chain the guest accepts, so it is *)
(* an unbroken run of numbers and the oracle can open it.                  *)
(***************************************************************************)
EXTENDS InclusionSystem, LightClientContractProofs, WellFoundedInduction

-----------------------------------------------------------------------------
(* The bytes of a block number *)

LEMMA LeastNumberExists ==
  ASSUME NEW S \in SUBSET Nat, S # {}
  PROVE  \E least \in S : \A m \in S : least <= m
<1>1. PICK least \in S : \A m \in S : ~(<<m, least>> \in OpToRel(<, Nat))
  BY NatLessThanWellFounded, WFMin
<1>2. ASSUME NEW m \in S
      PROVE  least <= m
  <2>1. ASSUME m < least
        PROVE  <<m, least>> \in OpToRel(<, Nat)
    <3>1. <<m, least>> \in Nat \X Nat
      OBVIOUS
    <3>2. QED
      BY <2>1, <3>1, Zenon DEF OpToRel
  <2>2. m \in Nat /\ least \in Nat /\ ~(m < least)
    BY <1>1, <2>1
  <2>3. QED
    BY <2>2
<1>3. QED
  BY <1>2

\* f is the number with its last 0, 1, ..., last bytes shifted out.
Shifting(f, number, last) ==
  f = [k \in 0..last |-> IF k = 0 THEN number ELSE f[k - 1] \div 256]

LEMMA ShiftingExists ==
  ASSUME NEW number, NEW last \in Nat
  PROVE  \E f : Shifting(f, number, last)
<1> DEFINE Without == {m \in Nat : ~\E f : Shifting(f, number, m)}
<1>1. SUFFICES ASSUME Without # {}
               PROVE  FALSE
  OBVIOUS
<1>2. PICK least \in Without : \A m \in Without : least <= m
  <2> HIDE DEF Without
  <2>1. Without \in SUBSET Nat
    BY DEF Without
  <2>2. QED
    BY <1>1, <2>1, LeastNumberExists
<1>3. least \in Nat /\ ~\E f : Shifting(f, number, least)
  BY <1>2
<1>4. CASE least = 0
  <2>1. Shifting([k \in 0..0 |-> number], number, 0)
    BY DEF Shifting
  <2>2. QED
    BY <1>3, <1>4, <2>1
<1>5. CASE least # 0
  <2>1. least - 1 \in Nat /\ ~(least <= least - 1)
    BY <1>3, <1>5
  <2>2. PICK f : Shifting(f, number, least - 1)
    BY <1>2, <2>1
  <2> DEFINE g == [k \in 0..least |-> IF k = 0 THEN number ELSE f[k - 1] \div 256]
  <2>3. ASSUME NEW k \in 0..least, k # 0
        PROVE  g[k - 1] = f[k - 1]
    <3>1. k - 1 \in 0..least - 1 /\ k - 1 \in 0..least
      BY <1>3, <2>3
    <3>2. f[k - 1] = IF k - 1 = 0 THEN number ELSE f[k - 1 - 1] \div 256
      BY <2>2, <3>1 DEF Shifting
    <3>3. QED
      BY <3>1, <3>2
  <2>4. Shifting(g, number, least)
    <3> DEFINE h == [k \in 0..least |-> IF k = 0 THEN number ELSE g[k - 1] \div 256]
    <3>1. g = h
      BY <2>3
    <3> HIDE DEF g
    <3>2. QED
      BY <3>1 DEF Shifting
  <2>5. QED
    BY <1>3, <2>4
<1>6. QED
  BY <1>4, <1>5

\* Shifts shifts one byte out at a time.
LEMMA ShiftsStep ==
  ASSUME NEW number
  PROVE  /\ Shifts(number)[0] = number
         /\ \A k \in 1..31 : Shifts(number)[k] = Shifts(number)[k - 1] \div 256
<1> DEFINE F(f) == f = [k \in 0..31 |-> IF k = 0 THEN number ELSE f[k - 1] \div 256]
           f0 == CHOOSE f : F(f)
<1>1. \E f : F(f)
  <2>1. PICK f : Shifting(f, number, 31)
    BY ShiftingExists
  <2>2. F(f)
    BY <2>1 DEF Shifting
  <2>3. QED
    BY <2>2
<1>2. F(f0)
  <2> HIDE DEF F
  <2>1. QED
    BY <1>1
<1>3. Shifts(number) = f0
  BY DEF Shifts
<1>4. Shifting(Shifts(number), number, 31)
  <2> HIDE DEF f0
  <2>1. QED
    BY <1>2, <1>3 DEF Shifting
<1>5. QED
  BY <1>4 DEF Shifting

LEMMA LastByte ==
  ASSUME NEW x \in Nat
  PROVE  /\ x \div 256 \in Nat
         /\ x % 256 \in Byte
         /\ x = 256 * (x \div 256) + (x % 256)
  BY DEF Byte

LEMMA DivisionMonotone ==
  ASSUME NEW x \in Nat, NEW y \in Nat, x <= y
  PROVE  x \div 256 <= y \div 256
  OBVIOUS

\* The first eight shifts of a number, one by one.
LEMMA EightShifts ==
  ASSUME NEW number \in Nat
  PROVE  /\ Shifts(number)[0] = number
         /\ \A k \in 0..8 : Shifts(number)[k] \in Nat
         /\ \A k \in 0..7 : Shifts(number)[k + 1] = Shifts(number)[k] \div 256
<1> DEFINE s(k) == Shifts(number)[k]
<1>1. s(0) = number /\ \A k \in 0..7 : s(k + 1) = s(k) \div 256
  <2>1. \A k \in 0..7 : k + 1 \in 1..31 /\ k + 1 - 1 = k
    OBVIOUS
  <2>2. QED
    BY <2>1, ShiftsStep
<1> HIDE DEF s
<1>2. /\ s(1) = s(0) \div 256 /\ s(2) = s(1) \div 256 /\ s(3) = s(2) \div 256
      /\ s(4) = s(3) \div 256 /\ s(5) = s(4) \div 256 /\ s(6) = s(5) \div 256
      /\ s(7) = s(6) \div 256 /\ s(8) = s(7) \div 256
  BY <1>1
<1>3. /\ s(0) \in Nat /\ s(1) \in Nat /\ s(2) \in Nat /\ s(3) \in Nat /\ s(4) \in Nat
      /\ s(5) \in Nat /\ s(6) \in Nat /\ s(7) \in Nat /\ s(8) \in Nat
  BY <1>1, <1>2, LastByte
<1>4. \A k \in 0..8 : k \in {0, 1, 2, 3, 4, 5, 6, 7, 8}
  OBVIOUS
<1>5. \A k \in 0..8 : s(k) \in Nat
  BY <1>3, <1>4
<1>6. QED
  BY <1>1, <1>5 DEF s

\* A block number has no more than eight bytes, as the greatest one has.
LEMMA EightBytes ==
  ASSUME NEW number \in BlockNumber
  PROVE  number \in Nat /\ Shifts(number)[8] = 0
<1> DEFINE s(k) == Shifts(number)[k]
           top(k) == Shifts(MaxBlock)[k]
<1>1. number \in Nat /\ MaxBlock \in Nat /\ number <= MaxBlock
  BY MaxBlockAssumption DEF BlockNumber
<1>2. /\ s(0) = number /\ top(0) = MaxBlock /\ top(8) = 0
      /\ \A k \in 0..8 : s(k) \in Nat /\ top(k) \in Nat
      /\ \A k \in 0..7 : s(k + 1) = s(k) \div 256 /\ top(k + 1) = top(k) \div 256
  BY <1>1, EightShifts, Uint64Assumption
<1> HIDE DEF s, top
<1>3. \A k \in 0..7 : s(k) <= top(k) => s(k + 1) <= top(k + 1)
  <2> SUFFICES ASSUME NEW k \in 0..7, s(k) <= top(k)
               PROVE  s(k + 1) <= top(k + 1)
    OBVIOUS
  <2>1. s(k) \in Nat /\ top(k) \in Nat
    BY <1>2
  <2>2. s(k) \div 256 <= top(k) \div 256
    BY <2>1, DivisionMonotone
  <2>3. QED
    BY <1>2, <2>2
<1>4. /\ s(0) <= top(0) => s(1) <= top(1)
      /\ s(1) <= top(1) => s(2) <= top(2)
      /\ s(2) <= top(2) => s(3) <= top(3)
      /\ s(3) <= top(3) => s(4) <= top(4)
      /\ s(4) <= top(4) => s(5) <= top(5)
      /\ s(5) <= top(5) => s(6) <= top(6)
      /\ s(6) <= top(6) => s(7) <= top(7)
      /\ s(7) <= top(7) => s(8) <= top(8)
  BY <1>3
<1>5. s(8) <= 0 /\ s(8) \in Nat
  BY <1>1, <1>2, <1>4
<1>6. s(8) = 0
  BY <1>5
<1>7. QED
  BY <1>1, <1>6 DEF s

\* The guest's bytes of a block number are bytes, and can be read back.
LEMMA BeBytesRead ==
  ASSUME NEW number \in BlockNumber
  PROVE  /\ ToBeBytes(number) \in Bytes8
         /\ NumberOf(ToBeBytes(number)) = number
<1> DEFINE s(k) == Shifts(number)[k]
           b(i) == ToBeBytes(number)[i]
<1>1. /\ s(0) = number /\ s(8) = 0
      /\ \A k \in 0..8 : s(k) \in Nat
      /\ \A k \in 0..7 : s(k + 1) = s(k) \div 256
  BY EightBytes, EightShifts
<1>2. \A i \in 1..8 : b(i) = s(8 - i) % 256
  BY DEF ToBeBytes, ByteOf
<1> HIDE DEF s, b
<1>3. \A i \in 1..8 : b(i) \in Byte
  <2> TAKE i \in 1..8
  <2>1. 8 - i \in 0..8
    OBVIOUS
  <2>2. s(8 - i) \in Nat
    BY <1>1, <2>1
  <2>3. QED
    BY <1>2, <2>2, LastByte
<1>4. \A i \in 1..8 : s(8 - i) = 256 * s(9 - i) + b(i)
  <2> TAKE i \in 1..8
  <2>1. 8 - i \in 0..7 /\ 8 - i \in 0..8 /\ 8 - i + 1 = 9 - i
    OBVIOUS
  <2>2. s(8 - i) \in Nat /\ s(9 - i) = s(8 - i) \div 256
    BY <1>1, <2>1
  <2>3. s(8 - i) = 256 * (s(8 - i) \div 256) + (s(8 - i) % 256)
    BY <2>2, LastByte
  <2>4. QED
    BY <1>2, <2>2, <2>3
<1>5. /\ s(7) = 256 * s(8) + b(1) /\ s(6) = 256 * s(7) + b(2)
      /\ s(5) = 256 * s(6) + b(3) /\ s(4) = 256 * s(5) + b(4)
      /\ s(3) = 256 * s(4) + b(5) /\ s(2) = 256 * s(3) + b(6)
      /\ s(1) = 256 * s(2) + b(7) /\ s(0) = 256 * s(1) + b(8)
  BY <1>4
<1>6. s(7) = b(1)
  <2>1. b(1) \in Byte
    BY <1>3
  <2>2. s(7) = 256 * 0 + b(1) /\ b(1) \in Nat
    BY <1>1, <1>5, <2>1 DEF Byte
  <2>3. QED
    BY <2>2
<1>7. NumberOf(ToBeBytes(number)) = number
  BY <1>1, <1>5, <1>6 DEF NumberOf, b
<1>8. ToBeBytes(number) \in Bytes8
  <2>1. ToBeBytes(number) = [i \in 1..8 |-> b(i)]
    BY DEF ToBeBytes, b
  <2>2. QED
    BY <1>3, <2>1 DEF Bytes8
<1>9. QED
  BY <1>7, <1>8

\* The first eight bytes of the oracle's word, shifted, are those the guest
\* packs.
LEMMA OracleBytes ==
  ASSUME NEW number
  PROVE  [k \in 1..8 |-> ToBytes8(number)[k]] = ToBeBytes(number)
<1>1. ASSUME NEW k \in 1..8
      PROVE  ToBytes8(number)[k] = ByteOf(number, 8 - k)
  <2>1. k \in 1..32 /\ k <= 8 /\ 24 + k \in 1..32 /\ 32 - (24 + k) = 8 - k
    OBVIOUS
  <2>2. ToBytes8(number)[k] = Word(number)[24 + k]
    BY <2>1 DEF ToBytes8
  <2>3. Word(number)[24 + k] = ByteOf(number, 32 - (24 + k))
    BY <2>1 DEF Word
  <2>4. QED
    BY <2>1, <2>2, <2>3
<1>2. QED
  BY <1>1 DEF ToBeBytes

-----------------------------------------------------------------------------
(* What a submission consists of *)

LEMMA BlockNumberTyped == 0 \in BlockNumber /\ BlockNumber \subseteq Nat
  BY MaxBlockAssumption DEF BlockNumber

LEMMA ZeroIsHash == Zero \in Hash
  BY DEF Zero, Hash, Tag

\* The greatest index at which a number stands exists, so LastOf is one of
\* the places of the number.
LEMMA LastOfIsPlace ==
  ASSUME NEW numbers \in Seq(BlockNumber), NEW n \in Numbers(numbers)
  PROVE  LastOf(numbers, n) \in DOMAIN numbers /\ numbers[LastOf(numbers, n)] = n
<1> DEFINE Places == {i \in DOMAIN numbers : numbers[i] = n}
           FromEnd == {d \in Nat : \E i \in Places : d = Len(numbers) - i}
<1>1. /\ Len(numbers) \in Nat
      /\ DOMAIN numbers = 1..Len(numbers)
  OBVIOUS
<1>2. FromEnd \subseteq Nat /\ FromEnd # {}
  <2>1. PICK i \in DOMAIN numbers : numbers[i] = n
    BY DEF Numbers
  <2>2. Len(numbers) - i \in FromEnd
    BY <1>1, <2>1
  <2>3. QED
    BY <2>2
<1>3. PICK least \in FromEnd :
        \A d \in FromEnd : ~(<<d, least>> \in OpToRel(<, Nat))
  <2> HIDE DEF FromEnd
  <2>1. QED
    BY <1>2, NatLessThanWellFounded, WFMin
<1>4. \A d \in FromEnd : least <= d
  <2> HIDE DEF FromEnd
  <2>1. ASSUME NEW d \in FromEnd
        PROVE  ~(d < least)
    <3>1. ASSUME d < least
          PROVE  <<d, least>> \in OpToRel(<, Nat)
      <4>1. <<d, least>> \in Nat \X Nat
        BY <1>2
      <4>2. QED
        BY <3>1, <4>1, Zenon DEF OpToRel
    <3>2. QED
      BY <1>3, <3>1
  <2>2. QED
    BY <1>2, <2>1
<1>5. PICK i \in Places : least = Len(numbers) - i
  OBVIOUS
<1>6. \A j \in Places : j <= i
  <2> TAKE j \in Places
  <2>1. Len(numbers) - j \in FromEnd
    BY <1>1
  <2>2. least <= Len(numbers) - j
    BY <1>4, <2>1
  <2>3. QED
    BY <1>1, <1>5, <2>2
<1>7. \E k \in DOMAIN numbers :
        /\ numbers[k] = n
        /\ \A j \in DOMAIN numbers : numbers[j] = n => j <= k
  BY <1>5, <1>6
<1>8. QED
  BY <1>7 DEF LastOf

\* A commitment over numbers and hashes, packed as the guest or as the oracle
\* does, can be read back.
LEMMA PackedRead ==
  ASSUME NEW numbers, NEW hashes, DOMAIN hashes = DOMAIN numbers,
         \A i \in DOMAIN numbers : numbers[i] \in BlockNumber
  PROVE  /\ EncodePacked(numbers, hashes) =
              [i \in DOMAIN numbers |-> <<ToBeBytes(numbers[i]), hashes[i]>>]
         /\ PairsOf(Commitment(EncodePacked(numbers, hashes))) =
              [i \in DOMAIN numbers |-> <<numbers[i], hashes[i]>>]
<1> DEFINE entries == EncodePacked(numbers, hashes)
<1>1. entries = [i \in DOMAIN numbers |-> <<ToBeBytes(numbers[i]), hashes[i]>>]
  BY OracleBytes DEF EncodePacked
<1>2. \A i \in DOMAIN numbers : NumberOf(ToBeBytes(numbers[i])) = numbers[i]
  BY BeBytesRead
<1> HIDE DEF entries
<1>3. PairsOf(Commitment(entries)) =
        [i \in DOMAIN entries |-> <<NumberOf(entries[i][1]), entries[i][2]>>]
  BY DEF PairsOf, Commitment
<1>4. /\ DOMAIN entries = DOMAIN numbers
      /\ \A i \in DOMAIN numbers :
           entries[i][1] = ToBeBytes(numbers[i]) /\ entries[i][2] = hashes[i]
  BY <1>1
<1>5. PairsOf(Commitment(entries)) =
        [i \in DOMAIN numbers |-> <<numbers[i], hashes[i]>>]
  BY <1>2, <1>3, <1>4
<1>6. QED
  BY <1>1, <1>5 DEF entries

\* A successful call opens its commitment: what it stands for is exactly the
\* pairs of the call.
LEMMA SubmissionOpened ==
  ASSUME NEW numbers \in Seq(BlockNumber), NEW hashes \in Seq(Hash),
         NEW commitment, WellFormed(numbers, hashes),
         Opens(numbers, hashes, commitment)
  PROVE  /\ commitment \in {"packed"} \X Seq(Bytes8 \X Hash)
         /\ PairsOf(commitment) = [i \in DOMAIN numbers |-> <<numbers[i], hashes[i]>>]
         /\ Opened(commitment) =
              {<<numbers[i], hashes[i]>> : i \in DOMAIN numbers}
         /\ Opened(commitment) \subseteq BlockNumber \X Hash
         /\ {pair[1] : pair \in Opened(commitment)} = Numbers(numbers)
         /\ Numbers(numbers) # {} /\ Numbers(numbers) \subseteq BlockNumber
<1>1. /\ DOMAIN numbers = 1..Len(numbers) /\ Len(numbers) \in Nat
      /\ DOMAIN hashes = DOMAIN numbers
      /\ DOMAIN numbers # {}
      /\ \A i \in DOMAIN numbers : numbers[i] \in BlockNumber /\ hashes[i] \in Hash
  BY DEF WellFormed
<1>2. /\ EncodePacked(numbers, hashes) =
           [i \in DOMAIN numbers |-> <<ToBeBytes(numbers[i]), hashes[i]>>]
      /\ commitment = <<"packed", EncodePacked(numbers, hashes)>>
      /\ PairsOf(commitment) = [i \in DOMAIN numbers |-> <<numbers[i], hashes[i]>>]
  BY <1>1, PackedRead DEF Opens, Commitment
<1>3. commitment \in {"packed"} \X Seq(Bytes8 \X Hash)
  <2>1. \A i \in DOMAIN numbers : ToBeBytes(numbers[i]) \in Bytes8
    BY <1>1, BeBytesRead
  <2>2. EncodePacked(numbers, hashes) \in Seq(Bytes8 \X Hash)
    BY <1>1, <1>2, <2>1
  <2>3. QED
    BY <1>2, <2>2
<1>4. Opened(commitment) = {<<numbers[i], hashes[i]>> : i \in DOMAIN numbers}
  <2>1. DOMAIN commitment[2] = DOMAIN numbers
    BY <1>2
  <2>2. \A i \in DOMAIN numbers : PairsOf(commitment)[i] = <<numbers[i], hashes[i]>>
    BY <1>2
  <2>3. Opened(commitment) = {PairsOf(commitment)[i] : i \in DOMAIN numbers}
    BY <2>1 DEF Opened
  <2>4. QED
    BY <2>2, <2>3
<1>5. {pair[1] : pair \in Opened(commitment)} = Numbers(numbers)
  <2>1. ASSUME NEW n \in Numbers(numbers)
        PROVE  n \in {pair[1] : pair \in Opened(commitment)}
    <3>1. PICK i \in DOMAIN numbers : n = numbers[i]
      BY DEF Numbers
    <3>2. <<numbers[i], hashes[i]>> \in Opened(commitment)
      BY <1>4
    <3>3. QED
      BY <3>1, <3>2
  <2>2. ASSUME NEW pair \in Opened(commitment)
        PROVE  pair[1] \in Numbers(numbers)
    BY <1>4 DEF Numbers
  <2>3. QED
    BY <2>1, <2>2
<1>6. Opened(commitment) \subseteq BlockNumber \X Hash
  BY <1>1, <1>4
<1>7. Numbers(numbers) # {} /\ Numbers(numbers) \subseteq BlockNumber
  BY <1>1 DEF Numbers
<1>8. QED
  BY <1>2, <1>3, <1>4, <1>5, <1>6, <1>7

-----------------------------------------------------------------------------
(* The oracle: the inductive invariant *)

\* Every processed commitment is over packed entries, and stands for pairs of
\* block numbers and hashes.
ProcessedOpen ==
  /\ processedCommitments \subseteq {"packed"} \X Seq(Bytes8 \X Hash)
  /\ ProcessedPairs \subseteq BlockNumber \X Hash

\* Before the first submission the range is empty.
RangeStarts ==
  processedCommitments = {} =>
    latestBlockNumber = 0 /\ earliestBlockNumber = MaxUint256

OracleInv ==
  /\ OracleTypeOK
  /\ ProcessedOpen
  /\ RangeStarts
  /\ RangeIsTight
  /\ HashesWereCommitted

LEMMA OracleInitInv == OracleInit => OracleInv
<1> SUFFICES ASSUME OracleInit
             PROVE  OracleInv
  OBVIOUS
<1>1. OracleTypeOK
  BY BlockNumberTyped, ZeroIsHash DEF OracleInit, OracleTypeOK
<1>2. ProcessedOpen /\ RangeStarts /\ RangeIsTight
  BY DEF OracleInit, ProcessedOpen, ProcessedPairs, RangeStarts, RangeIsTight
<1>3. HashesWereCommitted
  BY DEF OracleInit, HashesWereCommitted
<1>4. QED
  BY <1>1, <1>2, <1>3 DEF OracleInv

\* What a submission adds to the pairs, and which pairs it stores.
LEMMA SubmissionStores ==
  ASSUME OracleInv, NEW numbers \in Seq(BlockNumber),
         NEW hashes \in Seq(Hash), NEW commitment,
         SubmitBlockHashes(numbers, hashes, commitment)
  PROVE  /\ ProcessedPairs' = ProcessedPairs \cup Opened(commitment)
         /\ blockHashes' \in [BlockNumber -> Hash]
         /\ \A n \in BlockNumber :
              \/ blockHashes'[n] = blockHashes[n]
              \/ <<n, blockHashes'[n]>> \in Opened(commitment)
<1>1. ProcessedPairs' = ProcessedPairs \cup Opened(commitment)
  <2>1. processedCommitments' = processedCommitments \cup {commitment}
    BY DEF SubmitBlockHashes
  <2>2. ProcessedPairs' = UNION {Opened(c) : c \in processedCommitments'}
    BY DEF ProcessedPairs, Opened, PairsOf, NumberOf
  <2>3. QED
    BY <2>1, <2>2 DEF ProcessedPairs
<1>2. Opened(commitment) = {<<numbers[i], hashes[i]>> : i \in DOMAIN numbers}
  BY SubmissionOpened DEF SubmitBlockHashes
<1>3. ASSUME NEW n \in BlockNumber
      PROVE  /\ blockHashes'[n] \in Hash
             /\ \/ blockHashes'[n] = blockHashes[n]
                \/ <<n, blockHashes'[n]>> \in Opened(commitment)
  <2>1. CASE n \in Numbers(numbers)
    <3>1. PICK i \in DOMAIN numbers :
            numbers[i] = n /\ blockHashes'[n] = hashes[i]
      BY <2>1, LastOfIsPlace DEF SubmitBlockHashes, StoreHashes
    <3>2. hashes[i] \in Hash
      BY DEF SubmitBlockHashes, WellFormed
    <3>3. QED
      BY <1>2, <3>1, <3>2
  <2>2. CASE n \notin Numbers(numbers)
    BY <2>2 DEF SubmitBlockHashes, StoreHashes, OracleInv, OracleTypeOK
  <2>3. QED
    BY <2>1, <2>2
<1>4. blockHashes' \in [BlockNumber -> Hash]
  <2>1. blockHashes' = [n \in BlockNumber |-> blockHashes'[n]]
    BY DEF SubmitBlockHashes, StoreHashes
  <2>2. QED
    BY <1>3, <2>1
<1>5. QED
  BY <1>1, <1>3, <1>4

\* The range after a submission spans its numbers and the old range.
LEMMA SubmissionRange ==
  ASSUME OracleInv, NEW numbers \in Seq(BlockNumber),
         NEW hashes \in Seq(Hash), NEW commitment,
         SubmitBlockHashes(numbers, hashes, commitment)
  PROVE  /\ latestBlockNumber' \in BlockNumber
         /\ earliestBlockNumber' \in BlockNumber
         /\ RangeIsTight'
<1> DEFINE submitted == Numbers(numbers)
           stored == {pair[1] : pair \in ProcessedPairs}
<1>1. submitted # {} /\ submitted \subseteq BlockNumber
  BY SubmissionOpened DEF SubmitBlockHashes
<1>2. /\ latestBlockNumber' \in submitted \cup {latestBlockNumber}
      /\ \A m \in submitted \cup {latestBlockNumber} : m <= latestBlockNumber'
      /\ earliestBlockNumber' \in submitted \cup {earliestBlockNumber}
      /\ \A m \in submitted \cup {earliestBlockNumber} : earliestBlockNumber' <= m
  BY DEF SubmitBlockHashes, StretchRange
<1>3. /\ latestBlockNumber \in BlockNumber
      /\ earliestBlockNumber \in BlockNumber \cup {MaxUint256}
      /\ MaxUint256 \in Nat /\ BlockNumber \subseteq Nat
      /\ \A n \in BlockNumber : 0 <= n /\ n < MaxUint256
  BY MaxBlockAssumption DEF OracleInv, OracleTypeOK, MaxUint256, BlockNumber
<1>4. stored \subseteq BlockNumber
  BY DEF OracleInv, ProcessedOpen
<1>5. stored' = stored \cup submitted
  <2>1. {pair[1] : pair \in Opened(commitment)} = submitted
    BY SubmissionOpened DEF SubmitBlockHashes
  <2>2. ProcessedPairs' = ProcessedPairs \cup Opened(commitment)
    BY SubmissionStores
  <2>3. QED
    BY <2>1, <2>2
<1>6. CASE processedCommitments = {}
  <2>1. stored = {} /\ latestBlockNumber = 0 /\ earliestBlockNumber = MaxUint256
    BY <1>6 DEF ProcessedPairs, OracleInv, RangeStarts
  <2> HIDE DEF submitted, stored
  <2>2. latestBlockNumber' \in submitted /\ earliestBlockNumber' \in submitted
    <3>1. PICK m \in submitted : m \in BlockNumber
      BY <1>1
    <3>2. m \in Nat /\ m < MaxUint256
      BY <1>3, <3>1
    <3>3. m <= latestBlockNumber' /\ earliestBlockNumber' <= m
      BY <1>2, <3>1
    <3>4. latestBlockNumber' = 0 => m = latestBlockNumber'
      BY <3>2, <3>3
    <3>5. earliestBlockNumber' # MaxUint256
      BY <1>3, <3>2, <3>3
    <3>6. QED
      BY <1>2, <2>1, <3>1, <3>4, <3>5
  <2>3. QED
    BY <1>1, <1>2, <1>5, <2>1, <2>2 DEF RangeIsTight, stored
<1>7. CASE processedCommitments # {}
  <2>1. /\ earliestBlockNumber \in stored /\ latestBlockNumber \in stored
        /\ \A n \in stored : earliestBlockNumber <= n /\ n <= latestBlockNumber
    BY <1>7 DEF OracleInv, RangeIsTight
  <2> HIDE DEF submitted, stored
  <2>2. /\ latestBlockNumber' \in stored' /\ earliestBlockNumber' \in stored'
        /\ latestBlockNumber' \in BlockNumber /\ earliestBlockNumber' \in BlockNumber
    BY <1>1, <1>2, <1>4, <1>5, <2>1
  <2>3. /\ earliestBlockNumber' <= earliestBlockNumber
        /\ latestBlockNumber <= latestBlockNumber'
    BY <1>2
  <2>4. ASSUME NEW n \in stored \cup submitted
        PROVE  earliestBlockNumber' <= n /\ n <= latestBlockNumber'
    <3>1. CASE n \in submitted
      BY <1>2, <3>1
    <3>2. CASE n \in stored
      BY <1>3, <1>4, <2>1, <2>2, <2>3, <3>2
    <3>3. QED
      BY <2>4, <3>1, <3>2
  <2>5. QED
    BY <1>5, <2>2, <2>4 DEF RangeIsTight, stored
<1>8. QED
  BY <1>6, <1>7

LEMMA SubmissionInv ==
  ASSUME OracleInv, NEW numbers \in Seq(BlockNumber),
         NEW hashes \in Seq(Hash), NEW commitment,
         SubmitBlockHashes(numbers, hashes, commitment)
  PROVE  OracleInv'
<1>1. processedCommitments' = processedCommitments \cup {commitment}
  BY DEF SubmitBlockHashes
<1>2. /\ commitment \in {"packed"} \X Seq(Bytes8 \X Hash)
      /\ Opened(commitment) \subseteq BlockNumber \X Hash
  BY SubmissionOpened DEF SubmitBlockHashes
<1>3. ProcessedOpen' /\ RangeStarts'
  BY <1>1, <1>2, SubmissionStores DEF OracleInv, ProcessedOpen, RangeStarts
<1>4. processedCommitments' \subseteq Bytes32
  BY <1>3 DEF ProcessedOpen, Bytes32
<1>5. OracleTypeOK'
  BY <1>4, SubmissionStores, SubmissionRange DEF OracleTypeOK
<1>6. HashesWereCommitted'
  BY SubmissionStores DEF HashesWereCommitted, OracleInv
<1>7. QED
  BY <1>3, <1>5, <1>6, SubmissionRange DEF OracleInv

-----------------------------------------------------------------------------
(* What the oracle keeps *)

LEMMA OracleNextInv ==
  ASSUME OracleInv, [OracleNext]_oracleVars
  PROVE  OracleInv'
<1>1. CASE OracleNext
  <2>1. PICK s \in Submissions, commitment \in Commitments :
          SubmitBlockHashes(s[1], s[2], commitment)
    BY <1>1 DEF OracleNext
  <2>2. s[1] \in Seq(BlockNumber) /\ s[2] \in Seq(Hash)
    BY SubmissionsAssumption
  <2>3. QED
    BY <2>1, <2>2, SubmissionInv
<1>2. CASE UNCHANGED oracleVars
  BY <1>2 DEF oracleVars, OracleInv, OracleTypeOK, ProcessedOpen, RangeStarts,
              RangeIsTight, HashesWereCommitted, ProcessedPairs, Opened, PairsOf
<1>3. QED
  BY <1>1, <1>2

THEOREM OracleInvariant == OracleSpec => []OracleInv
<1>1. OracleInit => OracleInv
  BY OracleInitInv
<1>2. OracleInv /\ [OracleNext]_oracleVars => OracleInv'
  BY OracleNextInv
<1>3. QED
  BY <1>1, <1>2, PTL DEF OracleSpec

\* The oracle's variables stay within the types of the contract's storage.
THEOREM OracleTypeCorrect == OracleSpec => []OracleTypeOK
<1>1. OracleInv => OracleTypeOK
  BY DEF OracleInv
<1>2. QED
  BY <1>1, OracleInvariant, PTL

\* getStoredRange answers with the least and the greatest number stored, in
\* whatever order blocks and submissions came.
THEOREM RangeTight == OracleSpec => []RangeIsTight
<1>1. OracleInv => RangeIsTight
  BY DEF OracleInv
<1>2. QED
  BY <1>1, OracleInvariant, PTL

\* Every hash getBlockHash answers with was opened from a commitment that
\* submitBlockHashes accepted.
THEOREM HashesCommitted == OracleSpec => []HashesWereCommitted
<1>1. OracleInv => HashesWereCommitted
  BY DEF OracleInv
<1>2. QED
  BY <1>1, OracleInvariant, PTL

\* A stored hash is only replaced by a commitment not processed before.
THEOREM Replays == OracleSpec => NoReplay
<1> DEFINE Fresh ==
      \A n \in BlockNumber :
        blockHashes'[n] # blockHashes[n] =>
          \E c \in processedCommitments' \ processedCommitments :
            <<n, blockHashes'[n]>> \in Opened(c)
<1>1. ASSUME OracleInv, OracleNext
      PROVE  Fresh
  <2>1. PICK s \in Submissions, commitment \in Commitments :
          SubmitBlockHashes(s[1], s[2], commitment)
    BY <1>1 DEF OracleNext
  <2>2. s[1] \in Seq(BlockNumber) /\ s[2] \in Seq(Hash)
    BY SubmissionsAssumption
  <2>3. \A n \in BlockNumber :
          \/ blockHashes'[n] = blockHashes[n]
          \/ <<n, blockHashes'[n]>> \in Opened(commitment)
    BY <1>1, <2>1, <2>2, SubmissionStores
  <2>4. commitment \in processedCommitments' \ processedCommitments
    BY <2>1 DEF SubmitBlockHashes, Unprocessed
  <2>5. QED
    BY <2>3, <2>4
<1>2. OracleInv /\ [OracleNext]_oracleVars => [Fresh]_oracleVars
  BY <1>1
<1>3. QED
  BY <1>2, OracleInvariant, PTL DEF OracleSpec, NoReplay


-----------------------------------------------------------------------------
(* Guest, contract and oracle: the inductive invariant *)

AcceptedInputs == {inputs \in InclusionInputs : VerifyBlockInclusion(inputs)}

\* Every commitment the contract holds is one the guest packed.
RecordedPacked ==
  \A commitment \in Recorded :
    \E inputs \in AcceptedInputs :
      commitment = PackVerified(VerifiedBlocks(inputs))

InclusionInv == TypeOK /\ RecordedPacked

LEMMA InclusionInitInv == InclusionInit => InclusionInv
<1> SUFFICES ASSUME InclusionInit
             PROVE  InclusionInv
  OBVIOUS
<1>1. TypeOK
  BY InitTyped DEF InclusionInit
<1>2. Recorded = {}
  BY DEF InclusionInit, Init, Recorded
<1>3. QED
  BY <1>1, <1>2 DEF InclusionInv, RecordedPacked

LEMMA ProveInv ==
  ASSUME InclusionInv, NEW pv \in PublicValues, Prove(pv)
  PROVE  InclusionInv'
<1>1. TypeOK'
  BY UpdateTyped, PublicValuesAssumption DEF Prove, InclusionInv
<1>2. \A s \in Slot :
        \/ blockHashCommitments'[s] = blockHashCommitments[s]
        \/ /\ pv.numVerifiedBlocks > 0
           /\ blockHashCommitments'[s] = pv.blockHashCommitment
  BY DEF Prove, Update, RecordResults, InclusionInv, TypeOK
<1>3. pv.numVerifiedBlocks > 0 =>
        \E inputs \in AcceptedInputs :
          pv.blockHashCommitment = PackVerified(VerifiedBlocks(inputs))
  BY DEF Prove, WithoutInclusion, WithInclusion, AcceptedInputs
<1>4. RecordedPacked'
  <2> SUFFICES ASSUME NEW commitment \in Recorded'
               PROVE  \E inputs \in AcceptedInputs :
                        commitment = PackVerified(VerifiedBlocks(inputs))
    BY DEF RecordedPacked
  <2>1. PICK s \in Slot : commitment = blockHashCommitments'[s] /\ commitment # Zero
    BY DEF Recorded
  <2>2. CASE blockHashCommitments'[s] = blockHashCommitments[s]
    BY <2>1, <2>2 DEF Recorded, InclusionInv, RecordedPacked
  <2>3. CASE pv.numVerifiedBlocks > 0 /\ blockHashCommitments'[s] = pv.blockHashCommitment
    BY <1>3, <2>1, <2>3
  <2>4. QED
    BY <1>2, <2>2, <2>3
<1>5. QED
  BY <1>1, <1>4 DEF InclusionInv

LEMMA InclusionNextInv ==
  ASSUME InclusionInv, [InclusionNext]_vars
  PROVE  InclusionInv'
<1>1. ASSUME NEW checkpoint \in Checkpoints, Start(checkpoint)
      PROVE  InclusionInv'
  <2>1. TypeOK'
    BY <1>1, InitializeTyped DEF Start, InclusionInv
  <2>2. UNCHANGED blockHashCommitments
    BY <1>1 DEF Start, Initialize, results
  <2>3. QED
    BY <2>1, <2>2 DEF InclusionInv, RecordedPacked, Recorded
<1>2. ASSUME NEW pv \in PublicValues, Prove(pv)
      PROVE  InclusionInv'
  BY <1>2, ProveInv
<1>3. CASE UNCHANGED contractVars
  BY <1>3 DEF contractVars, latest, committees, history, results,
              InclusionInv, TypeOK, RecordedPacked, Recorded
<1>4. QED
  BY <1>1, <1>2, <1>3 DEF InclusionNext, Open, vars

THEOREM InclusionInvariant == InclusionSpec => []InclusionInv
<1>1. InclusionInit => InclusionInv
  BY InclusionInitInv
<1>2. InclusionInv /\ [InclusionNext]_vars => InclusionInv'
  BY InclusionNextInv
<1>3. QED
  BY <1>1, <1>2, PTL DEF InclusionSpec

-----------------------------------------------------------------------------
(* What the packing of an accepted chain is *)

LEMMA PackedPairs ==
  ASSUME NEW inputs \in AcceptedInputs
  PROVE  LET blocks == VerifiedBlocks(inputs)
             numbers == [i \in DOMAIN blocks |-> blocks[i][1]]
             hashes == [i \in DOMAIN blocks |-> blocks[i][2]]
         IN  /\ PairsOf(PackVerified(blocks)) = blocks
             /\ Opens(numbers, hashes, PackVerified(blocks))
<1> DEFINE blocks == VerifiedBlocks(inputs)
           numbers == [i \in DOMAIN blocks |-> blocks[i][1]]
           hashes == [i \in DOMAIN blocks |-> blocks[i][2]]
<1>1. /\ \A i \in DOMAIN blocks : blocks[i] = <<blocks[i][1], blocks[i][2]>>
      /\ blocks = [i \in DOMAIN blocks |-> blocks[i]]
      /\ \A i \in DOMAIN blocks : blocks[i][1] \in BlockNumber
  <2>1. inputs.headers \in Seq(ExecutionBlockHeader)
    BY InclusionInputsAssumption DEF AcceptedInputs
  <2>2. \A i \in DOMAIN inputs.headers : inputs.headers[i].block_number \in BlockNumber
    <3>1. \A header \in ExecutionBlockHeader : header.block_number \in BlockNumber
      BY DEF ExecutionBlockHeader
    <3>2. \A i \in DOMAIN inputs.headers : inputs.headers[i] \in ExecutionBlockHeader
      BY <2>1
    <3>3. QED
      BY <3>1, <3>2
  <2>3. QED
    BY <2>2 DEF VerifiedBlocks
<1> HIDE DEF blocks
<1>2. /\ DOMAIN numbers = DOMAIN blocks /\ DOMAIN hashes = DOMAIN blocks
      /\ \A i \in DOMAIN blocks :
           numbers[i] = blocks[i][1] /\ hashes[i] = blocks[i][2]
  OBVIOUS
<1> HIDE DEF numbers, hashes
<1>3. /\ EncodePacked(numbers, hashes) =
           [i \in DOMAIN numbers |-> <<ToBeBytes(numbers[i]), hashes[i]>>]
      /\ PairsOf(Commitment(EncodePacked(numbers, hashes))) =
           [i \in DOMAIN numbers |-> <<numbers[i], hashes[i]>>]
  BY <1>1, <1>2, PackedRead
<1>4. PackVerified(blocks) = Commitment(EncodePacked(numbers, hashes))
  BY <1>2, <1>3 DEF PackVerified
<1>5. [i \in DOMAIN numbers |-> <<numbers[i], hashes[i]>>] = blocks
  BY <1>1, <1>2
<1>6. QED
  BY <1>3, <1>4, <1>5 DEF Opens, blocks, numbers, hashes

LEMMA AcceptedConsecutive ==
  ASSUME NEW inputs \in AcceptedInputs
  PROVE  LET blocks == VerifiedBlocks(inputs) IN
         /\ blocks # <<>>
         /\ \A i \in DOMAIN blocks :
              i > 1 => blocks[i][1] = blocks[i - 1][1] + 1
<1>1. /\ inputs.headers \in Seq(ExecutionBlockHeader)
      /\ inputs.anchor_block_number \in Nat
      /\ inputs.headers # <<>>
      /\ \A i \in DOMAIN inputs.headers :
           inputs.headers[i].block_number = inputs.anchor_block_number + i
  BY InclusionInputsAssumption, MaxBlockAssumption
  DEF AcceptedInputs, VerifyBlockInclusion, ConsecutiveNumber, BlockNumber
<1>2. /\ DOMAIN inputs.headers = 1..Len(inputs.headers)
      /\ Len(inputs.headers) \in Nat \ {0}
  BY <1>1
<1>3. /\ DOMAIN VerifiedBlocks(inputs) = DOMAIN inputs.headers
      /\ \A i \in DOMAIN inputs.headers :
           VerifiedBlocks(inputs)[i][1] = inputs.anchor_block_number + i
  BY <1>1 DEF VerifiedBlocks
<1>4. VerifiedBlocks(inputs) # <<>>
  <2>1. 1 \in DOMAIN VerifiedBlocks(inputs)
    BY <1>2, <1>3
  <2>2. QED
    BY <2>1
<1>5. ASSUME NEW i \in DOMAIN VerifiedBlocks(inputs), i > 1
      PROVE  VerifiedBlocks(inputs)[i][1] = VerifiedBlocks(inputs)[i - 1][1] + 1
  <2>1. i \in DOMAIN inputs.headers /\ i - 1 \in DOMAIN inputs.headers /\ i \in Nat
    BY <1>2, <1>3, <1>5
  <2>2. /\ VerifiedBlocks(inputs)[i][1] = inputs.anchor_block_number + i
        /\ VerifiedBlocks(inputs)[i - 1][1] = inputs.anchor_block_number + (i - 1)
    BY <1>3, <2>1
  <2>3. \A anchor, k \in Nat : anchor + k = anchor + (k - 1) + 1
    OBVIOUS
  <2>4. QED
    BY <1>1, <2>1, <2>2, <2>3
<1>6. QED
  BY <1>4, <1>5

-----------------------------------------------------------------------------
(* What the oracle can open *)

\* Each recorded commitment is over one unbroken run of block numbers.
THEOREM RecordedAreConsecutive == InclusionSpec => []RecordedConsecutive
<1>1. InclusionInv => RecordedConsecutive
  <2> SUFFICES ASSUME InclusionInv, NEW commitment \in Recorded
               PROVE  LET pairs == PairsOf(commitment) IN
                      /\ pairs # <<>>
                      /\ \A i \in DOMAIN pairs :
                           i > 1 => pairs[i][1] = pairs[i - 1][1] + 1
    BY DEF RecordedConsecutive
  <2>1. PICK inputs \in AcceptedInputs :
          commitment = PackVerified(VerifiedBlocks(inputs))
    BY DEF InclusionInv, RecordedPacked
  <2>2. PairsOf(commitment) = VerifiedBlocks(inputs)
    BY <2>1, PackedPairs
  <2>3. QED
    BY <2>2, AcceptedConsecutive
<1>2. QED
  BY <1>1, InclusionInvariant, PTL

\* What the guest packed and the contract recorded is opened by the numbers
\* and hashes of the chain it accepted, packed the oracle's way, and by no
\* other submission: for every uint64 number the bytes of u64::to_be_bytes
\* are those of bytes8, and they can be read in one way only.
THEOREM RecordedAreOpened == InclusionSpec => []RecordedCanBeOpened
<1>1. InclusionInv => RecordedCanBeOpened
  <2> SUFFICES ASSUME InclusionInv, NEW commitment \in Recorded
               PROVE  \E inputs \in InclusionInputs :
                        /\ VerifyBlockInclusion(inputs)
                        /\ LET blocks == VerifiedBlocks(inputs) IN
                           /\ Opens([i \in DOMAIN blocks |-> blocks[i][1]],
                                    [i \in DOMAIN blocks |-> blocks[i][2]],
                                    commitment)
                           /\ \A s \in Submissions :
                                WellFormed(s[1], s[2]) /\ Opens(s[1], s[2], commitment) =>
                                  [i \in DOMAIN s[1] |-> <<s[1][i], s[2][i]>>] = blocks
    BY DEF RecordedCanBeOpened
  <2>1. PICK inputs \in AcceptedInputs :
          commitment = PackVerified(VerifiedBlocks(inputs))
    BY DEF InclusionInv, RecordedPacked
  <2> DEFINE blocks == VerifiedBlocks(inputs)
  <2>2. /\ PairsOf(commitment) = blocks
        /\ Opens([i \in DOMAIN blocks |-> blocks[i][1]],
                 [i \in DOMAIN blocks |-> blocks[i][2]],
                 commitment)
    BY <2>1, PackedPairs
  <2>3. ASSUME NEW s \in Submissions,
               WellFormed(s[1], s[2]), Opens(s[1], s[2], commitment)
        PROVE  [i \in DOMAIN s[1] |-> <<s[1][i], s[2][i]>>] = blocks
    <3>1. s[1] \in Seq(BlockNumber) /\ s[2] \in Seq(Hash)
      BY SubmissionsAssumption
    <3>2. PairsOf(commitment) = [i \in DOMAIN s[1] |-> <<s[1][i], s[2][i]>>]
      BY <2>3, <3>1, SubmissionOpened
    <3>3. QED
      BY <2>2, <3>2
  <2>4. inputs \in InclusionInputs /\ VerifyBlockInclusion(inputs)
    BY DEF AcceptedInputs
  <2>5. QED
    BY <2>2, <2>3, <2>4
<1>2. QED
  BY <1>1, InclusionInvariant, PTL
=============================================================================
