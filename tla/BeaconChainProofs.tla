-------------------------- MODULE BeaconChainProofs --------------------------
(***************************************************************************)
(* Facts about the beacon chain and the values on it, for chains, periods  *)
(* and committees of any size: how slots and periods relate, which hashes  *)
(* differ, and that finality never goes back.  The proofs about every      *)
(* component that reads the chain rest on them.                            *)
(***************************************************************************)
EXTENDS BeaconChain, WellFoundedInduction, TLAPS

LEMMA SlotsAreNumbers == 0 \in Slot /\ Slot \subseteq Nat
  BY MaxSlotAssumption DEF Slot

-----------------------------------------------------------------------------
(* Numbers *)

\* Every set of numbers that is not empty has a least one.
LEMMA LeastNumber ==
  ASSUME NEW S \in SUBSET Nat, S # {}
  PROVE  \E least \in S : \A n \in S : least <= n
<1>1. PICK least \in S : \A n \in S : ~(<<n, least>> \in OpToRel(<, Nat))
  BY NatLessThanWellFounded, WFMin
<1>2. ASSUME NEW n \in S
      PROVE  ~(n < least)
  <2>1. ASSUME n < least
        PROVE  <<n, least>> \in OpToRel(<, Nat)
    <3>1. <<n, least>> \in Nat \X Nat
      OBVIOUS
    <3>2. QED
      BY <2>1, <3>1, Zenon DEF OpToRel
  <2>2. QED
    BY <1>1, <2>1
<1>3. QED
  BY <1>2

-----------------------------------------------------------------------------
(* Periods *)

LEMMA DivisionBounds ==
  ASSUME NEW n \in Nat, NEW d \in Nat \ {0}
  PROVE  /\ n \div d \in Nat
         /\ d * (n \div d) <= n
         /\ n < d * (n \div d) + d
  OBVIOUS

LEMMA PeriodBounds ==
  ASSUME NEW n \in Nat
  PROVE  /\ Period(n) \in Nat
         /\ SlotsPerPeriod * Period(n) <= n
         /\ n < SlotsPerPeriod * Period(n) + SlotsPerPeriod
  BY DivisionBounds, SlotsPerPeriodAssumption DEF Period

LEMMA ProductMonotone ==
  ASSUME NEW d \in Nat, NEW m \in Nat, NEW n \in Nat, m <= n
  PROVE  d * m <= d * n
  OBVIOUS

LEMMA PeriodMonotone ==
  ASSUME NEW m \in Nat, NEW n \in Nat, m <= n
  PROVE  Period(m) <= Period(n)
<1> DEFINE d == SlotsPerPeriod
           p == Period(m)
           q == Period(n)
<1>1. /\ d \in Nat \ {0} /\ p \in Nat /\ q \in Nat
      /\ d * p <= m /\ n < d * q + d
  BY PeriodBounds, SlotsPerPeriodAssumption
<1>2. CASE q < p
  <2>1. d * (q + 1) <= d * p
    BY <1>1, <1>2, ProductMonotone
  <2>2. d * (q + 1) = d * q + d
    BY <1>1
  <2>3. d * p \in Nat /\ d * q \in Nat
    BY <1>1
  <2>4. QED
    BY <1>1, <2>1, <2>2, <2>3
<1>3. QED
  BY <1>1, <1>2

\* A block is signed in its own period or in the next one.
LEMMA SignaturePeriod ==
  ASSUME NEW a \in Nat, NEW s \in a + 1..a + SlotsPerPeriod
  PROVE  Period(s) \in {Period(a), Period(a) + 1}
<1> DEFINE d == SlotsPerPeriod
           p == Period(a)
           q == Period(s)
<1>1. /\ d \in Nat \ {0} /\ p \in Nat /\ q \in Nat /\ s \in Nat
      /\ a < d * p + d /\ d * q <= s /\ p <= q
  BY PeriodBounds, PeriodMonotone, SlotsPerPeriodAssumption
<1>2. CASE p + 2 <= q
  <2>1. d * (p + 2) <= d * q
    BY <1>1, <1>2, ProductMonotone
  <2>2. d * (p + 2) = d * p + d + d
    BY <1>1
  <2>3. d * p \in Nat /\ d * q \in Nat
    BY <1>1
  <2>4. QED
    BY <1>1, <2>1, <2>2, <2>3
<1>3. CASE q < p + 2
  <2> HIDE DEF p, q
  <2>1. q = p \/ q = p + 1
    BY <1>1, <1>3
  <2>2. QED
    BY <2>1 DEF p, q
<1>4. QED
  BY <1>1, <1>2, <1>3

-----------------------------------------------------------------------------
(* Hashes and blocks *)

LEMMA CommitteesDistinct ==
  ASSUME NEW p \in Nat, NEW q \in Nat,
         Committee(p, TRUE) = Committee(q, TRUE)
  PROVE  p = q
  BY DEF Committee

\* Nobody but the chain gave out these keys.
NotMadeUp(keys) == \A period \in Nat : keys # Committee(period, FALSE)

LEMMA ChainCommitteesNotMadeUp ==
  NotMadeUp(Zero) /\ \A period \in Nat : NotMadeUp(Committee(period, TRUE))
  BY DEF NotMadeUp, Zero, Committee

LEMMA HashesDiffer ==
  /\ \A b \in Block : HeaderRoot(b) # Zero
  /\ \A p \in Nat, c \in BOOLEAN : Committee(p, c) # Zero
  BY DEF HeaderRoot, Committee, Zero

LEMMA HeaderRootsDistinct ==
  ASSUME NEW b \in Block, NEW c \in Block, HeaderRoot(b) = HeaderRoot(c)
  PROVE  b = c
  BY DEF HeaderRoot, Block

LEMMA CanonicalBlockTyped ==
  ASSUME NEW s \in Slot
  PROVE  /\ CanonicalBlock(s) \in Block
         /\ CanonicalBlock(s).slot = s
         /\ CanonicalBlock(s).canonical = TRUE
  BY DEF CanonicalBlock, Block

-----------------------------------------------------------------------------
(* The chain *)

\* The inductive invariant of the chain.
ChainInv == ChainTypeOK /\ FinalityMonotone

LEMMA ChainInitInv == ChainInit => ChainInv
  BY SlotsAreNumbers, MaxSlotAssumption
  DEF ChainInit, ChainInv, ChainTypeOK, FinalityMonotone, Slot

LEMMA FinalizedTipTyped ==
  ASSUME ChainInv
  PROVE  tip \in Nat /\ FinalizedTip \in Nat /\ FinalizedTip <= tip
  BY SlotsAreNumbers, MaxSlotAssumption
  DEF ChainInv, ChainTypeOK, FinalityMonotone, FinalizedTip, Slot

\* The checkpoint a block of the chain finalizes is a slot.
LEMMA CheckpointTyped ==
  ASSUME ChainInv, NEW b \in 0..tip
  PROVE  b \in Slot /\ finalized[b] \in Nat
<1>1. tip \in Slot /\ finalized \in [Slot -> Slot]
  BY DEF ChainInv, ChainTypeOK
<1>2. b \in Slot
  BY <1>1, MaxSlotAssumption DEF Slot
<1>3. finalized[b] \in Slot
  BY <1>1, <1>2
<1>4. QED
  BY <1>2, <1>3, SlotsAreNumbers

\* A slot of the chain stays one when the chain grows.
LEMMA LongerChain ==
  ASSUME NEW m \in Nat, NEW n \in Nat, m <= n, NEW s \in 0..m - 1
  PROVE  s \in 0..m /\ s \in 0..n - 1
  OBVIOUS

LEMMA ExtendInv ==
  ASSUME ChainInv, Extend
  PROVE  /\ ChainInv'
         /\ FinalizedTip <= FinalizedTip'
         /\ \A s \in 0..tip : finalized'[s] = finalized[s]
<1>1. PICK checkpoint \in finalized[tip]..tip :
        finalized' = [finalized EXCEPT ![tip + 1] = checkpoint]
  BY DEF Extend
<1>2. tip \in Nat /\ tip + 1 \in Slot /\ tip' = tip + 1 /\ tip' \in Slot
  BY MaxSlotAssumption DEF Extend, ChainInv, ChainTypeOK, Slot
<1>3. finalized[tip] \in Nat /\ finalized[tip] <= tip
  BY FinalizedTipTyped DEF FinalizedTip
<1>4. checkpoint \in Nat /\ checkpoint \in Slot /\ finalized[tip] <= checkpoint
  BY <1>2, <1>3, MaxSlotAssumption DEF Slot
<1>5. \A s \in Slot : finalized'[s] = IF s = tip + 1 THEN checkpoint
                                                     ELSE finalized[s]
  BY <1>1, <1>2 DEF ChainInv, ChainTypeOK
<1>6. ChainTypeOK'
  BY <1>1, <1>2, <1>4 DEF ChainInv, ChainTypeOK
<1>7. \A s \in 0..tip : s \in Slot /\ finalized'[s] = finalized[s]
  BY <1>2, <1>5, MaxSlotAssumption DEF Slot
<1>8. FinalizedTip <= FinalizedTip'
  BY <1>2, <1>4, <1>5 DEF FinalizedTip
<1>9. FinalityMonotone'
  <2> SUFFICES ASSUME NEW r \in 0..tip', NEW s \in 0..tip'
               PROVE  /\ finalized'[s] <= s
                      /\ r <= s => finalized'[r] <= finalized'[s]
    BY DEF FinalityMonotone
  <2>1. /\ r \in Nat /\ s \in Nat
        /\ r = tip + 1 \/ r \in 0..tip
        /\ s = tip + 1 \/ s \in 0..tip
    BY <1>2
  <2>2. \A x \in 0..tip : /\ finalized'[x] \in Nat
                          /\ finalized'[x] <= x
                          /\ finalized'[x] <= finalized[tip]
    <3> SUFFICES ASSUME NEW x \in 0..tip
                 PROVE  /\ finalized[x] \in Nat
                        /\ finalized[x] <= x
                        /\ finalized[x] <= finalized[tip]
      BY <1>7
    <3>1. finalized[x] \in Nat
      BY <1>7, SlotsAreNumbers DEF ChainInv, ChainTypeOK
    <3>2. QED
      BY <3>1, <1>2 DEF ChainInv, FinalityMonotone
  <2>3. finalized'[tip + 1] = checkpoint /\ checkpoint <= tip
    BY <1>2, <1>3, <1>5
  <2>4. CASE s = tip + 1
    <3>1. finalized'[r] <= checkpoint
      <4>1. CASE r = tip + 1
        BY <4>1, <2>3, <1>4
      <4>2. CASE r \in 0..tip
        BY <4>2, <2>2, <1>3, <1>4
      <4>3. QED
        BY <4>1, <4>2, <2>1
    <3>2. QED
      BY <2>3, <2>4, <3>1, <1>2, <1>4
  <2>5. CASE s \in 0..tip
    <3>1. r <= s => r \in 0..tip
      BY <2>1, <2>5, <1>2
    <3>2. r <= s => finalized[r] <= finalized[s]
      BY <3>1, <2>5 DEF ChainInv, FinalityMonotone
    <3>3. QED
      BY <2>2, <2>5, <3>1, <3>2, <1>7
  <2>6. QED
    BY <2>1, <2>4, <2>5
<1>10. QED
  BY <1>6, <1>7, <1>8, <1>9 DEF ChainInv
=============================================================================
