--------------------------- MODULE SyncStoreProofs ---------------------------
(***************************************************************************)
(* Proofs about the light client store of sync.rs, for chains, periods,    *)
(* batches and stores of any size and any number of processes: the types,  *)
(* that a process never goes back to an older committee, and that the file *)
(* never goes back while at most one process runs at a time.               *)
(***************************************************************************)
EXTENDS SyncStore, BeaconChainProofs

(***************************************************************************)
(* A store is one that some block of the chain accounts for: its head is   *)
(* the checkpoint final in that block, and its committees are no newer     *)
(* than the one after that block's period.  What is announced is no older  *)
(* than what is current.                                                   *)
(***************************************************************************)
AccountedFor(s, block) ==
  /\ finalized[block] = s.finalized_slot
  /\ Rank(s.current) <= Period(block) + 2
  /\ Rank(s.next) <= Period(block) + 2

StoreFits(s) ==
  /\ s \in Store
  /\ ~IsInitialized(s) => Rank(s.current) = 0
  /\ s.next # Zero => Rank(s.current) <= Rank(s.next)
  /\ \E block \in 0..tip : AccountedFor(s, block)

\* The inductive invariant.
SyncInv ==
  /\ ChainInv
  /\ SyncTypeOK
  /\ StoreFits(file.store)
  /\ \A p \in Process : StoreFits(store[p])

\* One process at a time, and the file it shares with those before it.
OneAtATime ==
  \A p, q \in Process : pc[p] \in Running /\ pc[q] \in Running => p = q

FileBehind ==
  /\ file.contents = "absent" => file.store.finalized_slot = 0
  /\ \A p \in Process :
       pc[p] \in Running =>
         file.store.finalized_slot <= store[p].finalized_slot

-----------------------------------------------------------------------------
(* Values *)

LEMMA MinOfTwo ==
  ASSUME NEW m \in Int, NEW n \in Int
  PROVE  Min({m, n}) = IF m <= n THEN m ELSE n
<1> DEFINE least == IF m <= n THEN m ELSE n
<1>1. \A x \in {m, n} : (\A y \in {m, n} : x =< y) => x = least
  OBVIOUS
<1>2. least \in {m, n} /\ \A y \in {m, n} : least =< y
  OBVIOUS
<1> HIDE DEF least
<1>3. Min({m, n}) = least
  BY <1>1, <1>2 DEF Min
<1>4. QED
  BY <1>3 DEF least

\* A batch ends no later than the walk.
LEMMA BatchWithinWalk ==
  ASSUME NEW w \in Walk, w.period <= w.end + 1
  PROVE  /\ PeriodAfterBatch(w) \in Nat
         /\ PeriodAfterBatch(w) <= w.end + 1
<1>1. w.period \in Nat /\ w.end \in Nat /\ BatchSize \in Nat \ {0}
  BY BatchSizeAssumption DEF Walk
<1>2. Min({BatchSize, w.end - w.period + 1}) =
        IF BatchSize <= w.end - w.period + 1 THEN BatchSize
                                             ELSE w.end - w.period + 1
  BY <1>1, MinOfTwo
<1>3. QED
  BY <1>1, <1>2 DEF PeriodAfterBatch

LEMMA RankTyped ==
  /\ \A h \in Hash : Rank(h) \in Nat
  /\ \A period \in Nat : /\ PeriodPlaceholder(period) \in Hash
                         /\ Rank(PeriodPlaceholder(period)) = 0
                         /\ Committee(period, TRUE) \in Hash
                         /\ Rank(Committee(period, TRUE)) = period + 1
  /\ Zero \in Hash /\ Rank(Zero) = 0
  /\ Placeholder \in Hash /\ Rank(Placeholder) = 0
<1>1. ASSUME NEW h \in Hash
      PROVE  Rank(h) \in Nat
  <2>1. h[2] \in Nat
    BY DEF Hash
  <2>2. QED
    BY <2>1 DEF Rank
<1>2. ASSUME NEW period \in Nat
      PROVE  /\ Committee(period, TRUE) \in Hash
             /\ Rank(Committee(period, TRUE)) = period + 1
  BY DEF Hash, Tag, Committee, Rank
<1>3. Zero \in Hash /\ Rank(Zero) = 0
  BY DEF Hash, Tag, Zero, Rank
<1>4. Placeholder \in Hash /\ Rank(Placeholder) = 0
  BY DEF Hash, Tag, Placeholder, Rank
<1>5. ASSUME NEW period \in Nat
      PROVE  /\ PeriodPlaceholder(period) \in Hash
             /\ Rank(PeriodPlaceholder(period)) = 0
  <2>1. CASE period = 0
    BY <1>3, <2>1 DEF PeriodPlaceholder
  <2>2. CASE period # 0
    BY <2>2 DEF PeriodPlaceholder, Hash, Tag, Rank
  <2>3. QED
    BY <2>1, <2>2
<1>6. QED
  BY <1>1, <1>2, <1>3, <1>4, <1>5

LEMMA NewStoreFits ==
  ASSUME ChainInv
  PROVE  StoreFits(NewStore)
<1>1. tip \in Nat /\ 0 \in 0..tip
  BY FinalizedTipTyped
<1>2. finalized[0] \in Nat /\ finalized[0] <= 0
  BY <1>1, CheckpointTyped DEF ChainInv, FinalityMonotone
<1>3. AccountedFor(NewStore, 0)
  BY <1>2, RankTyped, PeriodBounds DEF AccountedFor, NewStore
<1>4. QED
  BY <1>1, <1>3, RankTyped, SlotsAreNumbers
  DEF StoreFits, NewStore, Store, IsInitialized

-----------------------------------------------------------------------------
(* Updates *)

\* Neither the head nor the committee of s is newer than that of t.
Advances(s, t) ==
  /\ s.finalized_slot <= t.finalized_slot
  /\ Rank(s.current) <= Rank(t.current)

LEMMA StoreTyped ==
  ASSUME NEW s \in Store
  PROVE  /\ s.finalized_slot \in Slot /\ s.finalized_slot \in Nat
         /\ s.current \in Hash /\ s.next \in Hash
         /\ Rank(s.current) \in Nat /\ Rank(s.next) \in Nat
  BY RankTyped, SlotsAreNumbers DEF Store

LEMMA AdvancesTransitive ==
  ASSUME NEW r \in Store, NEW s \in Store, NEW t \in Store,
         Advances(r, s), Advances(s, t)
  PROVE  Advances(r, t)
  BY StoreTyped DEF Advances

LEMMA AdvancesReflexive ==
  ASSUME NEW s \in Store
  PROVE  Advances(s, s)
  BY StoreTyped DEF Advances

\* A later checkpoint is one of a later block, and so of no earlier period.
LEMMA LaterBlock ==
  ASSUME ChainInv, NEW a \in 0..tip, NEW b \in 0..tip,
         finalized[a] < finalized[b]
  PROVE  /\ Period(a) \in Nat /\ Period(b) \in Nat
         /\ Period(a) <= Period(b)
<1>1. a \in Nat /\ b \in Nat /\ finalized[a] \in Nat /\ finalized[b] \in Nat
  BY FinalizedTipTyped, CheckpointTyped
<1>2. a <= b
  BY <1>1 DEF ChainInv, FinalityMonotone
<1>3. QED
  BY <1>1, <1>2, PeriodBounds, PeriodMonotone

\* What a store is after an update that block stands behind.
LEMMA AppliedFits ==
  ASSUME ChainInv, NEW s, StoreFits(s), NEW block \in 0..tip - 1,
         NEW u, u.finalized_slot = finalized[block],
         IsInitialized(s) => s.finalized_slot < finalized[block],
         u.current \in Hash, u.next \in Hash,
         Rank(s.current) <= Rank(u.current),
         ~IsInitialized(s) => Rank(u.current) = 0,
         Rank(u.current) <= Rank(s.current) \/ Rank(u.current) <= Rank(s.next),
         u.next # Zero => Rank(u.current) <= Rank(u.next),
         Rank(u.next) <= Period(block) + 2 \/ u.next = s.next
  PROVE  /\ StoreFits(ApplyFinalityUpdate(s, u))
         /\ Advances(s, ApplyFinalityUpdate(s, u))
<1> DEFINE t == ApplyFinalityUpdate(s, u)
<1> SUFFICES StoreFits(t) /\ Advances(s, t)
  OBVIOUS
<1>1. s \in Store
  BY DEF StoreFits
<1>2. CASE ~Applies(s, u)
  <2>1. t = s
    BY <1>2 DEF ApplyFinalityUpdate
  <2> HIDE DEF t
  <2>2. QED
    BY <1>1, <2>1, AdvancesReflexive
<1>3. CASE Applies(s, u)
  <2>1. t = [finalized_slot |-> finalized[block],
             current |-> u.current, next |-> u.next]
    BY <1>3 DEF ApplyFinalityUpdate
  <2> HIDE DEF t
  <2>2. tip \in Nat /\ block \in 0..tip /\ block \in Slot /\ block \in Nat
    BY FinalizedTipTyped, CheckpointTyped
  <2>3. finalized[block] \in Slot /\ finalized[block] \in Nat
    BY <2>2, SlotsAreNumbers DEF ChainInv, ChainTypeOK
  <2>4. t \in Store
    BY <2>1, <2>3 DEF Store
  <2>5. s.finalized_slot \in Nat /\ s.finalized_slot <= finalized[block]
    BY <1>1, <2>3, StoreTyped DEF IsInitialized
  <2>6. Advances(s, t)
    BY <2>1, <2>5 DEF Advances
  <2>7. PICK old \in 0..tip : AccountedFor(s, old)
    BY DEF StoreFits
  <2>8. /\ Rank(s.current) \in Nat /\ Rank(s.next) \in Nat
        /\ Rank(u.current) \in Nat /\ Rank(u.next) \in Nat
        /\ Period(block) \in Nat
    BY <1>1, <2>2, StoreTyped, RankTyped, PeriodBounds
  <2>9. \E b \in 0..tip : AccountedFor(t, b)
    <3>1. CASE finalized[old] < finalized[block]
      <4>1. Period(old) \in Nat /\ Period(old) <= Period(block)
        BY <2>2, <3>1, LaterBlock
      <4>2. AccountedFor(t, block)
        BY <2>1, <2>7, <2>8, <4>1 DEF AccountedFor
      <4>3. QED
        BY <2>2, <4>2
    <3>2. CASE ~(finalized[old] < finalized[block])
      <4>1. /\ Rank(u.current) = 0
            /\ finalized[old] = 0 /\ finalized[block] = 0
        BY <2>3, <2>5, <2>7, <3>2 DEF AccountedFor, IsInitialized
      <4>2. CASE Rank(u.next) <= Period(block) + 2
        <5>1. AccountedFor(t, block)
          BY <2>1, <2>8, <4>1, <4>2 DEF AccountedFor
        <5>2. QED
          BY <2>2, <5>1
      <4>3. CASE u.next = s.next
        <5>1. Period(old) \in Nat
          BY <2>2, PeriodBounds
        <5>2. AccountedFor(t, old)
          BY <2>1, <2>7, <4>1, <4>3, <5>1 DEF AccountedFor
        <5>3. QED
          BY <5>2
      <4>4. QED
        BY <4>2, <4>3
    <3>3. QED
      BY <3>1, <3>2
  <2>10. ~IsInitialized(t) => Rank(t.current) = 0
    BY <2>1, <2>3, <2>5 DEF IsInitialized
  <2>11. QED
    BY <2>1, <2>4, <2>6, <2>9, <2>10 DEF StoreFits
<1>4. QED
  BY <1>2, <1>3
\* An update of historical sync, as a node with this chain may give it.
NodeUpdate ==
  [attested : 0..tip - 1, rotation : BOOLEAN, participation : {0, 1}]

LEMMA HistoricalStepFits ==
  ASSUME ChainInv, NEW s, StoreFits(s), NEW u \in NodeUpdate
  PROVE  /\ StoreFits(HistoricalStep(s, u))
         /\ Advances(s, HistoricalStep(s, u))
<1> DEFINE period == Period(u.attested)
           next == IF u.rotation THEN Committee(period + 1, TRUE) ELSE Zero
           update == [ finalized_slot |-> finalized[u.attested],
                       current        |-> CurrentOf(s, u),
                       next           |-> next,
                       participation  |-> u.participation ]
<1>1. /\ s \in Store /\ s.finalized_slot \in Nat
      /\ s.current \in Hash /\ s.next \in Hash
      /\ Rank(s.current) \in Nat /\ Rank(s.next) \in Nat
  BY StoreTyped DEF StoreFits
<1>2. u.attested \in 0..tip - 1 /\ u.rotation \in BOOLEAN
  BY DEF NodeUpdate
<1>3. /\ tip \in Nat /\ u.attested \in Nat /\ u.attested \in 0..tip
      /\ finalized[u.attested] \in Nat
      /\ period \in Nat
  BY <1>2, FinalizedTipTyped, CheckpointTyped, PeriodBounds
<1>4. CASE ~(finalized[u.attested] > s.finalized_slot \/ ~IsInitialized(s))
  <2>1. HistoricalStep(s, u) = s
    BY <1>4 DEF HistoricalStep
  <2>2. QED
    BY <1>1, <2>1, AdvancesReflexive
<1>5. CASE finalized[u.attested] > s.finalized_slot \/ ~IsInitialized(s)
  <2>1. HistoricalStep(s, u) = ApplyFinalityUpdate(s, update)
    BY <1>5 DEF HistoricalStep
  <2>2. /\ next \in Hash /\ Rank(next) <= period + 2
        /\ next # Zero => Rank(next) = period + 2
    <3> HIDE DEF period
    <3>1. CASE u.rotation
      <4>1. period + 1 \in Nat /\ next = Committee(period + 1, TRUE)
        BY <1>3, <3>1
      <4> HIDE DEF next
      <4>2. next \in Hash /\ Rank(next) = period + 1 + 1
        BY <4>1, RankTyped
      <4>3. QED
        BY <1>3, <4>2
    <3>2. CASE ~u.rotation
      <4>1. next = Zero
        BY <1>2, <3>2
      <4> HIDE DEF next
      <4>2. QED
        BY <1>3, <4>1, RankTyped
    <3>3. QED
      BY <3>1, <3>2
  <2>3. CASE ~IsInitialized(s)
    <3>1. CurrentOf(s, u) = PeriodPlaceholder(period)
      BY <2>3 DEF CurrentOf
    <3>2. /\ CurrentOf(s, u) \in Hash
          /\ Rank(CurrentOf(s, u)) = 0
          /\ Rank(s.current) = 0
      BY <1>3, <2>3, <3>1, RankTyped DEF StoreFits
    <3> HIDE DEF next, period
    <3>3. QED
      BY <1>1, <1>2, <1>3, <2>1, <2>2, <2>3, <3>2, AppliedFits DEF period
  <2>4. CASE IsInitialized(s)
    <3>1. CurrentOf(s, u) = IF s.next # Zero THEN s.next ELSE s.current
      BY <2>4 DEF CurrentOf
    <3>2. CurrentOf(s, u) \in Hash
      BY <1>1, <3>1
    <3>3. Rank(s.current) <= Rank(CurrentOf(s, u))
      BY <1>1, <3>1 DEF StoreFits
    <3>4. \/ Rank(CurrentOf(s, u)) <= Rank(s.current)
          \/ Rank(CurrentOf(s, u)) <= Rank(s.next)
      BY <1>1, <3>1
    <3>5. s.finalized_slot < finalized[u.attested]
      BY <1>1, <1>3, <1>5, <2>4
    <3>6. Rank(CurrentOf(s, u)) <= period + 2
      <4>1. PICK old \in 0..tip : AccountedFor(s, old)
        BY DEF StoreFits
      <4>2. Period(old) \in Nat /\ Period(old) <= period
        BY <1>3, <3>5, <4>1, LaterBlock DEF AccountedFor
      <4> HIDE DEF period
      <4>3. QED
        BY <1>1, <1>3, <3>1, <4>1, <4>2 DEF AccountedFor
    <3>7. next # Zero => Rank(CurrentOf(s, u)) <= Rank(next)
      BY <2>2, <3>6
    <3> HIDE DEF next, period
    <3>8. QED
      BY <1>1, <1>2, <1>3, <2>1, <2>2, <2>4, <3>2, <3>3, <3>4, <3>5, <3>7,
         AppliedFits DEF period
  <2>5. QED
    BY <2>3, <2>4
<1>6. QED
  BY <1>4, <1>5

\* An update of the sync loop, which carries the committees of the store on.
LEMMA PolledFits ==
  ASSUME ChainInv, NEW s, StoreFits(s),
         NEW attested \in 0..tip - 1, NEW participation \in {0, 1},
         IsInitialized(s) => finalized[attested] > s.finalized_slot
  PROVE  LET u == [ finalized_slot |-> finalized[attested],
                    current        |-> CurrentOrPlaceholder(s),
                    next           |-> s.next,
                    participation  |-> participation ]
         IN  /\ StoreFits(ApplyFinalityUpdate(s, u))
             /\ Advances(s, ApplyFinalityUpdate(s, u))
<1> DEFINE u == [ finalized_slot |-> finalized[attested],
                  current        |-> CurrentOrPlaceholder(s),
                  next           |-> s.next,
                  participation  |-> participation ]
<1>1. /\ s \in Store /\ s.finalized_slot \in Nat
      /\ s.current \in Hash /\ s.next \in Hash
      /\ Rank(s.current) \in Nat /\ Rank(s.next) \in Nat
  BY StoreTyped DEF StoreFits
<1>2. tip \in Nat /\ attested \in 0..tip /\ finalized[attested] \in Nat
  BY FinalizedTipTyped, CheckpointTyped
<1>3. /\ CurrentOrPlaceholder(s) \in Hash
      /\ Rank(CurrentOrPlaceholder(s)) = Rank(s.current)
  BY <1>1, RankTyped DEF CurrentOrPlaceholder
<1>4. /\ u.finalized_slot = finalized[attested]
      /\ u.current \in Hash /\ u.next = s.next
      /\ Rank(u.current) = Rank(s.current)
  BY <1>3
<1> HIDE DEF u
<1>5. IsInitialized(s) => s.finalized_slot < finalized[attested]
  BY <1>1, <1>2
<1>6. /\ u.next \in Hash
      /\ Rank(s.current) <= Rank(u.current)
      /\ Rank(u.current) <= Rank(s.current)
      /\ ~IsInitialized(s) => Rank(u.current) = 0
      /\ u.next # Zero => Rank(u.current) <= Rank(u.next)
  BY <1>1, <1>4 DEF StoreFits
<1>7. StoreFits(ApplyFinalityUpdate(s, u)) /\ Advances(s, ApplyFinalityUpdate(s, u))
  BY <1>4, <1>5, <1>6, AppliedFits
<1>8. QED
  BY <1>7 DEF u
-----------------------------------------------------------------------------
(* Batches *)

\* f is the stores a batch goes through, up to its first n updates.
Stages(f, s, updates, n) ==
  f = [i \in 0..n |-> IF i = 0 THEN s ELSE HistoricalStep(f[i - 1], updates[i])]

\* There is a sequence of stages for every batch.
LEMMA StagesExist ==
  ASSUME NEW s, NEW updates, NEW n \in Nat
  PROVE  \E f : Stages(f, s, updates, n)
<1> DEFINE Without == {m \in Nat : ~\E f : Stages(f, s, updates, m)}
<1>1. SUFFICES ASSUME Without # {}
               PROVE  FALSE
  OBVIOUS
<1>2. PICK least \in Without : \A m \in Without : least <= m
  <2> HIDE DEF Without
  <2>1. Without \in SUBSET Nat
    BY DEF Without
  <2>2. QED
    BY <1>1, <2>1, LeastNumber
<1>3. least \in Nat /\ ~\E f : Stages(f, s, updates, least)
  BY <1>2
<1>4. CASE least = 0
  <2>1. Stages([i \in 0..0 |-> s], s, updates, 0)
    BY DEF Stages
  <2>2. QED
    BY <1>3, <1>4, <2>1
<1>5. CASE least # 0
  <2>1. least - 1 \in Nat /\ ~(least <= least - 1)
    BY <1>3, <1>5
  <2>2. PICK f : Stages(f, s, updates, least - 1)
    BY <1>2, <2>1
  <2> DEFINE g == [i \in 0..least |->
                     IF i = 0 THEN s ELSE HistoricalStep(f[i - 1], updates[i])]
  <2>3. ASSUME NEW i \in 0..least, i # 0
        PROVE  g[i - 1] = f[i - 1]
    <3>1. i - 1 \in 0..least - 1 /\ i - 1 \in 0..least
      BY <1>3, <2>3
    <3>2. f[i - 1] = IF i - 1 = 0 THEN s
                     ELSE HistoricalStep(f[i - 1 - 1], updates[i - 1])
      BY <2>2, <3>1 DEF Stages
    <3>3. QED
      BY <3>1, <3>2
  <2>4. Stages(g, s, updates, least)
    <3> DEFINE h == [i \in 0..least |->
                       IF i = 0 THEN s ELSE HistoricalStep(g[i - 1], updates[i])]
    <3>1. g = h
      BY <2>3
    <3> HIDE DEF g
    <3>2. QED
      BY <3>1 DEF Stages
  <2>5. QED
    BY <1>3, <2>4
<1>6. QED
  BY <1>4, <1>5

\* ApplyUpdates goes through the stages of its batch.
LEMMA ApplyUpdatesStages ==
  ASSUME NEW s, NEW updates, Len(updates) \in Nat
  PROVE  \E f : /\ Stages(f, s, updates, Len(updates))
                /\ ApplyUpdates(s, updates) = f[Len(updates)]
<1> DEFINE F(f) == f = [i \in 0..Len(updates) |->
                          IF i = 0 THEN s ELSE HistoricalStep(f[i - 1], updates[i])]
           f0 == CHOOSE f : F(f)
<1>1. \E f : F(f)
  <2>1. PICK f : Stages(f, s, updates, Len(updates))
    BY StagesExist
  <2>2. F(f)
    BY <2>1 DEF Stages
  <2>3. QED
    BY <2>2
<1>2. F(f0)
  <2> HIDE DEF F
  <2>1. QED
    BY <1>1
<1>3. ApplyUpdates(s, updates) = f0[Len(updates)]
  BY DEF ApplyUpdates
<1>4. Stages(f0, s, updates, Len(updates))
  <2> HIDE DEF f0
  <2>1. QED
    BY <1>2 DEF Stages
<1>5. QED
  BY <1>3, <1>4
LEMMA BatchFits ==
  ASSUME ChainInv, NEW s, StoreFits(s), NEW updates, Len(updates) \in Nat,
         \A i \in 1..Len(updates) : updates[i] \in NodeUpdate
  PROVE  /\ StoreFits(ApplyUpdates(s, updates))
         /\ Advances(s, ApplyUpdates(s, updates))
<1>1. PICK f : /\ Stages(f, s, updates, Len(updates))
               /\ ApplyUpdates(s, updates) = f[Len(updates)]
  BY ApplyUpdatesStages
<1> DEFINE Fits(i) == StoreFits(f[i]) /\ Advances(s, f[i])
           Misfits == {i \in 0..Len(updates) : ~Fits(i)}
<1>2. SUFFICES ASSUME Misfits # {}
               PROVE  FALSE
  BY <1>1
<1>3. PICK least \in Misfits : \A i \in Misfits : least <= i
  <2> HIDE DEF Misfits
  <2>1. Misfits \in SUBSET Nat
    BY DEF Misfits
  <2>2. QED
    BY <1>2, <2>1, LeastNumber
<1>4. least \in 0..Len(updates) /\ least \in Nat /\ ~Fits(least)
  BY <1>3
<1>5. f[least] = IF least = 0 THEN s
                 ELSE HistoricalStep(f[least - 1], updates[least])
  BY <1>1, <1>4 DEF Stages
<1>6. s \in Store
  BY DEF StoreFits
<1>7. CASE least = 0
  BY <1>4, <1>5, <1>6, <1>7, AdvancesReflexive
<1>8. CASE least # 0
  <2>1. /\ least - 1 \in 0..Len(updates)
        /\ ~(least <= least - 1)
        /\ least \in 1..Len(updates)
    BY <1>4, <1>8
  <2>2. StoreFits(f[least - 1]) /\ Advances(s, f[least - 1])
    BY <1>3, <2>1
  <2>3. /\ StoreFits(f[least])
        /\ Advances(f[least - 1], f[least])
    BY <1>5, <1>8, <2>1, <2>2, HistoricalStepFits
  <2>4. f[least - 1] \in Store /\ f[least] \in Store
    BY <2>2, <2>3 DEF StoreFits
  <2>5. QED
    BY <1>4, <1>6, <2>2, <2>3, <2>4, AdvancesTransitive
<1>9. QED
  BY <1>7, <1>8

\* What a node answers to a request for a batch.
LEMMA AnswersTyped ==
  ASSUME ChainInv, NEW batch, NEW updates \in Answers(batch)
  PROVE  /\ Len(updates) \in Nat
         /\ \A i \in 1..Len(updates) : updates[i] \in NodeUpdate
<1> DEFINE U == UNION {UpdatesOf(period) : period \in batch}
<1>1. ASSUME NEW u \in U
      PROVE  u \in NodeUpdate
  BY DEF UpdatesOf, NodeUpdate
<1>2. PICK n \in 1..BatchSize : updates \in [1..n -> U]
  BY DEF Answers
<1> HIDE DEF U
<1>3. n \in Nat
  BY BatchSizeAssumption
<1>4. updates \in Seq(U) /\ Len(updates) = n
  BY <1>2, <1>3
<1>5. QED
  BY <1>1, <1>2, <1>3, <1>4
-----------------------------------------------------------------------------
(* Steps *)

LEMMA SyncInitInv == SyncInit => SyncInv
<1> SUFFICES ASSUME SyncInit
             PROVE  SyncInv
  OBVIOUS
<1>1. ChainInv
  BY ChainInitInv DEF SyncInit
<1>2. StoreFits(NewStore)
  BY <1>1, NewStoreFits
<1>3. NewStore \in Store
  BY <1>2 DEF StoreFits
<1>4. SyncTypeOK
  BY <1>1, <1>3
  DEF SyncInit, SyncTypeOK, ChainInv, NoFile, File, NoWalk, Walk, Running
<1>5. QED
  BY <1>1, <1>2, <1>4 DEF SyncInit, SyncInv, NoFile

\* What CommitteesForward says of one process.
Forward(p) ==
  pc[p] \in Running /\ pc'[p] \in Running =>
    /\ Rank(store[p].current) <= Rank(store'[p].current)
    /\ store'[p].next # Zero =>
         Rank(store'[p].current) <= Rank(store'[p].next)

\* A step of one process, whatever it does, that leaves a fitting store in
\* its memory and in the file.
LEMMA ProcessStepInv ==
  ASSUME SyncInv, UNCHANGED chainVars, NEW p \in Process,
         NEW s, StoreFits(s),
         NEW c \in Running \cup {"stopped"},
         NEW w \in Walk, w.period <= w.end + 1,
         store' = [store EXCEPT ![p] = s],
         pc' = [pc EXCEPT ![p] = c],
         walk' = [walk EXCEPT ![p] = w],
         file' \in File, StoreFits(file'.store),
         pc[p] \in Running => Rank(store[p].current) <= Rank(s.current)
                              \/ c = "stopped"
  PROVE  SyncInv' /\ \A q \in Process : Forward(q)
<1>1. /\ pc \in [Process -> Running \cup {"stopped"}]
      /\ store \in [Process -> Store]
      /\ walk \in [Process -> Walk]
  BY DEF SyncInv, SyncTypeOK
<1>2. \A q \in Process : /\ store'[q] = IF q = p THEN s ELSE store[q]
                         /\ pc'[q] = IF q = p THEN c ELSE pc[q]
                         /\ walk'[q] = IF q = p THEN w ELSE walk[q]
  BY <1>1
<1>3. ChainInv' /\ ChainTypeOK'
  BY DEF SyncInv, ChainInv, ChainTypeOK, FinalityMonotone, chainVars
<1>4. s \in Store
  BY DEF StoreFits
<1>5. SyncTypeOK'
  <2>1. /\ pc' \in [Process -> Running \cup {"stopped"}]
        /\ store' \in [Process -> Store]
        /\ walk' \in [Process -> Walk]
    BY <1>1, <1>4
  <2>2. \A q \in Process : walk'[q].period <= walk'[q].end + 1
    BY <1>2 DEF SyncInv, SyncTypeOK
  <2>3. QED
    BY <1>3, <2>1, <2>2 DEF SyncTypeOK
<1>6. tip' = tip /\ finalized' = finalized
  BY DEF chainVars
<1>7. StoreFits(file.store)'
  BY <1>6 DEF StoreFits, AccountedFor
<1>8. \A q \in Process : StoreFits(store[q])'
  <2> SUFFICES ASSUME NEW q \in Process
               PROVE  StoreFits(store[q])'
    OBVIOUS
  <2>1. StoreFits(store'[q])
    BY <1>2 DEF SyncInv
  <2>2. QED
    BY <1>6, <2>1 DEF StoreFits, AccountedFor
<1>9. \A q \in Process : Forward(q)
  <2> SUFFICES ASSUME NEW q \in Process, pc[q] \in Running, pc'[q] \in Running
               PROVE  /\ Rank(store[q].current) <= Rank(store'[q].current)
                      /\ store'[q].next # Zero =>
                           Rank(store'[q].current) <= Rank(store'[q].next)
    BY DEF Forward
  <2>1. Rank(store[q].current) <= Rank(store'[q].current)
    <3>1. CASE q = p
      BY <1>2, <3>1 DEF Running
    <3>2. CASE q # p
      <4>1. store'[q] = store[q] /\ store[q] \in Store
        BY <1>1, <1>2, <3>2
      <4>2. QED
        BY <4>1, StoreTyped
    <3>3. QED
      BY <3>1, <3>2
  <2>2. QED
    BY <1>8, <2>1 DEF StoreFits
<1>10. QED
  BY <1>3, <1>5, <1>7, <1>8, <1>9 DEF SyncInv

LEMMA ExtendChainInv ==
  ASSUME SyncInv, ExtendChain
  PROVE  SyncInv' /\ \A p \in Process : Forward(p)
<1>1. /\ Extend /\ UNCHANGED <<file, pc, store, walk>>
      /\ ChainInv
  BY DEF ExtendChain, syncVars, SyncInv
<1>2. ChainInv' /\ \A b \in 0..tip : finalized'[b] = finalized[b]
  BY <1>1, ExtendInv
<1>3. tip \in Nat /\ tip' = tip + 1
  BY <1>1, FinalizedTipTyped DEF Extend
<1>4. ASSUME NEW s, StoreFits(s)
      PROVE  StoreFits(s)'
  <2>1. PICK block \in 0..tip : AccountedFor(s, block)
    BY <1>4 DEF StoreFits
  <2>2. block \in 0..tip'
    BY <1>3
  <2>3. AccountedFor(s, block)'
    BY <1>2, <2>1 DEF AccountedFor
  <2>4. QED
    BY <1>4, <2>2, <2>3 DEF StoreFits
<1>5. StoreFits(file.store)' /\ \A p \in Process : StoreFits(store[p])'
  BY <1>1, <1>4 DEF SyncInv
<1>6. SyncTypeOK'
  BY <1>1, <1>2 DEF SyncInv, SyncTypeOK, ChainInv
<1>7. \A p \in Process : Forward(p)
  BY <1>1, StoreTyped DEF Forward, SyncInv, StoreFits
<1>8. QED
  BY <1>2, <1>5, <1>6, <1>7 DEF SyncInv
\* What a process starts from and goes back to.
LEMMA ProcessTyped ==
  ASSUME SyncInv, NEW p \in Process
  PROVE  /\ StoreFits(Loaded) /\ StoreFits(NewStore) /\ StoreFits(store[p])
         /\ file \in File /\ StoreFits(file.store)
         /\ walk[p] \in Walk /\ walk[p].period <= walk[p].end + 1
         /\ NoWalk \in Walk /\ NoWalk.period <= NoWalk.end + 1
         /\ store = [store EXCEPT ![p] = store[p]]
         /\ walk = [walk EXCEPT ![p] = walk[p]]
         /\ Rank(store[p].current) <= Rank(store[p].current)
<1>1. StoreFits(NewStore) /\ StoreFits(store[p]) /\ StoreFits(file.store)
  BY NewStoreFits DEF SyncInv
<1>2. StoreFits(Loaded)
  BY <1>1 DEF Loaded
<1>3. NoWalk \in Walk /\ NoWalk.period <= NoWalk.end + 1
  BY DEF NoWalk, Walk
<1>4. Rank(store[p].current) <= Rank(store[p].current)
  BY <1>1, StoreTyped DEF StoreFits
<1>5. QED
  BY <1>1, <1>2, <1>3, <1>4 DEF SyncInv, SyncTypeOK

LEMMA StartSyncInv ==
  ASSUME SyncInv, NEW p \in Process, StartSync(p)
  PROVE  SyncInv' /\ \A q \in Process : Forward(q)
<1> DEFINE w == [mode |-> "sync", period |-> 0, end |-> 0]
<1>1. /\ pc[p] = "stopped"
      /\ store' = [store EXCEPT ![p] = Loaded]
      /\ pc' = [pc EXCEPT ![p] = "polling"]
      /\ walk' = [walk EXCEPT ![p] = w]
      /\ UNCHANGED <<file, chainVars>>
  BY DEF StartSync, Load
<1>2. w \in Walk /\ w.period <= w.end + 1
  BY DEF Walk
<1>3. "polling" \in Running /\ pc[p] \notin Running
  BY <1>1 DEF Running
<1> HIDE DEF w
<1>4. QED
  BY <1>1, <1>2, <1>3, ProcessTyped, ProcessStepInv

LEMMA StartHistoricalInv ==
  ASSUME SyncInv, NEW p \in Process, NEW attested \in Slot,
         NEW start \in 0..Period(MaxSlot), NEW end \in 0..Period(MaxSlot),
         StartHistorical(p, attested, start, end)
  PROVE  SyncInv' /\ \A q \in Process : Forward(q)
<1> DEFINE w == [mode |-> "historical", period |-> start, end |-> end]
<1>1. /\ pc[p] = "stopped"
      /\ store' = [store EXCEPT ![p] = Loaded]
      /\ start <= end
      /\ pc' = [pc EXCEPT ![p] = "walking"]
      /\ walk' = [walk EXCEPT ![p] = w]
      /\ UNCHANGED <<file, chainVars>>
  BY DEF StartHistorical, Load
<1>2. start \in Nat /\ end \in Nat
  BY PeriodBounds, MaxSlotAssumption
<1>3. w \in Walk /\ w.period <= w.end + 1
  BY <1>1, <1>2 DEF Walk
<1>4. "walking" \in Running /\ pc[p] \notin Running
  BY <1>1 DEF Running
<1> HIDE DEF w
<1>5. QED
  BY <1>1, <1>3, <1>4, ProcessTyped, ProcessStepInv

LEMMA PollStep ==
  ASSUME SyncInv, NEW p \in Process, NEW attested \in Slot,
         NEW participation \in {0, 1}, Poll(p, attested, participation)
  PROVE  \E s : /\ store' = [store EXCEPT ![p] = s]
                /\ StoreFits(s) /\ Advances(store[p], s)
<1> DEFINE u == [ finalized_slot |-> finalized[attested],
                  current        |-> CurrentOrPlaceholder(store[p]),
                  next           |-> store[p].next,
                  participation  |-> participation ]
<1>1. /\ attested < tip
      /\ IsInitialized(store[p]) => finalized[attested] > store[p].finalized_slot
      /\ store' = [store EXCEPT ![p] = ApplyFinalityUpdate(store[p], u)]
  BY DEF Poll
<1>2. ChainInv /\ StoreFits(store[p])
  BY DEF SyncInv
<1>3. attested \in 0..tip - 1
  BY <1>1, <1>2, FinalizedTipTyped, SlotsAreNumbers
<1>4. /\ StoreFits(ApplyFinalityUpdate(store[p], u))
      /\ Advances(store[p], ApplyFinalityUpdate(store[p], u))
  BY <1>1, <1>2, <1>3, PolledFits
<1>5. QED
  BY <1>1, <1>4

LEMMA PollInv ==
  ASSUME SyncInv, NEW p \in Process, NEW attested \in Slot,
         NEW participation \in {0, 1}, Poll(p, attested, participation)
  PROVE  SyncInv' /\ \A q \in Process : Forward(q)
<1>1. PICK s : /\ store' = [store EXCEPT ![p] = s]
               /\ StoreFits(s) /\ Advances(store[p], s)
  BY PollStep
<1>2. /\ pc' = [pc EXCEPT ![p] = "saving"]
      /\ UNCHANGED <<file, walk, chainVars>>
  BY DEF Poll
<1>3. "saving" \in Running
  BY DEF Running
<1>4. walk' = [walk EXCEPT ![p] = walk[p]]
  BY <1>2, ProcessTyped
<1>5. QED
  BY <1>1, <1>2, <1>3, <1>4, ProcessTyped, ProcessStepInv DEF Advances

LEMMA WalkBatchStep ==
  ASSUME SyncInv, NEW p \in Process, NEW batch,
         NEW updates \in Answers(batch), WalkBatch(p, updates)
  PROVE  \E s : /\ store' = [store EXCEPT ![p] = s]
                /\ StoreFits(s) /\ Advances(store[p], s)
<1>1. store' = [store EXCEPT ![p] = ApplyUpdates(store[p], updates)]
  BY DEF WalkBatch
<1>2. ChainInv /\ StoreFits(store[p])
  BY DEF SyncInv
<1>3. QED
  BY <1>1, <1>2, AnswersTyped, BatchFits

\* The walk after a batch.
LEMMA NextBatchTyped ==
  ASSUME SyncInv, NEW p \in Process
  PROVE  LET w == [walk[p] EXCEPT !.period = PeriodAfterBatch(walk[p])]
         IN  /\ w \in Walk /\ w.period <= w.end + 1
             /\ [walk EXCEPT ![p].period = PeriodAfterBatch(walk[p])]
                  = [walk EXCEPT ![p] = w]
<1>1. walk[p] \in Walk /\ walk[p].period <= walk[p].end + 1
  BY ProcessTyped
<1>2. /\ PeriodAfterBatch(walk[p]) \in Nat
      /\ PeriodAfterBatch(walk[p]) <= walk[p].end + 1
  BY <1>1, BatchWithinWalk
<1>3. QED
  BY <1>1, <1>2 DEF Walk

LEMMA WalkBatchInv ==
  ASSUME SyncInv, NEW p \in Process, NEW batch,
         NEW updates \in Answers(batch), WalkBatch(p, updates)
  PROVE  SyncInv' /\ \A q \in Process : Forward(q)
<1> DEFINE w == [walk[p] EXCEPT !.period = PeriodAfterBatch(walk[p])]
<1>1. PICK s : /\ store' = [store EXCEPT ![p] = s]
               /\ StoreFits(s) /\ Advances(store[p], s)
  BY WalkBatchStep
<1>2. /\ pc' = [pc EXCEPT ![p] = "saving"]
      /\ walk' = [walk EXCEPT ![p].period = PeriodAfterBatch(walk[p])]
      /\ UNCHANGED <<file, chainVars>>
  BY DEF WalkBatch
<1>3. "saving" \in Running
  BY DEF Running
<1>4. /\ w \in Walk /\ w.period <= w.end + 1
      /\ walk' = [walk EXCEPT ![p] = w]
  BY <1>2, NextBatchTyped
<1> HIDE DEF w
<1>5. QED
  BY <1>1, <1>2, <1>3, <1>4, ProcessTyped, ProcessStepInv DEF Advances

LEMMA SkipBatchInv ==
  ASSUME SyncInv, NEW p \in Process, SkipBatch(p)
  PROVE  SyncInv' /\ \A q \in Process : Forward(q)
<1> DEFINE w == [walk[p] EXCEPT !.period = PeriodAfterBatch(walk[p])]
<1>1. pc[p] = "walking" /\ UNCHANGED <<file, chainVars>>
  BY DEF SkipBatch
<1>2. CASE PeriodAfterBatch(walk[p]) <= walk[p].end
  <2>1. /\ walk' = [walk EXCEPT ![p].period = PeriodAfterBatch(walk[p])]
        /\ UNCHANGED <<pc, store>>
    BY <1>2 DEF SkipBatch
  <2>2. /\ w \in Walk /\ w.period <= w.end + 1
        /\ walk' = [walk EXCEPT ![p] = w]
    BY <2>1, NextBatchTyped
  <2>3. /\ pc' = [pc EXCEPT ![p] = "walking"] /\ "walking" \in Running
        /\ store' = [store EXCEPT ![p] = store[p]]
    BY <1>1, <2>1, ProcessTyped DEF SyncInv, SyncTypeOK, Running
  <2> HIDE DEF w
  <2>4. QED
    BY <1>1, <2>2, <2>3, ProcessTyped, ProcessStepInv
<1>3. CASE ~(PeriodAfterBatch(walk[p]) <= walk[p].end)
  <2>1. /\ pc' = [pc EXCEPT ![p] = "stopped"]
        /\ store' = [store EXCEPT ![p] = NewStore]
        /\ walk' = [walk EXCEPT ![p] = NoWalk]
    BY <1>3 DEF SkipBatch, Forget
  <2>2. QED
    BY <1>1, <2>1, ProcessTyped, ProcessStepInv
<1>4. QED
  BY <1>2, <1>3

LEMMA TruncateInv ==
  ASSUME SyncInv, NEW p \in Process, Truncate(p)
  PROVE  SyncInv' /\ \A q \in Process : Forward(q)
<1>1. /\ pc' = [pc EXCEPT ![p] = "writing"]
      /\ UNCHANGED <<store, walk, chainVars>>
  BY DEF Truncate
<1>2. file' \in File /\ StoreFits(file'.store)
  <2>1. file' = [file EXCEPT !.contents = "torn"]
    BY DEF Truncate
  <2>2. file'.store = file.store /\ file' \in File
    BY <2>1, ProcessTyped DEF File
  <2>3. QED
    BY <2>2, ProcessTyped
<1>3. "writing" \in Running
  BY DEF Running
<1>4. /\ StoreFits(store[p])
      /\ walk[p] \in Walk /\ walk[p].period <= walk[p].end + 1
      /\ store' = [store EXCEPT ![p] = store[p]]
      /\ walk' = [walk EXCEPT ![p] = walk[p]]
      /\ Rank(store[p].current) <= Rank(store[p].current)
  BY <1>1, ProcessTyped
<1>5. QED
  BY <1>1, <1>2, <1>3, <1>4, ProcessStepInv

LEMMA WriteInv ==
  ASSUME SyncInv, NEW p \in Process, Write(p)
  PROVE  SyncInv' /\ \A q \in Process : Forward(q)
<1>1. /\ file' = [contents |-> "store", store |-> store[p]]
      /\ pc' = [pc EXCEPT ![p] = Resume(p)]
      /\ UNCHANGED chainVars
  BY DEF Write
<1>2. file' \in File /\ file'.store = store[p]
  BY <1>1, ProcessTyped DEF File, StoreFits
<1>3. Resume(p) \in {"polling", "walking", "stopped"}
  BY Zenon DEF Resume
<1>4. Resume(p) \in Running \cup {"stopped"}
  BY <1>3 DEF Running
<1>5. pc'[p] = Resume(p)
  BY <1>1 DEF SyncInv, SyncTypeOK
<1>6. CASE Resume(p) = "stopped"
  <2>1. /\ store' = [store EXCEPT ![p] = NewStore]
        /\ walk' = [walk EXCEPT ![p] = NoWalk]
    BY <1>5, <1>6 DEF Write, Forget
  <2>2. QED
    BY <1>1, <1>2, <1>4, <1>6, <2>1, ProcessTyped, ProcessStepInv
<1>7. CASE Resume(p) # "stopped"
  <2>1. /\ store' = [store EXCEPT ![p] = store[p]]
        /\ walk' = [walk EXCEPT ![p] = walk[p]]
    BY <1>5, <1>7, ProcessTyped DEF Write
  <2>2. QED
    BY <1>1, <1>2, <1>4, <2>1, ProcessTyped, ProcessStepInv
<1>8. QED
  BY <1>6, <1>7

LEMMA ExitInv ==
  ASSUME SyncInv, NEW p \in Process, Exit(p)
  PROVE  SyncInv' /\ \A q \in Process : Forward(q)
<1>1. /\ pc' = [pc EXCEPT ![p] = "stopped"]
      /\ store' = [store EXCEPT ![p] = NewStore]
      /\ walk' = [walk EXCEPT ![p] = NoWalk]
      /\ UNCHANGED <<file, chainVars>>
  BY DEF Exit, Forget
<1>2. QED
  BY <1>1, ProcessTyped, ProcessStepInv
LEMMA SyncNextInv ==
  ASSUME SyncInv, SyncNext
  PROVE  SyncInv' /\ \A q \in Process : Forward(q)
<1>1. CASE ExtendChain
  BY <1>1, ExtendChainInv
<1>2. ASSUME NEW p \in Process, StartSync(p)
      PROVE  SyncInv' /\ \A q \in Process : Forward(q)
  BY <1>2, StartSyncInv
<1>3. ASSUME NEW p \in Process, NEW attested \in Slot,
             NEW participation \in {0, 1}, Poll(p, attested, participation)
      PROVE  SyncInv' /\ \A q \in Process : Forward(q)
  BY <1>3, PollInv
<1>4. ASSUME NEW p \in Process, NEW attested \in Slot,
             NEW start \in 0..Period(MaxSlot), NEW end \in 0..Period(MaxSlot),
             StartHistorical(p, attested, start, end)
      PROVE  SyncInv' /\ \A q \in Process : Forward(q)
  BY <1>4, StartHistoricalInv
<1>5. ASSUME NEW p \in Process, Request(p)
      PROVE  SyncInv' /\ \A q \in Process : Forward(q)
  <2>1. CASE SkipBatch(p)
    BY <2>1, SkipBatchInv
  <2>2. ASSUME NEW updates \in Answers(Batch(walk[p])), WalkBatch(p, updates)
        PROVE  SyncInv' /\ \A q \in Process : Forward(q)
    BY <2>2, WalkBatchInv
  <2>3. QED
    BY <1>5, <2>1, <2>2 DEF Request
<1>6. ASSUME NEW p \in Process, Truncate(p)
      PROVE  SyncInv' /\ \A q \in Process : Forward(q)
  BY <1>6, TruncateInv
<1>7. ASSUME NEW p \in Process, Write(p)
      PROVE  SyncInv' /\ \A q \in Process : Forward(q)
  BY <1>7, WriteInv
<1>8. ASSUME NEW p \in Process, Exit(p)
      PROVE  SyncInv' /\ \A q \in Process : Forward(q)
  BY <1>8, ExitInv
<1>9. QED
  BY <1>1, <1>2, <1>3, <1>4, <1>5, <1>6, <1>7, <1>8 DEF SyncNext

LEMMA SyncStutterInv ==
  ASSUME SyncInv, UNCHANGED vars
  PROVE  SyncInv'
<1>1. UNCHANGED <<file, pc, store, walk, tip, finalized>>
  BY DEF vars, syncVars, chainVars
<1>2. ChainInv' /\ SyncTypeOK'
  BY <1>1
  DEF SyncInv, ChainInv, ChainTypeOK, FinalityMonotone, SyncTypeOK
<1>3. StoreFits(file.store)' /\ \A p \in Process : StoreFits(store[p])'
  BY <1>1 DEF SyncInv, StoreFits, AccountedFor
<1>4. QED
  BY <1>2, <1>3 DEF SyncInv

-----------------------------------------------------------------------------
(* Theorems *)

(***************************************************************************)
(* Every store, in memory or in the file, is one that the chain accounts   *)
(* for, whatever processes do and whenever they end.                       *)
(***************************************************************************)
THEOREM SyncInvariant == SyncSpec => []SyncInv
<1>1. SyncInit => SyncInv
  BY SyncInitInv
<1>2. SyncInv /\ [SyncNext]_vars => SyncInv'
  BY SyncNextInv, SyncStutterInv
<1>3. QED
  BY <1>1, <1>2, PTL DEF SyncSpec

\* The types, and that no walk runs past its last period.
THEOREM SyncTypeCorrect == SyncSpec => []SyncTypeOK
<1>1. SyncInv => SyncTypeOK
  BY DEF SyncInv
<1>2. QED
  BY <1>1, SyncInvariant, PTL

(***************************************************************************)
(* Sync loop and historical sync, in any mixture and with any answers of   *)
(* the node, never take a process back to an older committee, and never    *)
(* announce one older than the current one.                                *)
(***************************************************************************)
THEOREM CommitteesNeverBack == SyncSpec => CommitteesForward
<1>1. SyncInv /\ SyncNext => \A p \in Process : Forward(p)
  BY SyncNextInv
<1>2. SyncInv /\ [SyncNext]_vars =>
        [ \A p \in Process :
            pc[p] \in Running /\ pc'[p] \in Running =>
              /\ Rank(store[p].current) <= Rank(store'[p].current)
              /\ store'[p].next # Zero =>
                   Rank(store'[p].current) <= Rank(store'[p].next) ]_vars
  BY <1>1 DEF Forward
<1>3. QED
  BY <1>2, SyncInvariant, PTL DEF SyncSpec, CommitteesForward

-----------------------------------------------------------------------------
(* The file *)

\* A step of one process that leaves the saved store as it was.
LEMMA BehindKept ==
  ASSUME SyncInv, FileBehind, NEW p \in Process,
         NEW s \in Store, NEW c,
         c \in Running => file.store.finalized_slot <= s.finalized_slot,
         store' = [store EXCEPT ![p] = s],
         pc' = [pc EXCEPT ![p] = c],
         file'.store = file.store,
         file'.contents = "absent" => file.contents = "absent"
  PROVE  FileBehind' /\ file.store.finalized_slot <= file'.store.finalized_slot
<1>1. \A q \in Process : /\ store'[q] = IF q = p THEN s ELSE store[q]
                         /\ pc'[q] = IF q = p THEN c ELSE pc[q]
  BY DEF SyncInv, SyncTypeOK
<1>2. file.store \in Store
  BY DEF SyncInv, StoreFits
<1>3. file.store.finalized_slot <= file'.store.finalized_slot
  BY <1>2, StoreTyped
<1>4. QED
  BY <1>1, <1>3 DEF FileBehind

\* A process that is started has the head that was saved last.
LEMMA LoadedIsSaved ==
  ASSUME SyncInv, FileBehind, Parses(file.contents)
  PROVE  /\ Loaded \in Store
         /\ file.store.finalized_slot <= Loaded.finalized_slot
<1>1. file.store \in Store /\ Loaded \in Store
  BY NewStoreFits DEF SyncInv, StoreFits, Loaded
<1>2. CASE file.contents = "store"
  BY <1>1, <1>2, StoreTyped DEF Loaded
<1>3. CASE file.contents # "store"
  <2>1. file.contents = "absent"
    BY <1>3 DEF SyncInv, SyncTypeOK, File, Parses
  <2>2. QED
    BY <1>1, <1>3, <2>1 DEF FileBehind, Loaded, NewStore
<1>4. QED
  BY <1>1, <1>2, <1>3

LEMMA SavedHeadStep ==
  ASSUME SyncInv, FileBehind, OneAtATime, SyncNext
  PROVE  FileBehind' /\ file.store.finalized_slot <= file'.store.finalized_slot
<1> DEFINE Goal ==
      FileBehind' /\ file.store.finalized_slot <= file'.store.finalized_slot
<1>1. ASSUME NEW p \in Process
      PROVE  /\ store[p] \in Store /\ NewStore \in Store
             /\ store = [store EXCEPT ![p] = store[p]]
             /\ pc = [pc EXCEPT ![p] = pc[p]]
             /\ "stopped" \notin Running
             /\ pc[p] \in Running =>
                  file.store.finalized_slot <= store[p].finalized_slot
  BY <1>1, ProcessTyped
  DEF StoreFits, SyncInv, SyncTypeOK, Running, FileBehind
<1>2. file.store \in Store /\ file.store.finalized_slot \in Nat
  BY StoreTyped DEF SyncInv, StoreFits
<1>3. CASE ExtendChain
  BY <1>2, <1>3 DEF ExtendChain, syncVars, FileBehind
<1>4. ASSUME NEW p \in Process, Load(p), UNCHANGED file,
             NEW c, pc' = [pc EXCEPT ![p] = c]
      PROVE  Goal
  <2>1. /\ store' = [store EXCEPT ![p] = Loaded]
        /\ Loaded \in Store
        /\ file.store.finalized_slot <= Loaded.finalized_slot
    BY <1>4, LoadedIsSaved DEF Load
  <2>2. QED
    BY <1>4, <2>1, BehindKept
<1>5. ASSUME NEW p \in Process, pc[p] \in Running, UNCHANGED file,
             NEW c, pc' = [pc EXCEPT ![p] = c],
             NEW s, store' = [store EXCEPT ![p] = s],
             StoreFits(s), Advances(store[p], s)
      PROVE  Goal
  <2>1. /\ s \in Store /\ store[p] \in Store
        /\ file.store.finalized_slot <= store[p].finalized_slot
    BY <1>1, <1>5 DEF StoreFits
  <2>2. file.store.finalized_slot <= s.finalized_slot
    BY <1>2, <1>5, <2>1, StoreTyped DEF Advances
  <2>3. QED
    BY <1>5, <2>1, <2>2, BehindKept
<1>6. ASSUME NEW p \in Process, Forget(p), UNCHANGED file,
             pc' = [pc EXCEPT ![p] = "stopped"]
      PROVE  Goal
  BY <1>1, <1>6, BehindKept DEF Forget
<1>7. ASSUME NEW p \in Process, SkipBatch(p)
      PROVE  Goal
  <2>1. CASE UNCHANGED <<file, pc, store>>
    BY <1>1, <1>7, <2>1, BehindKept
  <2>2. CASE UNCHANGED file /\ pc' = [pc EXCEPT ![p] = "stopped"] /\ Forget(p)
    BY <1>6, <2>2
  <2>3. QED
    BY <1>7, <2>1, <2>2 DEF SkipBatch
<1>8. ASSUME NEW p \in Process, Truncate(p)
      PROVE  Goal
  <2>1. /\ file'.store = file.store /\ file'.contents = "torn"
        /\ pc' = [pc EXCEPT ![p] = "writing"]
        /\ store' = [store EXCEPT ![p] = store[p]]
        /\ pc[p] \in Running
    BY <1>1, <1>8 DEF Truncate, SyncInv, SyncTypeOK, File, Running
  <2>2. QED
    BY <1>1, <2>1, BehindKept
<1>9. ASSUME NEW p \in Process, Write(p)
      PROVE  Goal
  <2>1. /\ pc[p] \in Running
        /\ file' = [contents |-> "store", store |-> store[p]]
        /\ pc' = [pc EXCEPT ![p] = Resume(p)]
    BY <1>9 DEF Write, Running
  <2>2. /\ file'.contents = "store" /\ file'.store = store[p]
        /\ file.store.finalized_slot <= file'.store.finalized_slot
    BY <1>1, <2>1
  <2>3. \A q \in Process : q # p => pc'[q] \notin Running
    BY <2>1 DEF OneAtATime, SyncInv, SyncTypeOK
  <2>4. pc'[p] \in Running => store' = store
    <3>1. pc'[p] # "stopped" => store' = store
      BY <1>9 DEF Write
    <3>2. QED
      BY <1>1, <3>1
  <2>5. store[p].finalized_slot \in Nat
    BY <1>1, StoreTyped
  <2>6. QED
    BY <2>2, <2>3, <2>4, <2>5 DEF FileBehind
<1>10. ASSUME NEW p \in Process, Exit(p)
       PROVE  Goal
  BY <1>6, <1>10 DEF Exit
<1>11. ASSUME NEW p \in Process, NEW attested \in Slot,
              NEW participation \in {0, 1}, Poll(p, attested, participation)
       PROVE  Goal
  <2>1. /\ pc[p] \in Running /\ UNCHANGED file
        /\ pc' = [pc EXCEPT ![p] = "saving"]
    BY <1>11 DEF Poll, Running
  <2>2. PICK s : /\ store' = [store EXCEPT ![p] = s]
                 /\ StoreFits(s) /\ Advances(store[p], s)
    BY <1>11, PollStep
  <2>3. QED
    BY <1>5, <2>1, <2>2
<1>12. ASSUME NEW p \in Process, NEW batch,
              NEW updates \in Answers(batch), WalkBatch(p, updates)
       PROVE  Goal
  <2>1. /\ pc[p] \in Running /\ UNCHANGED file
        /\ pc' = [pc EXCEPT ![p] = "saving"]
    BY <1>12 DEF WalkBatch, Running
  <2>2. PICK s : /\ store' = [store EXCEPT ![p] = s]
                 /\ StoreFits(s) /\ Advances(store[p], s)
    BY <1>12, WalkBatchStep
  <2>3. QED
    BY <1>5, <2>1, <2>2
<1>13. ASSUME NEW p \in Process, StartSync(p)
       PROVE  Goal
  BY <1>4, <1>13 DEF StartSync
<1>14. ASSUME NEW p \in Process, NEW attested \in Slot,
              NEW start \in 0..Period(MaxSlot), NEW end \in 0..Period(MaxSlot),
              StartHistorical(p, attested, start, end)
       PROVE  Goal
  BY <1>4, <1>14 DEF StartHistorical
<1>15. ASSUME NEW p \in Process, Request(p)
       PROVE  Goal
  <2> HIDE DEF Goal
  <2>1. QED
    BY <1>7, <1>12, <1>15 DEF Request
<1>16. QED
  BY <1>3, <1>8, <1>9, <1>10, <1>11, <1>13, <1>14, <1>15 DEF SyncNext

(***************************************************************************)
(* While no two processes run at a time, the saved head never goes back,   *)
(* whatever ends a process and at whatever step of a save.                 *)
(***************************************************************************)
THEOREM SavedHeadKept == SyncSpec /\ []OneAtATime => SavedHeadNeverBack
<1>1. SyncInit => FileBehind
  BY DEF SyncInit, FileBehind, NoFile, NewStore, Running
<1>2. SyncInv /\ FileBehind /\ OneAtATime /\ [SyncNext]_vars => FileBehind'
  <2>1. ASSUME FileBehind, UNCHANGED vars
        PROVE  FileBehind'
    BY <2>1 DEF vars, syncVars, FileBehind
  <2>2. QED
    BY <2>1, SavedHeadStep
<1>3. SyncInv /\ FileBehind /\ OneAtATime /\ [SyncNext]_vars =>
        [file.store.finalized_slot <= file'.store.finalized_slot]_vars
  BY SavedHeadStep
<1>4. QED
  BY <1>1, <1>2, <1>3, SyncInvariant, PTL DEF SyncSpec, SavedHeadNeverBack
=============================================================================
