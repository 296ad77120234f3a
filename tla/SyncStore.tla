------------------------------ MODULE SyncStore ------------------------------
(***************************************************************************)
(* script/src/sync.rs: the off-chain store that follows the beacon chain,  *)
(* its sync loop, the historical sync that walks the committee periods,    *)
(* and the JSON file both keep the store in.                               *)
(*                                                                         *)
(* A process is one run of sync_cli.  It loads the file, keeps the store   *)
(* in memory and writes the file back with fs::write, which empties the    *)
(* file before it fills it.  A process may be killed at any step; several  *)
(* processes may use one file.  Answers of the beacon node may fail, lag   *)
(* behind, or lack periods.                                                *)
(*                                                                         *)
(* The roots of the finalized header follow from the slot and are left     *)
(* out, as are the counters that are only shown.                           *)
(***************************************************************************)
EXTENDS BeaconChain, FiniteSetsExt

CONSTANTS
  Process,
  AltairPeriod,   \* where historical sync starts a fresh store
  BatchSize       \* periods per request of historical sync

ASSUME AltairPeriodAssumption == AltairPeriod \in Nat
ASSUME BatchSizeAssumption == BatchSize \in Nat \ {0}

VARIABLES
  file,   \* what the JSON file holds
  pc,     \* process -> what it is doing
  store,  \* process -> the store in its memory
  walk    \* process -> the periods historical sync has left

syncVars == <<file, pc, store, walk>>
vars == <<chainVars, syncVars>>

\* LightClientStore
Store == [finalized_slot : Slot, current : Hash, next : Hash]

NewStore == [finalized_slot |-> 0, current |-> Zero, next |-> Zero]

\* The file: absent, cut short, or holding a store.  Cut short, its store is
\* what was saved before, which nobody can read any more.
File == [contents : {"absent", "torn", "store"}, store : Store]
NoFile == [contents |-> "absent", store |-> NewStore]

\* The sync loop's stand-in for a committee that is not known: 32 bytes 0x01.
Placeholder == <<"placeholder", 0, TRUE>>
Running == {"polling", "walking", "saving", "writing"}

Walk == [mode : {"none", "sync", "historical"}, period : Nat, end : Nat]

NoWalk == [mode |-> "none", period |-> 0, end |-> 0]

SyncTypeOK ==
  /\ ChainTypeOK
  /\ file \in File
  /\ pc \in [Process -> Running \cup {"stopped"}]
  /\ store \in [Process -> Store]
  /\ walk \in [Process -> Walk]
  /\ \A p \in Process : walk[p].period <= walk[p].end + 1

SyncInit ==
  /\ ChainInit
  /\ file = NoFile
  /\ pc = [p \in Process |-> "stopped"]
  /\ store = [p \in Process |-> NewStore]
  /\ walk = [p \in Process |-> NoWalk]

IsInitialized(s) == s.finalized_slot > 0

-----------------------------------------------------------------------------
(* apply_finality_update *)

\* Faulty variant: once a next committee is known, only it may sign.
AppliesNextOnly(s, u) ==
  /\ s.finalized_slot # 0 => u.finalized_slot > s.finalized_slot
  /\ u.participation # 0
  /\ s.next # Zero => u.current = s.next

Applies(s, u) ==
  /\ s.finalized_slot # 0 => u.finalized_slot > s.finalized_slot
  /\ u.participation # 0
  /\ s.next # Zero => u.current \in {s.current, s.next}

ApplyFinalityUpdate(s, u) ==
  IF Applies(s, u)
  THEN [finalized_slot |-> u.finalized_slot, current |-> u.current, next |-> u.next]
  ELSE s

-----------------------------------------------------------------------------
(* load_or_create; save *)

\* Faulty variant: a store that is there is not read.
LoadedNothing == NewStore

Loaded == IF file.contents = "store" THEN file.store ELSE NewStore

\* Faulty variant: whatever the file holds is taken for a store.
Readable(contents) == TRUE

Parses(contents) == contents # "torn"

\* A file that does not parse is an error, and the process ends.
Load(p) ==
  /\ pc[p] = "stopped"
  /\ Parses(file.contents)
  /\ store' = [store EXCEPT ![p] = Loaded]

\* fs::write opens the file and cuts it to length zero ...
Truncate(p) ==
  /\ pc[p] = "saving"
  /\ file' = [file EXCEPT !.contents = "torn"]
  /\ pc' = [pc EXCEPT ![p] = "writing"]
  /\ UNCHANGED <<store, walk, chainVars>>

\* What a process had in memory is gone when it ends.
Forget(p) ==
  /\ store' = [store EXCEPT ![p] = NewStore]
  /\ walk' = [walk EXCEPT ![p] = NoWalk]

\* ... and then writes the store.  The process goes on where it was.
Resume(p) ==
  CASE walk[p].mode = "sync" -> "polling"
    [] walk[p].mode = "historical" /\ walk[p].period <= walk[p].end -> "walking"
    [] OTHER -> "stopped"

Write(p) ==
  /\ pc[p] = "writing"
  /\ file' = [contents |-> "store", store |-> store[p]]
  /\ pc' = [pc EXCEPT ![p] = Resume(p)]
  /\ IF pc'[p] = "stopped" THEN Forget(p) ELSE UNCHANGED <<store, walk>>
  /\ UNCHANGED chainVars

\* The process is killed, its loop reaches max_updates, or saving fails,
\* which ends it: in "writing" the file stays empty.
Exit(p) ==
  /\ pc[p] \in Running
  /\ pc' = [pc EXCEPT ![p] = "stopped"]
  /\ Forget(p)
  /\ UNCHANGED <<file, chainVars>>

-----------------------------------------------------------------------------
(* run_sync_loop, sync_step *)

StartSync(p) ==
  /\ Load(p)
  /\ pc' = [pc EXCEPT ![p] = "polling"]
  /\ walk' = [walk EXCEPT ![p] = [mode |-> "sync", period |-> 0, end |-> 0]]
  /\ UNCHANGED <<file, chainVars>>

CurrentOrPlaceholder(s) == IF s.current = Zero THEN Placeholder ELSE s.current

\* The node answers with the finality update of block attested.  An update
\* that does not advance the store, a failed request and an update that does
\* not apply leave everything as it was until the next poll (no step).
Poll(p, attested, participation) ==
  /\ pc[p] = "polling"
  /\ attested < tip
  /\ LET s == store[p]
         u == [ finalized_slot |-> finalized[attested],
                current        |-> CurrentOrPlaceholder(s),
                next           |-> s.next,
                participation  |-> participation ]
     IN /\ IsInitialized(s) => u.finalized_slot > s.finalized_slot
        /\ Applies(s, u)
        /\ store' = [store EXCEPT ![p] = ApplyFinalityUpdate(s, u)]
  /\ pc' = [pc EXCEPT ![p] = "saving"]
  /\ UNCHANGED <<file, walk, chainVars>>

-----------------------------------------------------------------------------
(* run_historical_sync *)

\* The first and last period are configured, or taken from the store and
\* from what the node says is final now.
StartPeriods(s) ==
  1..Period(MaxSlot)
  \cup {IF IsInitialized(s) THEN Period(s.finalized_slot) ELSE AltairPeriod}

EndPeriods(attested) == 1..Period(MaxSlot) \cup {Period(finalized[attested])}

StartHistorical(p, attested, start, end) ==
  /\ Load(p)
  /\ attested < tip
  /\ start \in StartPeriods(Loaded)
  /\ end \in EndPeriods(attested)
  /\ start <= end
  /\ pc' = [pc EXCEPT ![p] = "walking"]
  /\ walk' = [walk EXCEPT
                ![p] = [mode |-> "historical", period |-> start, end |-> end]]
  /\ UNCHANGED <<file, chainVars>>

\* The periods the next request asks for.
Batch(w) == w.period..Min({w.period + BatchSize - 1, w.end})

(***************************************************************************)
(* The node's update for a period is that of some block of the period; it  *)
(* has the next committee or lacks it.                                     *)
(***************************************************************************)
UpdatesOf(period) ==
  { [ attested |-> a, rotation |-> r, participation |-> n ] :
      a \in {b \in 0..tip - 1 : Period(b) = period},
      r \in BOOLEAN, n \in {0, 1} }

\* Faulty variant: without an announced committee, back to the placeholder.
CurrentOrBootstrap(s, u) ==
  IF s.next # Zero THEN s.next ELSE PeriodPlaceholder(Period(u.attested))

\* A committee that was announced is taken to be the current one now.
CurrentOf(s, u) ==
  CASE ~IsInitialized(s) -> PeriodPlaceholder(Period(u.attested))
    [] IsInitialized(s) /\ s.next # Zero -> s.next
    [] OTHER -> s.current

\* One update of a batch: skipped if the head is not behind it.
HistoricalStep(s, u) ==
  IF finalized[u.attested] > s.finalized_slot \/ ~IsInitialized(s)
  THEN ApplyFinalityUpdate(s,
         [ finalized_slot |-> finalized[u.attested],
           current        |-> CurrentOf(s, u),
           next           |-> IF u.rotation
                              THEN Committee(Period(u.attested) + 1, TRUE)
                              ELSE Zero,
           participation  |-> u.participation ])
  ELSE s

\* The updates of a batch, one after the other.
ApplyUpdates(s, updates) ==
  LET after[n \in 0..Len(updates)] ==
        IF n = 0 THEN s ELSE HistoricalStep(after[n - 1], updates[n])
  IN after[Len(updates)]

\* Faulty variant: the last batch is taken to be a full one.
FullBatches(w) == w.period + BatchSize

PeriodAfterBatch(w) == w.period + Min({BatchSize, w.end - w.period + 1})

\* updates is what the node answers for the batch, in the order of periods.
WalkBatch(p, updates) ==
  /\ pc[p] = "walking"
  /\ updates # <<>>
  /\ store' = [store EXCEPT ![p] = ApplyUpdates(store[p], updates)]
  /\ walk' = [walk EXCEPT ![p].period = PeriodAfterBatch(walk[p])]
  /\ pc' = [pc EXCEPT ![p] = "saving"]
  /\ UNCHANGED <<file, chainVars>>

\* The request fails, or the node has no update: the batch is passed over,
\* and nothing is saved.
SkipBatch(p) ==
  /\ pc[p] = "walking"
  /\ IF PeriodAfterBatch(walk[p]) <= walk[p].end
     THEN /\ walk' = [walk EXCEPT ![p].period = PeriodAfterBatch(walk[p])]
          /\ UNCHANGED <<pc, store>>
     ELSE /\ pc' = [pc EXCEPT ![p] = "stopped"]
          /\ Forget(p)
  /\ UNCHANGED <<file, chainVars>>

\* Answers to a request for a batch: updates of some of its periods.
Answers(batch) ==
  UNION { [1..n -> UNION {UpdatesOf(period) : period \in batch}] :
            n \in 1..BatchSize }

InOrder(updates) ==
  \A i, j \in DOMAIN updates :
    i < j => Period(updates[i].attested) < Period(updates[j].attested)

\* One round of the walk over the periods.
Request(p) ==
  \/ SkipBatch(p)
  \/ \E updates \in {a \in Answers(Batch(walk[p])) : InOrder(a)} :
       WalkBatch(p, updates)

-----------------------------------------------------------------------------

ExtendChain == Extend /\ UNCHANGED syncVars

SyncNext ==
  \/ ExtendChain
  \/ \E p \in Process :
       \/ StartSync(p)
       \/ \E attested \in Slot, participation \in {0, 1} :
            Poll(p, attested, participation)
       \/ \E attested \in Slot, start, end \in 0..Period(MaxSlot) :
            StartHistorical(p, attested, start, end)
       \/ Request(p)
       \/ Truncate(p)
       \/ Write(p)
       \/ Exit(p)

SyncSpec == SyncInit /\ [][SyncNext]_vars

(***************************************************************************)
(* The loop polls for ever and its process is started when it is stopped;  *)
(* requests return and writes end; the node does not fail or lag for ever  *)
(* (strong fairness: its lagging answers interrupt the polling); and from  *)
(* some time on nothing kills the process.                                 *)
(***************************************************************************)
PollNewest(p) == tip > 0 /\ Poll(p, tip - 1, 1)

LiveSpec ==
  /\ SyncSpec
  /\ \A p \in Process : /\ SF_vars(StartSync(p))
                        /\ SF_vars(PollNewest(p))
                        /\ WF_vars(Request(p))
                        /\ WF_vars(Truncate(p))
                        /\ WF_vars(Write(p))
  /\ <>[][\A p \in Process : ~Exit(p)]_vars

-----------------------------------------------------------------------------
(* Properties *)

\* Whatever is killed or fails at whatever step, and whichever command runs
\* next, the file never goes back: a store that is saved is no older than any
\* saved before it.  It needs every start to read the file, and to refuse one
\* that was cut short; and it needs one process at a time.
SavedHeadNeverBack ==
  [][file.store.finalized_slot <= file'.store.finalized_slot]_vars

\* Placeholders come before every committee.
Rank(hash) == IF hash[1] = "committee" THEN hash[2] + 1 ELSE 0

\* Sync loop and historical sync may alternate, periods may be skipped and
\* repeated, and updates may lack the next committee: a process never goes
\* back to an older committee, and announces none older than its current one.
CommitteesForward ==
  [][ \A p \in Process :
        pc[p] \in Running /\ pc'[p] \in Running =>
          /\ Rank(store[p].current) <= Rank(store'[p].current)
          /\ store'[p].next # Zero =>
               Rank(store'[p].current) <= Rank(store'[p].next)
    ]_vars

\* Every slot the node calls final is saved in the end, as it or a later one,
\* unless a write that was cut short has left the file unreadable for good.
\* No mixture of historical and continuous sync may leave a store that the
\* loop can not advance.
EveryFinalitySaved ==
  \/ \A s \in Slot \ {0} :
       tip > 0 /\ finalized[tip - 1] >= s ~> file.store.finalized_slot >= s
  \/ <>[](file.contents = "torn")

\* sync.rs:103 says "If we have a known next_sc_hash, the new update's current
\* must match (unless we're bootstrapping or on the same period)": the loop,
\* which carries its own committee forward, is never refused for it.
CarriedCommitteeFits ==
  \A p \in Process :
    pc[p] = "polling" /\ store[p].next # Zero =>
      CurrentOrPlaceholder(store[p]) \in {store[p].current, store[p].next}
=============================================================================
