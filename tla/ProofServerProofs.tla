-------------------------- MODULE ProofServerProofs --------------------------
(***************************************************************************)
(* What the proof server keeps for any number of jobs and chains of any    *)
(* length: outcomes are never replaced, and a full proof that completed    *)
(* is one of a finalized slot under the committee that signed.             *)
(***************************************************************************)
EXTENDS ProofServer, BeaconChainProofs

Working ==
  {"queued", "finality", "committee", "prove", "storage", "failed", "proved",
   "panicked"}

-----------------------------------------------------------------------------
(* The inductive invariant *)

\* The task's update is the one of the attested block.
FetchedAt(task, attested) ==
  /\ task.update.attestedHeader = CanonicalBlock(attested)
  /\ task.update.signatureSlot = attested + 1
  /\ task.update.finalityUpdate = CanonicalBlock(finalized[attested])
  /\ task.update.syncCommitteeUpdate = NoCommittee

\* The proof is of a finalized slot, under the committee that signed.
OfSigners(proof) ==
  \E attested \in 0..tip - 1 :
    /\ proof.slot = finalized[attested]
    /\ proof.current = Committee(Period(attested + 1), TRUE)

\* A task has a proof once it has proved, and an update between its requests
\* and the guest; it has a job from the request on, unless a restart forgot it.
TaskInv(j) ==
  /\ tasks[j] \in Task
  /\ tasks[j].at \notin {"proved", "ended"} => tasks[j].proof = NoProof
  /\ tasks[j].at = "unused" => j \notin DOMAIN jobs
  /\ tasks[j].at \in Working => j \in DOMAIN jobs
  /\ tasks[j].at \in {"committee", "prove"} =>
       \E attested \in 0..tip - 1 : FetchedAt(tasks[j], attested)

\* The status of a job tells where its task is.
StatusMatches(j) ==
  /\ tasks[j].at = "queued" => jobs[j].status = "pending"
  /\ tasks[j].at \in Working \ {"queued"} => jobs[j].status = "running"
  /\ tasks[j].at = "ended" => jobs[j].status \in {"completed", "failed"}

JobInv(j) ==
  /\ jobs[j] \in Job
  /\ jobs[j].done <=> jobs[j].status \in {"completed", "failed"}
  /\ jobs[j].proof # NoProof => jobs[j].status = "completed"
  /\ StatusMatches(j)
  /\ tasks[j].at = "storage" => jobs[j].jobType = "storage"
  /\ jobs[j].jobType = "finality-full" =>
       /\ tasks[j].at = "prove" => /\ tasks[j].keys # NoCommittee
                                   /\ NotMadeUp(tasks[j].keys)
       /\ tasks[j].at = "proved" => OfSigners(tasks[j].proof)
       /\ jobs[j].status = "completed" => OfSigners(jobs[j].proof)

IdInv(j) == TaskInv(j) /\ (j \in DOMAIN jobs => JobInv(j))

ServerInv ==
  /\ ChainInv
  /\ DOMAIN jobs \subseteq JobId
  /\ tasks \in [JobId -> Task]
  /\ \A j \in JobId : IdInv(j)

-----------------------------------------------------------------------------
(* Facts about the values *)

LEMMA ZeroIsHash == Zero \in Hash /\ Zero \in Bytes32
  BY DEF Zero, Hash, Bytes32, Tag

LEMMA PlaceholderIsHash ==
  ASSUME NEW period \in Nat
  PROVE  PeriodPlaceholder(period) \in Hash /\ Committee(period, TRUE) \in Hash
  BY ZeroIsHash DEF PeriodPlaceholder, Committee, Hash, Tag

LEMMA NewTaskTyped ==
  /\ NewTask \in Task
  /\ \A at \in {"queued", "ended"} : [NewTask EXCEPT !.at = at] \in Task
  BY ZeroIsHash DEF NewTask, Task, NoCommittee

\* A job that is written is found, and the others stay.
LEMMA SetJobWrites ==
  ASSUME NEW j \in JobId, NEW job, SetJob(j, job)
  PROVE  /\ DOMAIN jobs' = DOMAIN jobs \cup {j}
         /\ jobs'[j] = job
         /\ \A i \in DOMAIN jobs \ {j} : jobs'[i] = jobs[i]
  BY DEF SetJob

-----------------------------------------------------------------------------
(* Every step keeps the invariant *)

\* What holds of an id is not disturbed by other ids or by a longer chain.
LEMMA OtherInv ==
  ASSUME NEW i \in JobId, IdInv(i), tip \in Nat, tip' \in Nat, tip <= tip',
         \A s \in 0..tip : finalized'[s] = finalized[s],
         tasks'[i] = tasks[i],
         i \in DOMAIN jobs' <=> i \in DOMAIN jobs,
         i \in DOMAIN jobs => jobs'[i] = jobs[i]
  PROVE  IdInv(i)'
<1>1. \A attested \in 0..tip - 1 :
        attested \in 0..tip' - 1 /\ finalized'[attested] = finalized[attested]
  <2> TAKE attested \in 0..tip - 1
  <2>1. attested \in 0..tip /\ attested \in 0..tip' - 1
    BY LongerChain
  <2>2. QED
    BY <2>1
<1>2. \A proof : OfSigners(proof) => OfSigners(proof)'
  BY <1>1 DEF OfSigners
<1>3. TaskInv(i)'
  BY <1>1 DEF IdInv, TaskInv, FetchedAt
<1>4. ASSUME i \in DOMAIN jobs'
      PROVE  JobInv(i)'
  <2>1. i \in DOMAIN jobs /\ JobInv(i) /\ jobs'[i] = jobs[i]
    BY <1>4 DEF IdInv
  <2>2. StatusMatches(i)'
    BY <2>1 DEF JobInv, StatusMatches
  <2>3. QED
    BY <1>2, <2>1, <2>2 DEF JobInv
<1>5. QED
  BY <1>3, <1>4 DEF IdInv

\* A step of one task is right if it leaves its own id right.
LEMMA OneTaskInv ==
  ASSUME ServerInv, NEW j \in JobId, UNCHANGED chainVars, IdInv(j)',
         NEW task, tasks' = [tasks EXCEPT ![j] = task],
         DOMAIN jobs' \subseteq DOMAIN jobs \cup {j},
         DOMAIN jobs \subseteq DOMAIN jobs',
         \A i \in DOMAIN jobs \ {j} : jobs'[i] = jobs[i]
  PROVE  ServerInv'
<1>1. ChainInv' /\ tip \in Nat /\ UNCHANGED <<tip, finalized>>
  BY FinalizedTipTyped
  DEF ServerInv, ChainInv, ChainTypeOK, FinalityMonotone, chainVars
<1>2. tasks' \in [JobId -> Task]
  BY DEF ServerInv, IdInv, TaskInv
<1>3. \A i \in JobId : i # j => tasks'[i] = tasks[i]
  BY DEF ServerInv
<1>4. ASSUME NEW i \in JobId, i # j
      PROVE  IdInv(i)'
  <2>1. IdInv(i) /\ tasks'[i] = tasks[i]
    BY <1>3, <1>4 DEF ServerInv
  <2>2. /\ i \in DOMAIN jobs' <=> i \in DOMAIN jobs
        /\ i \in DOMAIN jobs => jobs'[i] = jobs[i]
    BY <1>4
  <2>3. QED
    BY <1>1, <2>1, <2>2, OtherInv
<1>5. QED
  BY <1>1, <1>2, <1>4 DEF ServerInv

LEMMA RequestInv ==
  ASSUME ServerInv, NEW j \in JobId, NEW jobType \in JobType, Request(j, jobType)
  PROVE  ServerInv'
<1> DEFINE job == [jobType |-> jobType, status |-> "pending", done |-> FALSE,
                   proof |-> NoProof]
           task == [NewTask EXCEPT !.at = "queued"]
<1>1. /\ SetJob(j, job) /\ tasks' = [tasks EXCEPT ![j] = task]
      /\ UNCHANGED chainVars
  BY DEF Request
<1>2. /\ DOMAIN jobs' = DOMAIN jobs \cup {j} /\ jobs'[j] = job
      /\ \A i \in DOMAIN jobs \ {j} : jobs'[i] = jobs[i]
  BY <1>1, SetJobWrites
<1>3. tasks'[j] = task /\ task \in Task /\ task.at = "queued"
      /\ task.proof = NoProof
  BY <1>1, NewTaskTyped DEF ServerInv, NewTask
<1>4. TaskInv(j)'
  BY <1>2, <1>3 DEF TaskInv
<1>5. JobInv(j)'
  BY <1>2, <1>3 DEF JobInv, StatusMatches, Job
<1>6. QED
  BY <1>1, <1>2, <1>4, <1>5, OneTaskInv DEF IdInv

LEMMA BeginInv ==
  ASSUME ServerInv, NEW j \in JobId, Begin(j)
  PROVE  ServerInv'
<1> DEFINE job == [jobs[j] EXCEPT !.status = "running"]
           place == IF jobs[j].jobType = "storage" THEN "storage" ELSE "finality"
           task == [tasks[j] EXCEPT !.at = place]
<1>1. /\ SetJob(j, job) /\ tasks' = [tasks EXCEPT ![j] = task]
      /\ UNCHANGED chainVars
  BY DEF Begin, Goto
<1>2. /\ DOMAIN jobs' = DOMAIN jobs \cup {j} /\ jobs'[j] = job
      /\ \A i \in DOMAIN jobs \ {j} : jobs'[i] = jobs[i]
  BY <1>1, SetJobWrites
<1>3. /\ tasks[j].at = "queued" /\ tasks[j] \in Task
      /\ tasks[j].proof = NoProof
      /\ j \in DOMAIN jobs /\ JobInv(j)
  BY DEF Begin, At, ServerInv, IdInv, TaskInv, Working
<1>4. /\ tasks'[j] = task /\ task \in Task /\ task.at = place
      /\ task.proof = NoProof
  BY <1>1, <1>3 DEF ServerInv, Task
<1>5. TaskInv(j)'
  BY <1>2, <1>4 DEF TaskInv
<1>6. /\ jobs[j] \in Job /\ jobs[j].status = "pending" /\ ~jobs[j].done
      /\ jobs[j].proof = NoProof
  BY <1>3 DEF JobInv, StatusMatches
<1>7. /\ job \in Job /\ job.status = "running" /\ ~job.done
      /\ job.proof = NoProof /\ job.jobType = jobs[j].jobType
  BY <1>6 DEF Job
<1>8. JobInv(j)'
  BY <1>2, <1>4, <1>7 DEF JobInv, StatusMatches
<1>9. QED
  BY <1>1, <1>2, <1>5, <1>8, OneTaskInv DEF IdInv

LEMMA FetchFinalityInv ==
  ASSUME ServerInv, NEW j \in JobId, NEW attested \in Slot,
         NEW participation \in 0..CommitteeSize,
         FetchFinality(j, attested, participation)
  PROVE  ServerInv'
<1> DEFINE full == jobs[j].jobType = "finality-full"
           update == [ attestedHeader      |-> CanonicalBlock(attested),
                       signatureSlot       |-> attested + 1,
                       participation       |-> participation,
                       finalityUpdate      |-> CanonicalBlock(finalized[attested]),
                       syncCommitteeUpdate |-> NoCommittee ]
           task == [tasks[j] EXCEPT
                      !.at = IF full THEN "committee" ELSE "prove",
                      !.update = update,
                      !.hash = IF full THEN Zero
                                       ELSE PeriodPlaceholder(Period(attested))]
<1>1. /\ tasks[j].at = "finality" /\ tasks[j] \in Task
      /\ tasks[j].proof = NoProof
      /\ j \in DOMAIN jobs /\ JobInv(j)
  BY DEF FetchFinality, At, ServerInv, IdInv, TaskInv, Working
<1>2. tasks' = [tasks EXCEPT ![j] = task]
  BY <1>1 DEF FetchFinality, ServerInv
<1>3. /\ attested \in 0..tip - 1 /\ attested \in Nat /\ attested + 1 \in Slot
      /\ finalized[attested] \in Slot
  BY SlotsAreNumbers, MaxSlotAssumption
  DEF FetchFinality, ServerInv, ChainInv, ChainTypeOK, Slot
<1>4. update \in LightClientUpdate
  BY <1>3, CanonicalBlockTyped, ZeroIsHash DEF LightClientUpdate, NoCommittee
<1>5. PeriodPlaceholder(Period(attested)) \in Hash
  BY <1>3, PeriodBounds, PlaceholderIsHash
<1>6. task \in Task /\ task.proof = NoProof /\ task.update = update
  BY <1>1, <1>4, <1>5, ZeroIsHash DEF Task
<1>7. tasks'[j] = task
  BY <1>2 DEF ServerInv
<1>8. UNCHANGED <<jobs, tip, finalized>>
  BY DEF FetchFinality, chainVars
<1>9. TaskInv(j)'
  BY <1>1, <1>3, <1>6, <1>7, <1>8 DEF TaskInv, FetchedAt
<1>10. jobs[j].status = "running"
  BY <1>1 DEF JobInv, StatusMatches, Working
<1>11. task.at = IF full THEN "committee" ELSE "prove"
  BY <1>1 DEF Task
<1>12. JobInv(j)'
  BY <1>1, <1>7, <1>8, <1>10, <1>11 DEF JobInv, StatusMatches
<1>13. UNCHANGED chainVars
  BY <1>8 DEF chainVars
<1>14. QED
  BY <1>1, <1>2, <1>8, <1>9, <1>12, <1>13, OneTaskInv DEF IdInv

LEMMA FetchCommitteeInv ==
  ASSUME ServerInv, NEW j \in JobId, FetchCommittee(j)
  PROVE  ServerInv'
<1> DEFINE committee == Committee(Period(FinalizedTip), TRUE)
           task == [tasks[j] EXCEPT !.at = "prove", !.hash = committee,
                                    !.keys = committee]
<1>1. /\ tasks[j].at = "committee" /\ tasks[j] \in Task
      /\ tasks[j].proof = NoProof
      /\ j \in DOMAIN jobs /\ JobInv(j)
  BY DEF FetchCommittee, At, ServerInv, IdInv, TaskInv, Working
<1>2. tasks' = [tasks EXCEPT ![j] = task]
  BY <1>1 DEF FetchCommittee, ServerInv
<1>3. Period(FinalizedTip) \in Nat
  BY FinalizedTipTyped, PeriodBounds DEF ServerInv
<1>4. committee \in Hash /\ committee # NoCommittee /\ NotMadeUp(committee)
  BY <1>3, PlaceholderIsHash, HashesDiffer, ChainCommitteesNotMadeUp
  DEF NoCommittee
<1>5. /\ task \in Task /\ task.proof = NoProof /\ task.at = "prove"
      /\ task.update = tasks[j].update /\ task.keys = committee
  BY <1>1, <1>4 DEF Task
<1>6. tasks'[j] = task
  BY <1>2 DEF ServerInv
<1>7. UNCHANGED <<jobs, tip, finalized>>
  BY DEF FetchCommittee, chainVars
<1>8. \E attested \in 0..tip - 1 : FetchedAt(tasks[j], attested)
  BY <1>1 DEF ServerInv, IdInv, TaskInv
<1>9. TaskInv(j)'
  BY <1>1, <1>5, <1>6, <1>7, <1>8 DEF TaskInv, FetchedAt
<1>10. jobs[j].status = "running"
  BY <1>1 DEF JobInv, StatusMatches, Working
<1>11. JobInv(j)'
  BY <1>1, <1>4, <1>5, <1>6, <1>7, <1>10 DEF JobInv, StatusMatches
<1>12. UNCHANGED chainVars
  BY <1>7 DEF chainVars
<1>13. QED
  BY <1>1, <1>2, <1>7, <1>9, <1>11, <1>12, OneTaskInv DEF IdInv

\* The guest accepts the update of a full job only under the committee of the
\* period it was signed in.
LEMMA AcceptedBySigners ==
  ASSUME NEW task, NEW attested \in 0..tip - 1, FetchedAt(task, attested),
         attested \in Nat, task.keys # NoCommittee, NotMadeUp(task.keys),
         GuestAccepts(task)
  PROVE  task.hash = Committee(Period(attested + 1), TRUE)
<1>1. attested + 1 \in Nat /\ task.update.signatureSlot = attested + 1
  BY DEF FetchedAt
<1>2. task.keys # Committee(Period(attested + 1), FALSE)
  BY <1>1, PeriodBounds DEF NotMadeUp
<1>3. QED
  BY <1>1, <1>2 DEF GuestAccepts, VerifySignature

LEMMA ProveInv ==
  ASSUME ServerInv, NEW j \in JobId, Prove(j)
  PROVE  ServerInv'
<1> DEFINE old == tasks[j]
           proof == [slot    |-> ResultHeader(old.update).slot,
                     current |-> old.hash,
                     next    |-> old.update.syncCommitteeUpdate]
           task == IF GuestAccepts(old)
                   THEN [old EXCEPT !.at = "proved", !.proof = proof]
                   ELSE [old EXCEPT !.at = "failed"]
<1>1. /\ old.at = "prove" /\ old \in Task /\ old.proof = NoProof
      /\ j \in DOMAIN jobs /\ JobInv(j)
  BY DEF Prove, At, ServerInv, IdInv, TaskInv, Working
<1>2. tasks' = [tasks EXCEPT ![j] = task]
  BY DEF Prove
<1>3. PICK attested \in 0..tip - 1 : FetchedAt(old, attested)
  BY <1>1 DEF ServerInv, IdInv, TaskInv
<1>4. attested \in Slot /\ finalized[attested] \in Slot
      /\ finalized[attested] \in Nat
  BY SlotsAreNumbers, MaxSlotAssumption
  DEF ServerInv, ChainInv, ChainTypeOK, Slot
<1>5. proof.slot = finalized[attested] /\ proof.next = Zero
  <2>1. old.update.finalityUpdate # NoBlock
    BY <1>3, <1>4 DEF FetchedAt, CanonicalBlock, NoBlock
  <2>2. QED
    BY <1>3, <2>1
    DEF ResultHeader, HasFinality, FetchedAt, CanonicalBlock, NoCommittee
<1>6. proof \in Proof
  BY <1>1, <1>4, <1>5, ZeroIsHash DEF Proof, Task
<1>7. /\ task \in Task /\ task.at \in {"proved", "failed"}
      /\ task.at = "failed" => task.proof = NoProof
      /\ task.at = "proved" => task.proof = proof /\ GuestAccepts(old)
  BY <1>1, <1>6 DEF Task
<1>8. tasks'[j] = task
  BY <1>2 DEF ServerInv
<1>9. UNCHANGED <<jobs, tip, finalized>>
  BY DEF Prove, chainVars
<1>10. TaskInv(j)'
  BY <1>1, <1>7, <1>8, <1>9 DEF TaskInv
<1>11. jobs[j].jobType = "finality-full" /\ task.at = "proved" => OfSigners(proof)
  <2> SUFFICES ASSUME jobs[j].jobType = "finality-full", task.at = "proved"
               PROVE  proof.current = Committee(Period(attested + 1), TRUE)
    BY <1>5 DEF OfSigners
  <2>1. old.keys # NoCommittee /\ NotMadeUp(old.keys) /\ GuestAccepts(old)
    BY <1>1, <1>7 DEF JobInv
  <2>2. QED
    BY <1>3, <1>4, <2>1, SlotsAreNumbers, AcceptedBySigners
<1>12. jobs[j].status = "running"
  BY <1>1 DEF JobInv, StatusMatches, Working
<1> HIDE DEF task, proof
<1>13. JobInv(j)'
  <2>1. StatusMatches(j)'
    BY <1>7, <1>8, <1>9, <1>12 DEF StatusMatches
  <2>2. jobs[j].jobType = "finality-full" /\ tasks'[j].at = "proved" =>
          OfSigners(tasks[j].proof)'
    BY <1>7, <1>8, <1>9, <1>11 DEF OfSigners
  <2>3. QED
    BY <1>1, <1>7, <1>8, <1>9, <1>12, <2>1, <2>2 DEF JobInv
<1>14. UNCHANGED chainVars
  BY <1>9 DEF chainVars
<1>15. QED
  BY <1>1, <1>2, <1>9, <1>10, <1>13, <1>14, OneTaskInv DEF IdInv

LEMMA ProveStorageInv ==
  ASSUME ServerInv, NEW j \in JobId, ProveStorage(j)
  PROVE  ServerInv'
<1> DEFINE task == [tasks[j] EXCEPT !.at = "proved"]
<1>1. /\ tasks[j].at = "storage" /\ tasks[j] \in Task
      /\ tasks[j].proof = NoProof
      /\ j \in DOMAIN jobs /\ JobInv(j)
  BY DEF ProveStorage, At, ServerInv, IdInv, TaskInv, Working
<1>2. tasks' = [tasks EXCEPT ![j] = task]
  BY DEF ProveStorage, Goto
<1>3. UNCHANGED <<jobs, tip, finalized, chainVars>>
  BY DEF ProveStorage, chainVars
<1>4. /\ tasks'[j] = task /\ task \in Task /\ task.at = "proved"
      /\ task.proof = NoProof
  BY <1>1, <1>2 DEF ServerInv, Task
<1>5. TaskInv(j)'
  BY <1>1, <1>3, <1>4 DEF TaskInv
<1>6. jobs[j].status = "running" /\ jobs[j].jobType = "storage"
  BY <1>1 DEF JobInv, StatusMatches, Working
<1>7. JobInv(j)'
  BY <1>1, <1>3, <1>4, <1>6 DEF JobInv, StatusMatches
<1>8. QED
  BY <1>1, <1>2, <1>3, <1>5, <1>7, OneTaskInv DEF IdInv

\* A task that stops early, with an error or a panic.
LEMMA StopInv ==
  ASSUME ServerInv, NEW j \in JobId, NEW place \in {"failed", "panicked"},
         tasks[j].at \in {"finality", "committee", "prove", "storage"},
         Goto(j, place), UNCHANGED <<jobs, chainVars>>
  PROVE  ServerInv'
<1> DEFINE task == [tasks[j] EXCEPT !.at = place]
<1>1. /\ tasks[j] \in Task /\ tasks[j].proof = NoProof
      /\ j \in DOMAIN jobs /\ JobInv(j)
  BY DEF ServerInv, IdInv, TaskInv, Working
<1>2. tasks' = [tasks EXCEPT ![j] = task]
  BY DEF Goto
<1>3. UNCHANGED <<jobs, tip, finalized, chainVars>>
  BY DEF chainVars
<1>4. /\ tasks'[j] = task /\ task \in Task /\ task.at = place
      /\ task.proof = NoProof
  BY <1>1, <1>2 DEF ServerInv, Task
<1>5. TaskInv(j)'
  BY <1>1, <1>3, <1>4 DEF TaskInv
<1>6. jobs[j].status = "running"
  BY <1>1 DEF JobInv, StatusMatches, Working
<1>7. JobInv(j)'
  BY <1>1, <1>3, <1>4, <1>6 DEF JobInv, StatusMatches
<1>8. QED
  BY <1>1, <1>2, <1>3, <1>5, <1>7, OneTaskInv DEF IdInv

LEMMA ReportInv ==
  ASSUME ServerInv, NEW j \in JobId, Report(j)
  PROVE  ServerInv'
<1> DEFINE status == IF tasks[j].at = "proved" THEN "completed" ELSE "failed"
           job == [jobs[j] EXCEPT !.status = status, !.proof = tasks[j].proof,
                                  !.done = TRUE]
           task == [tasks[j] EXCEPT !.at = "ended"]
<1>1. /\ SetJob(j, job) /\ tasks' = [tasks EXCEPT ![j] = task]
      /\ UNCHANGED <<tip, finalized, chainVars>>
  BY DEF Report, Recorded, Goto, At, chainVars
<1>2. /\ DOMAIN jobs' = DOMAIN jobs \cup {j} /\ jobs'[j] = job
      /\ \A i \in DOMAIN jobs \ {j} : jobs'[i] = jobs[i]
  <2> HIDE DEF job
  <2>1. QED
    BY <1>1, SetJobWrites
<1>3. /\ tasks[j].at \in {"proved", "failed"} /\ tasks[j] \in Task
      /\ tasks[j].at = "failed" => tasks[j].proof = NoProof
      /\ j \in DOMAIN jobs /\ JobInv(j)
  BY DEF Report, ServerInv, IdInv, TaskInv, Working
<1>4. tasks'[j] = task /\ task \in Task /\ task.at = "ended"
  BY <1>1, <1>3 DEF ServerInv, Task
<1>5. TaskInv(j)'
  BY <1>2, <1>4 DEF TaskInv, Working
<1>6. /\ job \in Job /\ job.status = status /\ job.done = TRUE
      /\ job.proof = tasks[j].proof /\ job.jobType = jobs[j].jobType
  BY <1>3 DEF JobInv, Job, Task
<1>7. job.jobType = "finality-full" /\ job.status = "completed" =>
        OfSigners(job.proof)
  BY <1>3, <1>6 DEF JobInv
<1> HIDE DEF job, task
<1>8. JobInv(j)'
  <2>1. StatusMatches(j)'
    BY <1>2, <1>4, <1>6 DEF StatusMatches, Working
  <2>2. jobs'[j].jobType = "finality-full" /\ jobs'[j].status = "completed" =>
          OfSigners(jobs[j].proof)'
    BY <1>1, <1>2, <1>7 DEF OfSigners
  <2>3. QED
    BY <1>2, <1>3, <1>4, <1>6, <2>1, <2>2 DEF JobInv
<1>9. QED
  BY <1>1, <1>2, <1>5, <1>8, OneTaskInv DEF IdInv

LEMMA RestartInv ==
  ASSUME ServerInv, Restart
  PROVE  ServerInv'
<1>1. DOMAIN jobs' = {}
  BY DEF Restart
<1>2. ChainInv'
  BY DEF Restart, ServerInv, ChainInv, ChainTypeOK, FinalityMonotone, chainVars
<1>3. tasks' \in [JobId -> Task]
  BY NewTaskTyped DEF Restart
<1>4. ASSUME NEW j \in JobId
      PROVE  IdInv(j)'
  <2>1. \/ tasks'[j] = NewTask
        \/ tasks'[j] = [NewTask EXCEPT !.at = "ended"]
    BY DEF Restart
  <2>2. /\ tasks'[j] \in Task /\ tasks'[j].at \in {"unused", "ended"}
        /\ tasks'[j].proof = NoProof
    BY <2>1, NewTaskTyped DEF NewTask
  <2>3. QED
    BY <1>1, <2>2 DEF IdInv, TaskInv, Working
<1>5. QED
  BY <1>1, <1>2, <1>3, <1>4 DEF ServerInv

LEMMA ExtendChainInv ==
  ASSUME ServerInv, ExtendChain
  PROVE  ServerInv'
<1>1. /\ ChainInv' /\ UNCHANGED <<jobs, tasks>>
      /\ \A s \in 0..tip : finalized'[s] = finalized[s]
  BY ExtendInv DEF ExtendChain, serverVars, ServerInv
<1>2. tip \in Nat /\ tip' \in Nat /\ tip <= tip'
  BY FinalizedTipTyped DEF ServerInv, ExtendChain, Extend
<1>3. ASSUME NEW i \in JobId
      PROVE  IdInv(i)'
  BY <1>1, <1>2, OtherInv DEF ServerInv
<1>4. QED
  BY <1>1, <1>3 DEF ServerInv

LEMMA ServerStutterInv ==
  ASSUME ServerInv, UNCHANGED vars
  PROVE  ServerInv'
<1>1. UNCHANGED <<tip, finalized, jobs, tasks>>
  BY DEF vars, chainVars, serverVars
<1>2. ChainInv'
  BY <1>1 DEF ServerInv, ChainInv, ChainTypeOK, FinalityMonotone
<1>3. tip \in Nat /\ tip' \in Nat /\ tip <= tip'
  BY <1>1, FinalizedTipTyped DEF ServerInv
<1>4. ASSUME NEW i \in JobId
      PROVE  IdInv(i)'
  BY <1>1, <1>3, OtherInv DEF ServerInv
<1>5. QED
  BY <1>1, <1>2, <1>4 DEF ServerInv

LEMMA ServerInitInv == ServerInit => ServerInv
<1> SUFFICES ASSUME ServerInit PROVE ServerInv
  OBVIOUS
<1>1. DOMAIN jobs = {}
  BY DEF ServerInit
<1>2. ASSUME NEW j \in JobId
      PROVE  IdInv(j)
  BY <1>1, NewTaskTyped DEF ServerInit, IdInv, TaskInv, Working, NewTask
<1>3. QED
  BY <1>1, <1>2, ChainInitInv, NewTaskTyped DEF ServerInit, ServerInv

LEMMA WorkInv ==
  ASSUME ServerInv, NEW j \in JobId, Work(j)
  PROVE  ServerInv'
<1>1. CASE FetchSome(j)
  BY <1>1, FetchFinalityInv, CommitteeSizeAssumption DEF FetchSome
<1>2. CASE Fail(j)
  BY <1>2, StopInv DEF Fail
<1>3. QED
  BY <1>1, <1>2, BeginInv, FetchCommitteeInv, ProveInv, ProveStorageInv,
     ReportInv DEF Work

\* Jobs, tasks and chain agree for ever.
THEOREM ServerInvariant == ServerSpec => []ServerInv
<1>1. ServerInv /\ [ServerNext]_vars => ServerInv'
  <2> SUFFICES ASSUME ServerInv, [ServerNext]_vars PROVE ServerInv'
    OBVIOUS
  <2>1. CASE ExtendChain
    BY <2>1, ExtendChainInv
  <2>2. ASSUME NEW j \in JobId, NEW jobType \in JobType, Request(j, jobType)
        PROVE  ServerInv'
    BY <2>2, RequestInv
  <2>3. ASSUME NEW j \in JobId, Work(j)
        PROVE  ServerInv'
    BY <2>3, WorkInv
  <2>4. ASSUME NEW j \in JobId, Panic(j)
        PROVE  ServerInv'
    BY <2>4, StopInv DEF Panic
  <2>5. CASE Restart
    BY <2>5, RestartInv
  <2>6. CASE UNCHANGED vars
    BY <2>6, ServerStutterInv
  <2>7. QED
    BY <2>1, <2>2, <2>3, <2>4, <2>5, <2>6 DEF ServerNext
<1>2. QED
  BY <1>1, ServerInitInv, PTL DEF ServerSpec

\* Jobs and tasks are well typed; only a job that has ended has a completion
\* time, and only a completed one a proof.
THEOREM ServerTypeCorrect == ServerSpec => []ServerTypeOK
<1>1. ServerInv => ServerTypeOK
  BY DEF ServerInv, ChainInv, IdInv, JobInv, ServerTypeOK
<1>2. QED
  BY <1>1, ServerInvariant, PTL

\* A full proof that completed is of a slot the chain finalized, under the
\* committee of the period its update was signed in, however the chain moved
\* between the two requests.
THEOREM FullProofsAreOfSigners == ServerSpec => []FullProofsMatchSigners
<1>1. ServerInv => FullProofsMatchSigners
  BY DEF ServerInv, IdInv, JobInv, OfSigners, FullProofsMatchSigners
<1>2. QED
  BY <1>1, ServerInvariant, PTL

-----------------------------------------------------------------------------
(* What a step may not do *)

JobKept(j) ==
  /\ jobs'[j].jobType = jobs[j].jobType
  /\ jobs[j].status = "running" => jobs'[j].status # "pending"
  /\ jobs[j].status = "pending" => jobs'[j].status \in {"pending", "running"}
  /\ Ended(j) => jobs'[j] = jobs[j]

\* Of the jobs there are, a task writes its own only.
LEMMA WorkKeepsJobs ==
  ASSUME ServerInv, NEW j \in JobId, Work(j), NEW i \in DOMAIN jobs
  PROVE  JobKept(i)
<1>1. CASE jobs'[i] = jobs[i]
  BY <1>1 DEF JobKept
<1>2. CASE Begin(j) /\ i = j
  <2>1. jobs[j].status = "pending" /\ jobs[j] \in Job
    BY <1>2 DEF Begin, At, ServerInv, IdInv, JobInv, StatusMatches
  <2>2. jobs'[j] = [jobs[j] EXCEPT !.status = "running"]
    BY <1>2, SetJobWrites DEF Begin
  <2>3. QED
    BY <1>2, <2>1, <2>2 DEF JobKept, Ended, Job
<1>3. CASE Report(j) /\ i = j
  <2>1. jobs[j].status = "running" /\ jobs[j] \in Job
    BY <1>3 DEF Report, ServerInv, IdInv, JobInv, StatusMatches, Working
  <2>2. jobs'[j] = [jobs[j] EXCEPT
                      !.status = IF At(j, "proved") THEN "completed" ELSE "failed",
                      !.proof = tasks[j].proof,
                      !.done = TRUE]
    BY <1>3, SetJobWrites DEF Report, Recorded
  <2>3. QED
    BY <1>3, <2>1, <2>2 DEF JobKept, Ended, Job
<1>4. CASE i # j
  <2>1. CASE Begin(j)
    BY <1>1, <1>4, <2>1, SetJobWrites DEF Begin
  <2>2. CASE Report(j)
    BY <1>1, <1>4, <2>2, SetJobWrites DEF Report
  <2>3. QED
    BY <1>1, <2>1, <2>2
    DEF Work, FetchSome, FetchFinality, FetchCommittee, Prove, ProveStorage, Fail
<1>5. QED
  BY <1>1, <1>2, <1>3, <1>4
  DEF Work, FetchSome, FetchFinality, FetchCommittee, Prove, ProveStorage, Fail

\* A job never goes back, and its outcome is never replaced.
THEOREM OutcomesAreKept == ServerSpec => OutcomesKept
<1>1. ServerInv /\ ServerNext =>
        \A j \in DOMAIN jobs \cap DOMAIN jobs' : JobKept(j)
  <2> SUFFICES ASSUME ServerInv, ServerNext,
                      NEW i \in DOMAIN jobs \cap DOMAIN jobs'
               PROVE  JobKept(i)
    OBVIOUS
  <2>1. CASE jobs'[i] = jobs[i]
    BY <2>1 DEF JobKept
  <2>2. ASSUME NEW j \in JobId, NEW jobType \in JobType, Request(j, jobType)
        PROVE  JobKept(i)
    <3>1. j \notin DOMAIN jobs
      BY <2>2 DEF Request, NewId, At, ServerInv, IdInv, TaskInv
    <3>2. QED
      BY <2>1, <2>2, <3>1, SetJobWrites DEF Request
  <2>3. ASSUME NEW j \in JobId, Work(j)
        PROVE  JobKept(i)
    BY <2>3, WorkKeepsJobs
  <2>4. CASE Restart
    BY <2>4 DEF Restart
  <2>5. QED
    BY <2>1, <2>2, <2>3, <2>4 DEF ServerNext, ExtendChain, serverVars, Panic
<1>2. QED
  BY <1>1, ServerInvariant, PTL DEF ServerSpec, OutcomesKept, JobKept
=============================================================================
