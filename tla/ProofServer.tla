----------------------------- MODULE ProofServer -----------------------------
(***************************************************************************)
(* script/src/api.rs and script/src/bin/server.rs: the proof server.  A    *)
(* request inserts a job into the shared map and spawns a task; the task   *)
(* marks its job running, asks the beacon node, runs the guest program     *)
(* and writes the outcome back.  The lock is held for each of these three  *)
(* writes and not in between; the chain moves on meanwhile.                *)
(*                                                                         *)
(* Nothing is persisted: a restart forgets every job.  A task that panics  *)
(* is not joined by anyone, and its job stays as it is.  The store the     *)
(* server reads when it starts is never written and is left out.           *)
(***************************************************************************)
EXTENDS GuestProgram

CONSTANT JobId   \* the Uuids that new jobs draw

VARIABLES
  jobs,   \* the shared map, from the ids of submitted jobs to jobs
  tasks   \* id -> the blocking task of the job

serverVars == <<jobs, tasks>>
vars == <<chainVars, serverVars>>

JobType == {"finality", "finality-full", "storage"}

\* What a proof commits to, as far as the jobs differ in it.  It is absent
\* from a job that has not completed and from a storage job.
Proof == [slot : Slot, current : Hash, next : Hash]
NoProof == [slot |-> -1, current |-> Zero, next |-> Zero]

\* ProofJob; done stands for completed_at # 0.
Job == [ jobType : JobType,
         status  : {"pending", "running", "completed", "failed"},
         done    : BOOLEAN,
         proof   : Proof \cup {NoProof} ]

\* A task, the inputs it has collected, and its result.
NoUpdate == [ attestedHeader |-> NoBlock, signatureSlot |-> 0, participation |-> 0,
              finalityUpdate |-> NoBlock, syncCommitteeUpdate |-> NoCommittee ]

Task == [ at     : {"unused", "queued", "finality", "committee", "prove",
                    "storage", "failed", "proved", "panicked", "ended"},
          update : LightClientUpdate \cup {NoUpdate},
          hash   : Hash,
          keys   : Hash,
          proof  : Proof \cup {NoProof} ]

NewTask == [at |-> "unused", update |-> NoUpdate, hash |-> Zero,
            keys |-> NoCommittee, proof |-> NoProof]

\* Next to the types: only a job that has ended has a completion time, and
\* only a completed one a proof.
ServerTypeOK ==
  /\ ChainTypeOK
  /\ DOMAIN jobs \subseteq JobId
  /\ \A j \in DOMAIN jobs :
       /\ jobs[j] \in Job
       /\ jobs[j].done <=> jobs[j].status \in {"completed", "failed"}
       /\ jobs[j].proof # NoProof => jobs[j].status = "completed"
  /\ tasks \in [JobId -> Task]

ServerInit ==
  /\ ChainInit
  /\ jobs = <<>>
  /\ tasks = [j \in JobId |-> NewTask]

At(j, place) == tasks[j].at = place

Goto(j, place) == tasks' = [tasks EXCEPT ![j].at = place]

SetJob(j, job) ==
  jobs' = [i \in DOMAIN jobs \cup {j} |-> IF i = j THEN job ELSE jobs[i]]

-----------------------------------------------------------------------------
(* prove_finality, prove_storage *)

\* Faulty variant: an id may be drawn again.
AnyId(j) == tasks[j].at \in {"unused", "ended"}

NewId(j) == At(j, "unused")

Request(j, jobType) ==
  /\ NewId(j)
  /\ SetJob(j, [jobType |-> jobType, status |-> "pending", done |-> FALSE,
                proof |-> NoProof])
  /\ tasks' = [tasks EXCEPT ![j] = [NewTask EXCEPT !.at = "queued"]]
  /\ UNCHANGED chainVars

\* The task starts and marks its job.
Begin(j) ==
  /\ At(j, "queued")
  /\ SetJob(j, [jobs[j] EXCEPT !.status = "running"])
  /\ Goto(j, IF jobs[j].jobType = "storage" THEN "storage" ELSE "finality")
  /\ UNCHANGED chainVars

\* Faulty variant: an error is logged and nothing else.
RecordSuccess(j, job) == IF At(j, "proved") THEN job ELSE jobs[j]

\* Faulty variant: the completion time is forgotten.
RecordUntimed(j, job) == [job EXCEPT !.done = jobs[j].done]

Recorded(j, job) == job

\* The task writes its result into its job.
Report(j) ==
  /\ tasks[j].at \in {"proved", "failed"}
  /\ SetJob(j, Recorded(j,
       [jobs[j] EXCEPT !.status = IF At(j, "proved") THEN "completed" ELSE "failed",
                       !.proof = tasks[j].proof,
                       !.done = TRUE]))
  /\ Goto(j, "ended")
  /\ UNCHANGED chainVars

-----------------------------------------------------------------------------
(* run_proof_generation; run_storage_proof *)

\* get_finality_update: the update of some block of the chain.  Neither kind
\* of job asks for the next sync committee.
FetchFinality(j, attested, participation) ==
  /\ At(j, "finality")
  /\ attested < tip
  /\ LET full == jobs[j].jobType = "finality-full" IN
     tasks' = [tasks EXCEPT
       ![j].at = IF full THEN "committee" ELSE "prove",
       ![j].update = [ attestedHeader      |-> CanonicalBlock(attested),
                       signatureSlot       |-> attested + 1,
                       participation       |-> participation,
                       finalityUpdate      |-> CanonicalBlock(finalized[attested]),
                       syncCommitteeUpdate |-> NoCommittee ],
       ![j].hash = IF full THEN Zero ELSE PeriodPlaceholder(Period(attested))]
  /\ UNCHANGED <<jobs, chainVars>>

\* fetch_current_sync_committee: the committee of the block that is final by
\* now, which need not be of the period the update was signed in.
FetchCommittee(j) ==
  /\ At(j, "committee")
  /\ LET committee == Committee(Period(FinalizedTip), TRUE) IN
     tasks' = [tasks EXCEPT ![j].at = "prove", ![j].hash = committee,
                            ![j].keys = committee]
  /\ UNCHANGED <<jobs, chainVars>>

\* Faulty variant: the guest runs without the keys.
GuestSkipsKeys(task) == VerifyUpdate(task.update)

\* The signature of a fetched update was made in its signature slot.
GuestAccepts(task) ==
  /\ VerifyUpdate(task.update)
  /\ VerifySignature(task.update, task.hash, task.keys, task.update.signatureSlot)

Prove(j) ==
  /\ At(j, "prove")
  /\ LET task == tasks[j] IN
     tasks' = [tasks EXCEPT ![j] =
       IF GuestAccepts(task)
       THEN [task EXCEPT
               !.at = "proved",
               !.proof = [slot    |-> ResultHeader(task.update).slot,
                          current |-> task.hash,
                          next    |-> task.update.syncCommitteeUpdate]]
       ELSE [task EXCEPT !.at = "failed"]]
  /\ UNCHANGED <<jobs, chainVars>>

\* The account and storage proofs of the pinned block are right.
ProveStorage(j) ==
  /\ At(j, "storage")
  /\ Goto(j, "proved")
  /\ UNCHANGED <<jobs, chainVars>>

\* A request, the conversion, the setup or the prover returns an error.
Fail(j) ==
  /\ tasks[j].at \in {"finality", "committee", "prove", "storage"}
  /\ Goto(j, "failed")
  /\ UNCHANGED <<jobs, chainVars>>

\* The task panics while it works.
Panic(j) ==
  /\ tasks[j].at \in {"finality", "committee", "prove", "storage"}
  /\ Goto(j, "panicked")
  /\ UNCHANGED <<jobs, chainVars>>

\* The server process is restarted; Uuids are not drawn again.
Restart ==
  /\ jobs' = <<>>
  /\ tasks' = [j \in JobId |-> IF NewId(j) THEN NewTask
                                          ELSE [NewTask EXCEPT !.at = "ended"]]
  /\ UNCHANGED chainVars

-----------------------------------------------------------------------------

ExtendChain == Extend /\ UNCHANGED serverVars

FetchSome(j) ==
  \E attested \in Slot, participation \in {0, CommitteeSize} :
    FetchFinality(j, attested, participation)

Work(j) ==
  \/ Begin(j)
  \/ FetchSome(j)
  \/ FetchCommittee(j)
  \/ Prove(j)
  \/ ProveStorage(j)
  \/ Fail(j)
  \/ Report(j)

ServerNext ==
  \/ ExtendChain
  \/ \E j \in JobId :
       \/ \E jobType \in JobType : Request(j, jobType)
       \/ Work(j)
       \/ Panic(j)
  \/ Restart

ServerSpec == ServerInit /\ [][ServerNext]_vars

\* The blocking pool runs every task, and every request a task makes returns
\* (the HTTP client has a timeout).
LiveSpec == ServerSpec /\ \A j \in JobId : WF_vars(Work(j))

-----------------------------------------------------------------------------
(* Properties *)

Ended(j) == jobs[j].status \in {"completed", "failed"}

\* A client that polls GET /proof/:id never sees a job go back: what it was
\* asked to do is fixed, pending comes before running and running before the
\* outcome, and the outcome, once shown, is never replaced, whatever the
\* other tasks do.  (A restart forgets the job instead.)
OutcomesKept ==
  [][ \A j \in DOMAIN jobs \cap DOMAIN jobs' :
        /\ jobs'[j].jobType = jobs[j].jobType
        /\ jobs[j].status = "running" => jobs'[j].status # "pending"
        /\ jobs[j].status = "pending" => jobs'[j].status \in {"pending", "running"}
        /\ Ended(j) => jobs'[j] = jobs[j]
    ]_vars

\* A full job that completed proves a slot the chain has finalized, under the
\* committee of the very period the update was signed in, although update and
\* committee were fetched at two moments with the chain moving in between:
\* the guest's check of the signature stands between them.
FullProofsMatchSigners ==
  \A j \in DOMAIN jobs :
    jobs[j].jobType = "finality-full" /\ jobs[j].status = "completed" =>
      \E attested \in 0..tip - 1 :
        /\ jobs[j].proof.slot = finalized[attested]
        /\ jobs[j].proof.current = Committee(Period(attested + 1), TRUE)

\* Every job a client submits ends, unless its task panicked or the server
\* was restarted.
JobsEnd ==
  \A j \in JobId :
    At(j, "queued") ~>
      \/ j \in DOMAIN jobs /\ Ended(j)
      \/ At(j, "panicked")
      \/ j \notin DOMAIN jobs

\* beacon_api.rs:434 says "Fetch the current sync committee pubkeys": the
\* committee a full job proves with is the one that signed its update.
FetchedCommitteeCurrent ==
  \A j \in JobId :
    At(j, "prove") /\ tasks[j].keys # NoCommittee =>
      tasks[j].keys = Committee(Period(tasks[j].update.signatureSlot), TRUE)
=============================================================================
