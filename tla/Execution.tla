----------------------------- MODULE Execution ------------------------------
(***************************************************************************)
(* The life of a job after it was queued: the worker's handler for Cloud   *)
(* Tasks (POST /run) and its poller, the Executor they both call, the      *)
(* API's callbacks Start and Complete that the Executor calls, and the     *)
(* watchdog.  A worker slot is one execution in progress: a /run request,  *)
(* or a goroutine of the poller.                                           *)
(*                                                                         *)
(* Start and Complete lock the row of their job from its read to their     *)
(* commit, so each is one step on the tables.  The callback request, or    *)
(* its answer, may be lost; a request that arrives after its caller has    *)
(* given up is the same as one whose answer is lost.                       *)
(***************************************************************************)
EXTENDS Dispatch

CONSTANT Workers  \* execution slots of all workers

VARIABLES
    exec,    \* slot -> the program counter and local variables of Execute
    objects  \* the paths that have an object in the bucket

execVars == <<exec, objects>>

Exec == [pc : {"idle", "claimed", "starting", "running", "succeeding", "failing"},
         job : Jobs \cup {Null}, commit : Commits \cup {Null}]

IdleSlot == [pc |-> "idle", job |-> Null, commit |-> Null]

ExecTypeOK ==
    /\ exec \in [Workers -> Exec]
    /\ \A w \in Workers : exec[w].pc # "idle" => exec[w].job \in Jobs
    /\ \A w \in Workers : exec[w].pc \in {"running", "succeeding"} => exec[w].commit \in Commits
    /\ objects \subseteq Commits

ExecInit == exec = [w \in Workers |-> IdleSlot] /\ objects = {}

-----------------------------------------------------------------------------
(* The API's callback endpoints, as operators on the tables.               *)

\* Start: queued -> running; running is left as it is; terminal is refused.
StartRefused(j) == IsTerminal(jobs[j].status)

Start(j) == IF jobs[j].status = "queued" THEN UpdateJobStatus(j, "running") ELSE jobs

Bug_CompleteIgnoresTerminal(j, status, path) ==
    /\ jobs' = UpdateJobStatus(j, status)
    /\ snapshots' = IF status = "succeeded" /\ ~SnapshotExists(jobs[j].branch, jobs[j].commit)
                    THEN InsertSnapshot(j, path) ELSE snapshots

Bug_CompleteWithoutRollback(j, status, path) ==
    IF IsTerminal(jobs[j].status)
    THEN UNCHANGED <<jobs, snapshots>>
    ELSE /\ jobs' = UpdateJobStatus(j, status)
         /\ snapshots' = IF status = "succeeded" /\ ~SnapshotExists(jobs[j].branch, jobs[j].commit)
                         THEN InsertSnapshot(j, path) ELSE snapshots

\* Complete: a terminal job is left as it is; the insert of a duplicate snapshot
\* fails and rolls the change of status back; any other status is overwritten.
Complete(j, status, path) ==
    \/ /\ \/ IsTerminal(jobs[j].status)
          \/ status = "succeeded" /\ SnapshotExists(jobs[j].branch, jobs[j].commit)
       /\ UNCHANGED <<jobs, snapshots>>
    \/ /\ ~IsTerminal(jobs[j].status)
       /\ status = "failed"
       /\ jobs' = UpdateJobStatus(j, "failed")
       /\ UNCHANGED snapshots
    \/ /\ ~IsTerminal(jobs[j].status)
       /\ status = "succeeded"
       /\ ~SnapshotExists(jobs[j].branch, jobs[j].commit)
       /\ jobs' = UpdateJobStatus(j, "succeeded")
       /\ snapshots' = InsertSnapshot(j, path)

\* The watchdog endpoint, called by Cloud Scheduler.
Timeout ==
    /\ Overdue # {}
    /\ jobs' = TimeoutRunningJobs
    /\ UNCHANGED <<snapshots, attempts, exec, objects>>

\* Time passes.
Tick ==
    /\ \E j \in InStatus({"running"}) : jobs[j].age <= TimeoutAge
    /\ jobs' = [j \in Jobs |->
                  IF jobs[j].status = "running" /\ jobs[j].age <= TimeoutAge
                  THEN [jobs[j] EXCEPT !.age = @ + 1] ELSE jobs[j]]
    /\ UNCHANGED <<snapshots, attempts, exec, objects>>

-----------------------------------------------------------------------------
(* The worker.                                                             *)

Goto(w, pc) == exec' = [exec EXCEPT ![w].pc = pc]
Free(w) == exec' = [exec EXCEPT ![w] = IdleSlot]

\* POST /run with a valid token, and the job's repository was found.
Deliver(w, j) ==
    /\ exec[w].pc = "idle"
    /\ Attempt(j)
    /\ exec' = [exec EXCEPT ![w] = [pc |-> "starting", job |-> j, commit |-> Null]]
    /\ UNCHANGED <<jobs, snapshots, objects>>

\* The attempt is lost on its way, refused (401) or fails (500): no execution.
DeliverFails(j) ==
    /\ "network" \in Faults
    /\ Attempt(j)
    /\ UNCHANGED <<jobs, snapshots, exec, objects>>

\* Poller.claimOne: the claim commits by itself.  locked: the rows that other
\* transactions may hold at the moment.
Claim(w, locked) ==
    /\ PollMode
    /\ exec[w].pc = "idle"
    /\ \E j \in ClaimableJobs(locked) :
           /\ jobs' = UpdateJobStatus(j, "running")
           /\ exec' = [exec EXCEPT ![w] = [pc |-> "claimed", job |-> j, commit |-> Null]]
    /\ UNCHANGED <<snapshots, attempts, objects>>

\* ... GetRepoForJob succeeds: the execution is handed to the runner's pool.
ClaimedRepo(w) ==
    /\ exec[w].pc = "claimed"
    /\ Goto(w, "starting")
    /\ UNCHANGED <<jobs, snapshots, attempts, objects>>

\* ... GetRepoForJob fails: the job is marked failed, or that fails as well.
ClaimedRepoFails(w) ==
    /\ "network" \in Faults
    /\ exec[w].pc = "claimed"
    /\ \/ jobs' = UpdateJobStatus(exec[w].job, "failed")
       \/ UNCHANGED jobs
    /\ Free(w)
    /\ UNCHANGED <<snapshots, attempts, objects>>

\* Execute, step 1: the start callback succeeds.
CallStart(w) ==
    /\ exec[w].pc = "starting"
    /\ ~StartRefused(exec[w].job)
    /\ jobs' = Start(exec[w].job)
    /\ exec' = [exec EXCEPT ![w].pc = "running", ![w].commit = jobs[exec[w].job].commit]
    /\ UNCHANGED <<snapshots, attempts, objects>>

\* ... or fails: refused, lost on the way, or answered with an error after the
\* transaction has committed (clone token, repository look-up, lost answer).
CallStartFails(w) ==
    /\ exec[w].pc = "starting"
    /\ \/ StartRefused(exec[w].job) /\ UNCHANGED jobs
       \/ "network" \in Faults /\ UNCHANGED jobs
       \/ "network" \in Faults /\ jobs' = Start(exec[w].job)
    /\ Goto(w, "failing")
    /\ UNCHANGED <<snapshots, attempts, objects>>

Bug_UploadLater(w) ==
    /\ exec[w].pc = "running"
    /\ Goto(w, "succeeding")
    /\ UNCHANGED <<jobs, snapshots, attempts, objects>>

\* Steps 2 and 3: clone, run, read the report and upload it.
RunAndUpload(w) ==
    /\ exec[w].pc = "running"
    /\ objects' = objects \cup {exec[w].commit}
    /\ Goto(w, "succeeding")
    /\ UNCHANGED <<jobs, snapshots, attempts>>

\* ... or one of them fails.
RunFails(w) ==
    /\ exec[w].pc = "running"
    /\ Goto(w, "failing")
    /\ UNCHANGED <<jobs, snapshots, attempts, objects>>

\* Step 4, or completeFailed.
Report(w) ==
    \/ exec[w].pc = "succeeding" /\ Complete(exec[w].job, "succeeded", exec[w].commit)
    \/ exec[w].pc = "failing" /\ Complete(exec[w].job, "failed", Null)

\* An error is logged and nothing is retried: the execution ends, and /run answers
\* 200 whatever happened.
CallComplete(w) ==
    /\ \/ Report(w)
       \/ /\ "network" \in Faults
          /\ exec[w].pc \in {"succeeding", "failing"}
          /\ UNCHANGED <<jobs, snapshots>>
    /\ Answer(exec[w].job)
    /\ Free(w)
    /\ UNCHANGED objects

\* The worker is killed, or its drain period ends.
WorkerDies(w) ==
    /\ "worker" \in Faults
    /\ exec[w].pc # "idle"
    /\ Free(w)
    /\ UNCHANGED <<jobs, snapshots, attempts, objects>>

WorkerStep(w) ==
    \/ ClaimedRepo(w)
    \/ ClaimedRepoFails(w)
    \/ CallStart(w)
    \/ CallStartFails(w)
    \/ RunAndUpload(w)
    \/ RunFails(w)
    \/ CallComplete(w)
    \/ WorkerDies(w)

ExecNext(locked) ==
    \/ Timeout
    \/ Tick
    \/ \E j \in Jobs : DeliverFails(j)
    \/ \E w \in Workers :
        \/ \E j \in Jobs : Deliver(w, j)
        \/ Claim(w, locked)
        \/ WorkerStep(w)
=============================================================================
