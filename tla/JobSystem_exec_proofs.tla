----------------------- MODULE JobSystem_exec_proofs ------------------------
(***************************************************************************)
(* Proofs about the execution of jobs: rows that have ended stay as they   *)
(* are, executions build the commit their job records, and snapshots match *)
(* the jobs that succeeded.                                                *)
(***************************************************************************)
EXTENDS JobSystem_proofs

-----------------------------------------------------------------------------
(* The invariant of the execution.  That a failed claim overwrites no      *)
(* outcome (its UPDATE looks at no status) needs to know that nobody else  *)
(* works on a claimed job, hence that with polling there are no tasks and  *)
(* each job is claimed once.                                               *)

AgesCounted == \A j \in Jobs : jobs[j].status # "running" => jobs[j].age = 0

BuildsJob ==
    \A w \in Workers :
        exec[w].pc \in {"running", "succeeding"} =>
            /\ exec[w].commit = jobs[exec[w].job].commit
            /\ jobs[exec[w].job].status \notin {"none", "queued"}

Uploaded == \A w \in Workers : exec[w].pc = "succeeding" => exec[w].commit \in objects

ClaimedActive ==
    \A w \in Workers :
        exec[w].pc = "claimed" => PollMode /\ jobs[exec[w].job].status \in {"running", "failed"}

PollingExclusive ==
    PollMode =>
        /\ \A j \in Jobs : attempts[j] = 0
        /\ \A w \in Workers : exec[w].pc # "idle" => jobs[exec[w].job].status # "queued"
        /\ OneExecutionPerJob

ExecInv == AgesCounted /\ BuildsJob /\ Uploaded /\ ClaimedActive /\ PollingExclusive

\* The initial state satisfies it.
LEMMA ExecInvInit == Init => ExecInv
BY DEF Init, StoreInit, DispatchInit, ExecInit, NoRow, IdleSlot, ExecInv, AgesCounted, BuildsJob,
    Uploaded, ClaimedActive, PollingExclusive, OneExecutionPerJob

-----------------------------------------------------------------------------
(* What a step may do to a row.                                            *)

Ends(j) ==
    /\ jobs[j].status \in {"queued", "running"}
    /\ \E status \in {"failed", "succeeded"} :
           jobs'[j] = [jobs[j] EXCEPT !.status = status, !.age = 0]

Expires(j) == jobs[j].status = "running" /\ Ends(j)

Begins(j) ==
    /\ jobs[j].status = "queued"
    /\ jobs'[j] = [jobs[j] EXCEPT !.status = "running", !.age = 0]

Ages(j) ==
    /\ jobs[j].status = "running"
    /\ \E age \in 0 .. TimeoutAge + 1 : jobs'[j] = [jobs[j] EXCEPT !.age = age]

Retargets(j) ==
    /\ jobs[j].status = "queued"
    /\ \E commit \in Commits : jobs'[j] = [jobs[j] EXCEPT !.commit = commit]

Appears(j) ==
    /\ jobs[j].status = "none"
    /\ jobs'[j].status = "queued" /\ jobs'[j].age = 0
    /\ jobs'[j].branch \in Branches /\ jobs'[j].commit \in Commits

Keeps(j) == jobs'[j] = jobs[j]

OthersKeep(j) == \A k \in Jobs \ {j} : Keeps(k)

\* Start, Complete, ClaimJob, a failed claim and the watchdog: the clock advances,
\* one job begins or ends, or some that run end together.
LEMMA ExecMoves ==
    ASSUME TypeInv, ExecInv, ExecStep
    PROVE  \/ \A j \in Jobs : Keeps(j) \/ Ages(j)
           \/ \E j \in Jobs : (Begins(j) \/ Ends(j)) /\ OthersKeep(j)
           \/ \A j \in Jobs : Keeps(j) \/ Expires(j)
<1>0. /\ jobs \in [Jobs -> JobRow]
      /\ \A w \in Workers : exec[w].pc # "idle" =>
             exec[w].job \in Jobs /\ jobs[exec[w].job].status \in JobStatus \cup {"none"}
                                  /\ jobs[exec[w].job].status # "none"
    BY DEF TypeInv, TypeOK, StoreTypeOK, ExecTypeOK, ExecRefers, JobRow
\* An update of the status of one row.
<1>a. ASSUME NEW k \in Jobs, NEW status, jobs' = UpdateJobStatus(k, status)
      PROVE  /\ jobs'[k] = [jobs[k] EXCEPT !.status = status, !.age = 0]
             /\ OthersKeep(k)
    BY <1>0, <1>a DEF UpdateJobStatus, Keeps, OthersKeep
<1>1. ASSUME UNCHANGED jobs PROVE \A j \in Jobs : Keeps(j)
    BY <1>1 DEF Keeps
<1>2. ASSUME Timeout PROVE \A j \in Jobs : Keeps(j) \/ Expires(j)
    BY <1>0, <1>2 DEF Timeout, TimeoutRunningJobs, Overdue, InStatus, Keeps, Ends, Expires
<1>3. ASSUME Tick PROVE \A j \in Jobs : Keeps(j) \/ Ages(j)
    <2> TAKE j \in Jobs
    <2>1. CASE jobs[j].status = "running" /\ jobs[j].age <= TimeoutAge
        <3>1. jobs'[j] = [jobs[j] EXCEPT !.age = jobs[j].age + 1]
            BY <1>3, <2>1 DEF Tick
        <3>2. jobs[j].age + 1 \in 0 .. TimeoutAge + 1
            BY <1>0, <2>1, TimeoutAssumption DEF JobRow
        <3> QED
            BY <2>1, <3>1, <3>2 DEF Ages
    <2>2. CASE ~(jobs[j].status = "running" /\ jobs[j].age <= TimeoutAge)
        BY <1>3, <2>2 DEF Tick, Keeps
    <2> QED
        BY <2>1, <2>2
<1>4. ASSUME NEW w \in Workers, Claim(w, RowsBeingUpdated) PROVE \E j \in Jobs : Begins(j) /\ OthersKeep(j)
    <2>1. PICK k \in Jobs : jobs[k].status = "queued" /\ jobs' = UpdateJobStatus(k, "running")
        BY <1>4 DEF Claim, ClaimableJobs, InStatus
    <2> QED
        BY <1>a, <2>1 DEF Begins
<1>5. ASSUME NEW w \in Workers, CallStart(w) \/ CallStartFails(w)
      PROVE  (\A j \in Jobs : Keeps(j)) \/ \E j \in Jobs : Begins(j) /\ OthersKeep(j)
    <2>1. exec[w].pc # "idle" /\ (UNCHANGED jobs \/ jobs' = Start(exec[w].job))
        BY <1>5 DEF CallStart, CallStartFails
    <2>2. CASE jobs[exec[w].job].status = "queued" /\ jobs' = UpdateJobStatus(exec[w].job, "running")
        BY <1>0, <1>a, <2>1, <2>2 DEF Begins
    <2> QED
        BY <1>1, <2>1, <2>2 DEF Start
<1>6. ASSUME NEW w \in Workers, ClaimedRepoFails(w)
      PROVE  (\A j \in Jobs : Keeps(j)) \/ \E j \in Jobs : Ends(j) /\ OthersKeep(j)
    <2> DEFINE k == exec[w].job
    <2>1. exec[w].pc = "claimed" /\ k \in Jobs /\ jobs[k].status \in {"running", "failed"}
        BY <1>0, <1>6 DEF ClaimedRepoFails, ExecInv, ClaimedActive
    <2>2. CASE jobs' = UpdateJobStatus(k, "failed")
        <3>1. CASE jobs[k].status = "running"
            BY <1>a, <2>1, <2>2, <3>1 DEF Ends
        <3>2. CASE jobs[k].status = "failed"
            <4>1. jobs[k].age = 0 /\ jobs[k] \in JobRow
                BY <1>0, <2>1, <3>2 DEF ExecInv, AgesCounted
            <4>2. [jobs[k] EXCEPT !.status = "failed", !.age = 0] = jobs[k]
                BY <3>2, <4>1 DEF JobRow
            <4>3. jobs'[k] = [jobs[k] EXCEPT !.status = "failed", !.age = 0] /\ OthersKeep(k)
                BY <1>a, <2>1, <2>2
            <4>4. Keeps(k)
                BY <4>2, <4>3 DEF Keeps
            <4> QED
                BY <4>3, <4>4 DEF OthersKeep
        <3> QED
            BY <2>1, <3>1, <3>2
    <2> QED
        BY <1>1, <1>6, <2>2 DEF ClaimedRepoFails
<1>7. ASSUME NEW w \in Workers, CallComplete(w)
      PROVE  (\A j \in Jobs : Keeps(j)) \/ \E j \in Jobs : Ends(j) /\ OthersKeep(j)
    <2>1. exec[w].pc # "idle"
        BY <1>7 DEF CallComplete, Report
    <2>2. UNCHANGED jobs \/ /\ ~IsTerminal(jobs[exec[w].job].status)
                            /\ \E status \in {"failed", "succeeded"} : jobs' = UpdateJobStatus(exec[w].job, status)
        BY <1>7 DEF CallComplete, Report, Complete
    <2>3. CASE UNCHANGED jobs
        BY <1>1, <2>3
    <2>4. ASSUME NEW status \in {"failed", "succeeded"}, ~IsTerminal(jobs[exec[w].job].status),
                 jobs' = UpdateJobStatus(exec[w].job, status)
          PROVE  \E j \in Jobs : Ends(j) /\ OthersKeep(j)
        <3>1. jobs[exec[w].job].status \in {"queued", "running"}
            BY <1>0, <2>1, <2>4 DEF IsTerminal, JobStatus
        <3> QED
            BY <1>0, <1>a, <2>1, <2>4, <3>1 DEF Ends
    <2> QED
        BY <2>2, <2>3, <2>4
<1>8. ASSUME NEW w \in Workers,
             ClaimedRepo(w) \/ RunAndUpload(w) \/ RunFails(w) \/ WorkerDies(w) \/ \E j \in Jobs : Deliver(w, j)
      PROVE  \A j \in Jobs : Keeps(j)
    BY <1>1, <1>8 DEF ClaimedRepo, RunAndUpload, RunFails, WorkerDies, Deliver
<1>9. ASSUME NEW j \in Jobs, DeliverFails(j) PROVE \A k \in Jobs : Keeps(k)
    BY <1>1, <1>9 DEF DeliverFails
<1> QED
    BY <1>2, <1>3, <1>4, <1>5, <1>6, <1>7, <1>8, <1>9 DEF ExecStep, ExecNext, WorkerStep

\* The same of each row.
LEMMA ExecTransitions ==
    ASSUME TypeInv, ExecInv, ExecStep
    PROVE  \A j \in Jobs : Keeps(j) \/ Ages(j) \/ Begins(j) \/ Ends(j)
BY ExecMoves DEF OthersKeep, Expires

\* HandlePush touches only a queued job, whose commit it may change, or a new one.
LEMMA IntakeMoves ==
    ASSUME TypeInv, IntakeStep
    PROVE  \/ \A j \in Jobs : Keeps(j)
           \/ \E j \in Jobs : (Retargets(j) \/ Appears(j)) /\ OthersKeep(j)
<1>0. /\ jobs \in [Jobs -> JobRow]
      /\ \A h \in Handlers : push[h].pc # "idle" => push[h].delivery \in Deliveries
      /\ push \in [Handlers -> Push]
    BY DEF TypeInv, TypeOK, StoreTypeOK, IntakeTypeOK, PushTypeOK
<1>1. CASE UNCHANGED jobs
    BY <1>1 DEF Keeps
<1>2. ASSUME NEW h \in Handlers, PushUpdate(h)
      PROVE  (\A j \in Jobs : Keeps(j)) \/ \E j \in Jobs : Retargets(j) /\ OthersKeep(j)
    <2>1. push[h].job \in Jobs /\ PushCommit(h) \in Commits
          /\ jobs' = UpdateJobCommitSHA(push[h].job, PushCommit(h))
        BY <1>0, <1>2, IntakeAssumption DEF PushUpdate, PushCommit, Push
    <2> QED
        BY <1>0, <2>1 DEF UpdateJobCommitSHA, Keeps, OthersKeep, Retargets
<1>3. ASSUME NEW h \in Handlers, PushCreate(h) PROVE \E j \in Jobs : Appears(j) /\ OthersKeep(j)
    <2>1. PICK k \in Jobs : jobs[k].status = "none"
              /\ jobs' = CreateJob(k, PushBranch(h), PushCommit(h), DeliveryId(h), push[h].begun)
        BY <1>3 DEF PushCreate, InStatus
    <2>2. PushBranch(h) \in Branches /\ PushCommit(h) \in Commits
        BY <1>0, <1>3, IntakeAssumption DEF PushCreate, PushBranch, PushCommit
    <2> QED
        BY <1>0, <2>1, <2>2 DEF CreateJob, Keeps, OthersKeep, Appears
<1> QED
    BY <1>1, <1>2, <1>3 DEF IntakeStep, IntakeNext, PushStep, PushBegin, PushCheck, PushDuplicate, PushEnqueue, PushAbort

\* The same of each row.
LEMMA IntakeTransitions ==
    ASSUME TypeInv, IntakeStep
    PROVE  \A j \in Jobs : Keeps(j) \/ Retargets(j) \/ Appears(j)
BY IntakeMoves DEF OthersKeep

-----------------------------------------------------------------------------
(* The invariant of the execution is preserved.                            *)

\* A row that has left the queue stays out of it and keeps branch and commit; a row
\* whose age counts runs.
LEMMA RowFacts ==
    ASSUME TypeInv, ExecInv, [Next]_vars
    PROVE  \A j \in Jobs :
              /\ jobs[j].status \notin {"none", "queued"} =>
                    /\ jobs'[j].status \notin {"none", "queued"}
                    /\ jobs'[j].branch = jobs[j].branch
                    /\ jobs'[j].commit = jobs[j].commit
              /\ IsTerminal(jobs[j].status) => jobs'[j] = jobs[j]
              /\ jobs'[j].status # "running" => jobs'[j].age = 0
<1>1. \A j \in Jobs : Keeps(j) \/ Ages(j) \/ Begins(j) \/ Ends(j) \/ Retargets(j) \/ Appears(j)
    <2>1. CASE UNCHANGED vars
        BY <2>1 DEF vars, Keeps
    <2> QED
        BY <2>1, ExecTransitions, IntakeTransitions DEF Next
<1> TAKE j \in Jobs
<1>2. jobs[j] \in JobRow /\ (jobs[j].status # "running" => jobs[j].age = 0)
    BY DEF TypeInv, TypeOK, StoreTypeOK, ExecInv, AgesCounted
<1>3. CASE Keeps(j)
    BY <1>2, <1>3 DEF Keeps
<1>4. CASE Ages(j)
    BY <1>2, <1>4 DEF Ages, JobRow, IsTerminal
<1>5. CASE Begins(j)
    BY <1>2, <1>5 DEF Begins, JobRow, IsTerminal
<1>6. CASE Ends(j)
    BY <1>2, <1>6 DEF Ends, JobRow, IsTerminal
<1>7. CASE Retargets(j)
    BY <1>2, <1>7 DEF Retargets, JobRow, IsTerminal
<1>8. CASE Appears(j)
    BY <1>2, <1>8 DEF Appears, JobRow, IsTerminal
<1> QED
    BY <1>1, <1>3, <1>4, <1>5, <1>6, <1>7, <1>8

\* The steps of HandlePush preserve the invariant of the execution.
LEMMA ExecInvIntake == TypeInv /\ ExecInv /\ IntakeStep => ExecInv'
<1> SUFFICES ASSUME TypeInv, ExecInv, IntakeStep PROVE ExecInv'
    OBVIOUS
<1>1. UNCHANGED <<exec, objects>>
    BY DEF IntakeStep, execVars
<1>2. \A j \in Jobs :
          /\ jobs[j].status \notin {"none", "queued"} => jobs'[j] = jobs[j]
          /\ jobs'[j].status # "running" => jobs'[j].age = 0
    <2> TAKE j \in Jobs
    <2>1. jobs[j] \in JobRow /\ (jobs[j].status # "running" => jobs[j].age = 0)
        BY DEF TypeInv, TypeOK, StoreTypeOK, ExecInv, AgesCounted
    <2>2. Keeps(j) \/ Retargets(j) \/ Appears(j)
        BY IntakeTransitions
    <2> QED
        BY <2>1, <2>2 DEF Keeps, Retargets, Appears, JobRow
<1>3. \A w \in Workers : exec[w].pc # "idle" => exec[w].job \in Jobs /\ jobs[exec[w].job].status # "none"
    BY DEF TypeInv, TypeOK, ExecTypeOK, ExecRefers
<1>4. PollMode => UNCHANGED attempts
    BY DEF IntakeStep, IntakeNext, PushStep, PushBegin, PushCheck, PushUpdate, PushCreate, PushDuplicate, PushEnqueue,
        PushAbort, Enqueue
<1>5. AgesCounted'
    BY <1>2 DEF AgesCounted
<1>6. BuildsJob' /\ Uploaded' /\ ClaimedActive'
    BY <1>1, <1>2, <1>3 DEF ExecInv, BuildsJob, Uploaded, ClaimedActive
<1>7. PollingExclusive'
    BY <1>1, <1>2, <1>3, <1>4 DEF ExecInv, PollingExclusive, OneExecutionPerJob
<1> QED
    BY <1>5, <1>6, <1>7 DEF ExecInv

\* The steps of workers, callbacks and watchdog preserve it.
LEMMA ExecInvExec == TypeInv /\ ExecInv /\ ExecStep => ExecInv'
<1> SUFFICES ASSUME TypeInv, ExecInv, ExecStep PROVE ExecInv'
    OBVIOUS
<1>0. /\ exec \in [Workers -> Exec] /\ jobs \in [Jobs -> JobRow] /\ attempts \in [Jobs -> 0 .. MaxAttempts]
      /\ \A w \in Workers : exec[w].pc # "idle" => exec[w].job \in Jobs /\ jobs[exec[w].job].status # "none"
    BY DEF TypeInv, TypeOK, StoreTypeOK, DispatchTypeOK, ExecTypeOK, ExecRefers
<1>1. /\ AgesCounted'
      /\ \A j \in Jobs :
            jobs[j].status \notin {"none", "queued"} =>
                jobs'[j].status \notin {"none", "queued"} /\ jobs'[j].commit = jobs[j].commit
    BY RowFacts DEF AgesCounted, Next
\* What has to be shown of a step: of the slots that do not move, that their claimed
\* jobs stay; of the one that moves, its part of the invariant.
<1>a. ASSUME NEW w \in Workers,
             \A g \in Workers : g # w => exec'[g] = exec[g],
             \A g \in Workers : g # w /\ exec[g].pc = "claimed" => jobs'[exec[g].job].status \in {"running", "failed"},
             objects \subseteq objects',
             PollMode => UNCHANGED attempts,
             exec'[w].pc \in {"running", "succeeding"} =>
                 /\ exec'[w].commit = jobs'[exec'[w].job].commit
                 /\ jobs'[exec'[w].job].status \notin {"none", "queued"},
             exec'[w].pc = "succeeding" => exec'[w].commit \in objects',
             exec'[w].pc = "claimed" => PollMode /\ jobs'[exec'[w].job].status \in {"running", "failed"},
             PollMode /\ exec'[w].pc # "idle" =>
                 /\ jobs'[exec'[w].job].status # "queued"
                 /\ \A g \in Workers : g # w /\ exec[g].pc # "idle" => exec[g].job # exec'[w].job
      PROVE  ExecInv'
    <2>1. BuildsJob'
        BY <1>0, <1>1, <1>a DEF ExecInv, BuildsJob
    <2>2. Uploaded'
        BY <1>a DEF ExecInv, Uploaded
    <2>3. ClaimedActive'
        BY <1>a DEF ExecInv, ClaimedActive
    <2>4. PollingExclusive'
        BY <1>0, <1>1, <1>a DEF ExecInv, PollingExclusive, OneExecutionPerJob
    <2> QED
        BY <1>1, <2>1, <2>2, <2>3, <2>4 DEF ExecInv
\* With polling a step on the job of one slot leaves the jobs of the others alone.
<1>b. ASSUME NEW w \in Workers, NEW g \in Workers, g # w, exec[g].pc = "claimed", exec[w].pc # "idle"
      PROVE  exec[g].job # exec[w].job
    BY <1>b DEF ExecInv, ClaimedActive, PollingExclusive, OneExecutionPerJob
\* The watchdog and the clock.
<1>2. CASE Timeout \/ Tick
    <2>1. UNCHANGED <<attempts, exec, objects>>
        BY <1>2 DEF Timeout, Tick
    <2>2. \A j \in Jobs : jobs[j].status \in {"running", "failed"} => jobs'[j].status \in {"running", "failed"}
        <3> TAKE j \in Jobs
        <3>1. CASE Timeout
            <4>1. jobs'[j] = jobs[j] \/ jobs'[j] = [jobs[j] EXCEPT !.status = "failed", !.age = 0]
                BY <3>1 DEF Timeout, TimeoutRunningJobs
            <4> QED
                BY <1>0, <4>1 DEF JobRow
        <3>2. CASE Tick
            <4>1. jobs'[j] = jobs[j] \/ jobs'[j] = [jobs[j] EXCEPT !.age = jobs[j].age + 1]
                BY <3>2 DEF Tick
            <4> QED
                BY <1>0, <4>1 DEF JobRow
        <3> QED
            BY <1>2, <3>1, <3>2
    <2>3. BuildsJob' /\ Uploaded'
        BY <1>0, <1>1, <2>1 DEF ExecInv, BuildsJob, Uploaded
    <2>4. ClaimedActive' /\ PollingExclusive'
        BY <1>0, <1>1, <2>1, <2>2 DEF ExecInv, ClaimedActive, PollingExclusive, OneExecutionPerJob
    <2> QED
        BY <1>1, <2>3, <2>4 DEF ExecInv
<1>3. ASSUME NEW j \in Jobs, DeliverFails(j) PROVE ExecInv'
    <2>1. UNCHANGED <<jobs, exec, objects>> /\ ~PollMode
        BY <1>3 DEF DeliverFails, Attempt
    <2> QED
        BY <2>1 DEF ExecInv, AgesCounted, BuildsJob, Uploaded, ClaimedActive, PollingExclusive
<1>4. ASSUME NEW w \in Workers, NEW j \in Jobs, Deliver(w, j) PROVE ExecInv'
    <2>1. /\ ~PollMode /\ UNCHANGED <<jobs, objects>>
          /\ exec' = [exec EXCEPT ![w] = [pc |-> "starting", job |-> j, commit |-> Null]]
        BY <1>4 DEF Deliver, Attempt
    <2>2. exec'[w].pc = "starting" /\ \A g \in Workers : g # w => exec'[g] = exec[g]
        BY <1>0, <2>1
    <2> QED
        BY <1>a, <2>1, <2>2 DEF ExecInv, ClaimedActive
<1>5. ASSUME NEW w \in Workers, Claim(w, RowsBeingUpdated) PROVE ExecInv'
    <2>1. PICK j \in Jobs :
              /\ jobs[j].status = "queued"
              /\ jobs' = UpdateJobStatus(j, "running")
              /\ exec' = [exec EXCEPT ![w] = [pc |-> "claimed", job |-> j, commit |-> Null]]
        BY <1>5 DEF Claim, ClaimableJobs, InStatus
    <2>2. PollMode /\ UNCHANGED <<attempts, objects>>
        BY <1>5 DEF Claim
    <2>3. /\ exec'[w].pc = "claimed" /\ exec'[w].job = j
          /\ \A g \in Workers : g # w => exec'[g] = exec[g]
        BY <1>0, <2>1
    <2>4. jobs'[j].status = "running" /\ \A k \in Jobs : k # j => jobs'[k] = jobs[k]
        BY <1>0, <2>1 DEF UpdateJobStatus, JobRow
    <2>5. \A g \in Workers : exec[g].pc # "idle" => exec[g].job # j
        BY <2>1, <2>2 DEF ExecInv, PollingExclusive
    <2>6. \A g \in Workers : exec[g].pc = "claimed" => jobs'[exec[g].job].status \in {"running", "failed"}
        BY <1>0, <2>4, <2>5 DEF ExecInv, ClaimedActive
    <2> QED
        BY <1>a, <2>2, <2>3, <2>4, <2>5, <2>6
\* The steps of an active slot change no row but that of its job.
<1>6. ASSUME NEW w \in Workers, WorkerStep(w) PROVE ExecInv'
    <2> DEFINE j == exec[w].job
    <2>1. exec[w].pc # "idle"
        BY <1>6 DEF WorkerStep, ClaimedRepo, ClaimedRepoFails, CallStart, CallStartFails, RunAndUpload, RunFails,
            CallComplete, Report, WorkerDies
    <2>2. j \in Jobs /\ exec[w] \in Exec
        BY <1>0, <2>1
    <2>3. /\ \A k \in Jobs : k # j => jobs'[k] = jobs[k]
          /\ objects \subseteq objects'
        BY <1>0, <1>6, <2>2 DEF WorkerStep, ClaimedRepo, ClaimedRepoFails, CallStart, CallStartFails, RunAndUpload,
            RunFails, CallComplete, Report, WorkerDies, Complete, Start, UpdateJobStatus
    <2>4. \A g \in Workers : g # w => exec'[g] = exec[g]
        BY <1>0, <1>6 DEF WorkerStep, ClaimedRepo, ClaimedRepoFails, CallStart, CallStartFails, RunAndUpload,
            RunFails, CallComplete, Report, WorkerDies, Goto, Free
    <2>5. PollMode => UNCHANGED attempts
        <3>1. CASE CallComplete(w)
            <4>1. PollMode => \A k \in Jobs : attempts[k] = 0
                BY DEF ExecInv, PollingExclusive
            <4> QED
                BY <1>0, <2>2, <3>1, <4>1 DEF CallComplete, Report, Answer
        <3> QED
            BY <1>6, <3>1 DEF WorkerStep, ClaimedRepo, ClaimedRepoFails, CallStart, CallStartFails, RunAndUpload,
                RunFails, WorkerDies
    <2>6. \A g \in Workers : g # w /\ exec[g].pc = "claimed" => jobs'[exec[g].job].status \in {"running", "failed"}
        BY <1>0, <1>b, <2>1, <2>3 DEF ExecInv, ClaimedActive
    <2>7. PollMode =>
              /\ jobs'[j].status # "queued"
              /\ \A g \in Workers : g # w /\ exec[g].pc # "idle" => exec[g].job # j
        BY <1>0, <1>1, <2>1, <2>2 DEF ExecInv, PollingExclusive, OneExecutionPerJob
    \* It suffices to look at the slot itself.
    <2>a. ASSUME exec'[w].pc # "idle" => exec'[w].job = j,
                 exec'[w].pc # "claimed",
                 exec'[w].pc \in {"running", "succeeding"} =>
                     exec'[w].commit = jobs'[j].commit /\ jobs'[j].status \notin {"none", "queued"},
                 exec'[w].pc = "succeeding" => exec'[w].commit \in objects'
          PROVE  ExecInv'
        <3> HIDE DEF j
        <3> QED
            BY <1>a, <2>3, <2>4, <2>5, <2>6, <2>7, <2>a
    <2>8. CASE ClaimedRepo(w) \/ CallStartFails(w) \/ RunFails(w)
        <3>1. exec'[w].pc \in {"starting", "failing"} /\ exec'[w].job = j
            BY <1>0, <2>2, <2>8 DEF ClaimedRepo, CallStartFails, RunFails, Goto, Exec
        <3> QED
            BY <2>a, <3>1
    <2>9. CASE ClaimedRepoFails(w) \/ CallComplete(w) \/ WorkerDies(w)
        <3>1. exec'[w].pc = "idle"
            BY <1>0, <2>9 DEF ClaimedRepoFails, CallComplete, Report, WorkerDies, Free, IdleSlot
        <3> QED
            BY <2>a, <3>1
    <2>10. CASE CallStart(w)
        <3>1. /\ exec'[w].pc = "running" /\ exec'[w].job = j /\ exec'[w].commit = jobs[j].commit
              /\ jobs' = Start(j) /\ ~StartRefused(j)
            BY <1>0, <2>2, <2>10 DEF CallStart, Exec
        <3>2. jobs'[j].commit = jobs[j].commit /\ jobs'[j].status \notin {"none", "queued"}
            BY <1>0, <2>1, <2>2, <3>1 DEF Start, UpdateJobStatus, JobRow
        <3> QED
            BY <2>a, <3>1, <3>2
    <2>11. CASE RunAndUpload(w)
        <3>1. /\ exec'[w].pc = "succeeding" /\ exec'[w].job = j /\ exec'[w].commit = exec[w].commit
              /\ objects' = objects \cup {exec[w].commit} /\ exec[w].pc = "running" /\ UNCHANGED jobs
            BY <1>0, <2>2, <2>11 DEF RunAndUpload, Goto, Exec
        <3>2. exec[w].commit = jobs[j].commit /\ jobs[j].status \notin {"none", "queued"}
            BY <3>1 DEF ExecInv, BuildsJob
        <3> QED
            BY <2>a, <3>1, <3>2
    <2> QED
        BY <1>6, <2>8, <2>9, <2>10, <2>11 DEF WorkerStep
<1> QED
    BY <1>2, <1>3, <1>4, <1>5, <1>6 DEF ExecStep, ExecNext

\* The invariant of the execution holds in every reachable state.
THEOREM ExecCorrect == Spec => []ExecInv
<1>1. TypeInv /\ ExecInv /\ [Next]_vars => ExecInv'
    <2>1. ExecInv /\ UNCHANGED vars => ExecInv'
        BY DEF vars, ExecInv, AgesCounted, BuildsJob, Uploaded, ClaimedActive, PollingExclusive,
            OneExecutionPerJob
    <2> QED
        BY <2>1, ExecInvIntake, ExecInvExec DEF Next
<1> QED
    BY <1>1, ExecInvInit, TypeCorrect, PTL DEF Spec

\* What an execution builds and uploads is the commit its job records, throughout.
THEOREM ExecutionConsistent == Spec => []ExecutionBuildsItsCommit
<1>1. ExecInv => ExecutionBuildsItsCommit
    BY DEF ExecInv, BuildsJob, ExecutionBuildsItsCommit
<1> QED
    BY <1>1, ExecCorrect, PTL

\* No step changes a job that has ended.
THEOREM TerminalStable == Spec => TerminalIsFinal
<1>1. TypeInv /\ ExecInv /\ [Next]_vars =>
          [\A j \in Jobs : IsTerminal(jobs[j].status) => jobs'[j] = jobs[j]]_vars
    BY RowFacts
<1> QED
    BY <1>1, TypeCorrect, ExecCorrect, PTL DEF Spec, TerminalIsFinal

\* No push changes the commit of a job that has left the queue.
THEOREM CommitFixed == Spec => CommitFixedAfterQueue
<1>1. TypeInv /\ ExecInv /\ [Next]_vars =>
          [\A j \in Jobs : LeftQueue(j) => jobs'[j].commit = jobs[j].commit]_vars
    BY RowFacts DEF LeftQueue
<1> QED
    BY <1>1, TypeCorrect, ExecCorrect, PTL DEF Spec, CommitFixedAfterQueue

\* With polling, no job is ever worked on by two executions.
THEOREM ClaimsExclusive == Spec => [](PollMode => OneExecutionPerJob)
<1>1. ExecInv => (PollMode => OneExecutionPerJob)
    BY DEF ExecInv, PollingExclusive
<1> QED
    BY <1>1, ExecCorrect, PTL

-----------------------------------------------------------------------------
(* Without faults no queued job loses its task.  An execution gives up its *)
(* job's task when it ends, so the invariant adds that by then the job has *)
(* left the queue, be the execution successful or not.                     *)

EndsOutOfQueue ==
    \A w \in Workers : exec[w].pc \in {"running", "succeeding", "failing"} =>
        jobs[exec[w].job].status \notin {"none", "queued"}

HasTask(j) ==
    \/ attempts[j] > 0
    \/ \E h \in Handlers : push[h].pc = "enqueue" /\ push[h].job = j
    \/ \E w \in Workers : exec[w].pc = "starting" /\ exec[w].job = j

TaskInv == EndsOutOfQueue /\ \A j \in Jobs : jobs[j].status = "queued" => HasTask(j)

\* A push that creates a job enqueues its task.
LEMMA TaskIntake ==
    ASSUME Faults = {}, ~PollMode, TypeInv, ExecInv, TaskInv, IntakeStep PROVE TaskInv'
<1>0. /\ jobs \in [Jobs -> JobRow] /\ push \in [Handlers -> Push]
      /\ attempts \in [Jobs -> 0 .. MaxAttempts] /\ MaxAttempts \in Nat \ {0}
      /\ \A g \in Handlers : push[g].pc = "enqueue" => push[g].job \in Jobs
      /\ \A w \in Workers : exec[w].pc # "idle" => exec[w].job \in Jobs
    BY DispatchAssumption DEF TypeInv, TypeOK, StoreTypeOK, DispatchTypeOK, IntakeTypeOK, PushTypeOK, ExecTypeOK
<1>1. PICK h \in Handlers : PushStep(h) \/ PushEnqueue(h)
    BY DEF IntakeStep, IntakeNext
<1>2. /\ UNCHANGED exec
      /\ \A g \in Handlers \ {h} : push'[g] = push[g]
    BY <1>0, <1>1 DEF IntakeStep, execVars, PushStep, PushBegin, PushCheck, PushUpdate, PushCreate,
        PushDuplicate, PushEnqueue, PushAbort, Return
<1>3. \A j \in Jobs : jobs[j].status \notin {"none", "queued"} =>
          jobs'[j].status \notin {"none", "queued"}
    BY RowFacts DEF Next
<1>4. EndsOutOfQueue'
    BY <1>0, <1>2, <1>3 DEF TaskInv, EndsOutOfQueue
<1>5. CASE PushEnqueue(h)
    <2>1. jobs' = jobs /\ attempts' = [attempts EXCEPT ![push[h].job] = MaxAttempts] /\ push[h].pc = "enqueue"
        BY <1>5 DEF PushEnqueue, Enqueue
    <2>2. \A j \in Jobs : HasTask(j) => HasTask(j)'
        BY <1>0, <1>2, <2>1 DEF HasTask
    <2> QED
        BY <1>4, <2>1, <2>2 DEF TaskInv
<1>6. CASE PushCreate(h)
    <2>1. PICK k \in Jobs :
              /\ jobs' = CreateJob(k, PushBranch(h), PushCommit(h), DeliveryId(h), push[h].begun)
              /\ push' = [push EXCEPT ![h].pc = "enqueue", ![h].job = k]
        BY <1>6 DEF PushCreate, InStatus
    <2>2. push'[h].pc = "enqueue" /\ push'[h].job = k
        BY <1>0, <2>1 DEF Push
    <2>3. \A j \in Jobs \ {k} : jobs'[j] = jobs[j]
        BY <1>0, <2>1 DEF CreateJob
    <2>4. UNCHANGED attempts /\ push[h].pc = "checked"
        BY <1>6 DEF PushCreate
    <2>5. \A j \in Jobs : HasTask(j) => HasTask(j)'
        BY <1>2, <2>4 DEF HasTask
    <2> QED
        BY <1>4, <2>2, <2>3, <2>5 DEF TaskInv, HasTask
<1>7. CASE PushStep(h) /\ ~PushCreate(h)
    <2>1. UNCHANGED attempts /\ push[h].pc # "enqueue"
        BY <1>7 DEF PushStep, PushBegin, PushCheck, PushUpdate, PushCreate, PushDuplicate, PushAbort
    <2>2. \A j \in Jobs : jobs'[j].status = jobs[j].status
        BY <1>0, <1>7 DEF PushStep, PushBegin, PushCheck, PushUpdate, PushDuplicate, PushAbort,
            UpdateJobCommitSHA, JobRow
    <2>3. \A j \in Jobs : HasTask(j) => HasTask(j)'
        BY <1>2, <2>1 DEF HasTask
    <2> QED
        BY <1>4, <2>2, <2>3 DEF TaskInv
<1> QED
    BY <1>1, <1>5, <1>6, <1>7

\* An attempt that is made starts the job before its task is deleted.
LEMMA TaskExec ==
    ASSUME Faults = {}, ~PollMode, TypeInv, ExecInv, TaskInv, ExecStep PROVE TaskInv'
<1>0. /\ jobs \in [Jobs -> JobRow] /\ exec \in [Workers -> Exec]
      /\ attempts \in [Jobs -> 0 .. MaxAttempts]
      /\ \A w \in Workers : exec[w].pc # "idle" =>
             exec[w].job \in Jobs /\ jobs[exec[w].job].status # "none"
    BY DEF TypeInv, TypeOK, StoreTypeOK, DispatchTypeOK, ExecTypeOK, ExecRefers
<1>1. UNCHANGED push
    BY DEF ExecStep, intakeVars
<1>2. /\ \A j \in Jobs : jobs'[j].status = "queued" => jobs[j].status = "queued"
      /\ \A j \in Jobs : jobs[j].status \notin {"none", "queued"} =>
             jobs'[j].status \notin {"none", "queued"}
    <2>1. \A j \in Jobs : jobs'[j].status = "queued" => jobs[j].status = "queued"
        BY <1>0, ExecTransitions DEF Keeps, Ages, Begins, Ends, JobRow
    <2> QED
        BY <2>1, RowFacts DEF Next
<1>3. ASSUME UNCHANGED <<attempts, exec>> PROVE TaskInv'
    BY <1>0, <1>1, <1>2, <1>3 DEF TaskInv, EndsOutOfQueue, HasTask
<1>4. ASSUME NEW w \in Workers, NEW j \in Jobs, Deliver(w, j) PROVE TaskInv'
    <2>1. /\ exec[w].pc = "idle" /\ exec'[w].pc = "starting" /\ exec'[w].job = j
          /\ \A v \in Workers \ {w} : exec'[v] = exec[v]
          /\ \A k \in Jobs \ {j} : attempts'[k] = attempts[k]
        BY <1>0, <1>4 DEF Deliver, Attempt
    <2>2. EndsOutOfQueue'
        BY <1>0, <1>2, <2>1 DEF TaskInv, EndsOutOfQueue
    <2>3. \A k \in Jobs : HasTask(k) => HasTask(k)'
        BY <1>1, <2>1 DEF HasTask
    <2> QED
        BY <1>2, <2>2, <2>3 DEF TaskInv
<1>5. ASSUME NEW w \in Workers, WorkerStep(w) PROVE TaskInv'
    <2>0. PICK i \in Jobs : i = exec[w].job
        BY <1>0, <1>5 DEF WorkerStep, ClaimedRepo, ClaimedRepoFails, CallStart, CallStartFails,
            RunAndUpload, RunFails, CallComplete, Report, WorkerDies
    <2>1. /\ exec[w].pc # "claimed"
          /\ \A v \in Workers \ {w} : exec'[v] = exec[v]
          /\ \A k \in Jobs \ {i} : attempts'[k] = attempts[k]
        BY <1>0, <1>5, <2>0 DEF WorkerStep, ClaimedRepo, ClaimedRepoFails, CallStart, CallStartFails,
            RunAndUpload, RunFails, CallComplete, Answer, WorkerDies, Goto, Free, ExecInv, ClaimedActive
    <2>2. /\ jobs'[i].status \notin {"none", "queued"}
          /\ exec'[w].pc # "idle" => exec'[w].job = i
        <3>1. CASE CallStart(w)
            BY <1>0, <2>0, <3>1 DEF CallStart, Start, UpdateJobStatus, JobRow, Exec
        <3>2. CASE CallStartFails(w)
            BY <1>0, <1>2, <2>0, <3>2 DEF CallStartFails, StartRefused, IsTerminal, Goto, Exec
        <3>3. CASE RunAndUpload(w) \/ RunFails(w)
            BY <1>0, <1>2, <2>0, <3>3 DEF RunAndUpload, RunFails, Goto, Exec, TaskInv, EndsOutOfQueue
        <3>4. CASE CallComplete(w)
            BY <1>0, <1>2, <2>0, <3>4 DEF CallComplete, Report, Free, IdleSlot, TaskInv, EndsOutOfQueue
        <3> QED
            BY <1>5, <2>1, <3>1, <3>2, <3>3, <3>4 DEF WorkerStep, ClaimedRepo, ClaimedRepoFails, WorkerDies
    <2>3. EndsOutOfQueue'
        BY <1>0, <1>2, <2>1, <2>2 DEF TaskInv, EndsOutOfQueue
    <2>4. \A k \in Jobs \ {i} : HasTask(k) => HasTask(k)'
        BY <1>0, <1>1, <2>0, <2>1 DEF HasTask
    <2> QED
        BY <1>2, <2>2, <2>3, <2>4 DEF TaskInv
<1> QED
    BY <1>3, <1>4, <1>5 DEF ExecStep, ExecNext, Timeout, Tick, DeliverFails, Claim

\* With Cloud Tasks and without faults no queued job is forgotten.
THEOREM QueuedTasks == ASSUME Faults = {}, ~PollMode PROVE Spec => []QueuedJobsHaveTasks
<1>1. Init => TaskInv
    BY DEF Init, StoreInit, NoRow, ExecInit, IdleSlot, TaskInv, EndsOutOfQueue
<1>2. TypeInv /\ ExecInv /\ TaskInv /\ [Next]_vars => TaskInv'
    <2>1. TaskInv /\ UNCHANGED vars => TaskInv'
        BY DEF vars, TaskInv, EndsOutOfQueue, HasTask
    <2> QED
        BY <2>1, TaskIntake, TaskExec DEF Next
<1>3. TypeInv /\ TaskInv => QueuedJobsHaveTasks
    BY DEF TypeInv, TaskRefers, TaskInv, HasTask, InStatus, QueuedJobsHaveTasks
<1> QED
    BY <1>1, <1>2, <1>3, TypeCorrect, ExecCorrect, PTL DEF Spec
=============================================================================
