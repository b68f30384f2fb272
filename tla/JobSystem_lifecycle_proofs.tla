--------------------- MODULE JobSystem_lifecycle_proofs ---------------------
(***************************************************************************)
(* Proofs that snapshots match the jobs that succeeded, that JobSystem     *)
(* implements JobLifecycle and BranchQueue, and that the jobs of a branch  *)
(* start in the order of its pushes.                                       *)
(***************************************************************************)
EXTENDS JobSystem_exec_proofs

\* The step by which slot w publishes the snapshot of its job.
Publishes(w) ==
    LET j == exec[w].job IN
    /\ exec[w].pc = "succeeding"
    /\ jobs[j].status = "running"
    /\ ~SnapshotExists(jobs[j].branch, jobs[j].commit)
    /\ jobs' = UpdateJobStatus(j, "succeeded")
    /\ snapshots' = InsertSnapshot(j, exec[w].commit)
    /\ UNCHANGED objects

\* Any other step: no row is inserted and no job succeeds.
Unpublished ==
    /\ UNCHANGED snapshots
    /\ objects \subseteq objects'
    /\ \A j \in Jobs : jobs'[j].status = "succeeded" => jobs[j].status = "succeeded"

\* A job succeeds, and a snapshot is inserted, in the same step or not at all.
LEMMA PublishOrNot ==
    ASSUME TypeInv, ExecInv, [Next]_vars
    PROVE  Unpublished \/ \E w \in Workers : Publishes(w)
<1>0. /\ jobs \in [Jobs -> JobRow]
      /\ \A w \in Workers : exec[w].pc # "idle" => exec[w].job \in Jobs /\ jobs[exec[w].job].status # "none"
    BY DEF TypeInv, TypeOK, StoreTypeOK, ExecTypeOK, ExecRefers
<1>a. ASSUME NEW k \in Jobs, NEW status \in {"running", "failed"}, jobs' = UpdateJobStatus(k, status)
      PROVE  \A j \in Jobs : jobs'[j].status = "succeeded" => jobs[j].status = "succeeded"
    BY <1>0, <1>a DEF UpdateJobStatus, JobRow
<1>1. CASE UNCHANGED <<jobs, snapshots, objects>>
    BY <1>1 DEF Unpublished
<1>2. CASE IntakeStep
    <2>1. UNCHANGED <<snapshots, objects>>
        BY <1>2 DEF IntakeStep, execVars, IntakeNext, PushStep, PushBegin, PushCheck, PushUpdate, PushCreate, PushDuplicate,
            PushEnqueue, PushAbort
    <2>2. \A j \in Jobs : jobs'[j].status = "succeeded" => jobs[j].status = "succeeded"
        <3> TAKE j \in Jobs
        <3>1. Keeps(j) \/ Retargets(j) \/ Appears(j)
            BY <1>2, IntakeTransitions
        <3> QED
            BY <1>0, <3>1 DEF Keeps, Retargets, Appears, JobRow
    <2> QED
        BY <2>1, <2>2 DEF Unpublished
<1>3. CASE Timeout \/ Tick
    <2>1. UNCHANGED <<snapshots, objects>>
        BY <1>3 DEF Timeout, Tick
    <2>2. ASSUME NEW j \in Jobs, jobs'[j].status = "succeeded" PROVE jobs[j].status = "succeeded"
        <3>1. CASE Timeout
            <4>1. jobs'[j] = jobs[j] \/ jobs'[j] = [jobs[j] EXCEPT !.status = "failed", !.age = 0]
                BY <3>1 DEF Timeout, TimeoutRunningJobs
            <4> QED
                BY <1>0, <2>2, <4>1 DEF JobRow
        <3>2. CASE Tick
            <4>1. jobs'[j] = jobs[j] \/ jobs'[j] = [jobs[j] EXCEPT !.age = jobs[j].age + 1]
                BY <3>2 DEF Tick
            <4> QED
                BY <1>0, <2>2, <4>1 DEF JobRow
        <3> QED
            BY <1>3, <3>1, <3>2
    <2> QED
        BY <2>1, <2>2 DEF Unpublished
<1>4. ASSUME NEW w \in Workers,
             Claim(w, RowsBeingUpdated) \/ CallStart(w) \/ CallStartFails(w) \/ ClaimedRepoFails(w)
      PROVE  Unpublished
    <2>1. UNCHANGED <<snapshots, objects>>
        BY <1>4 DEF Claim, CallStart, CallStartFails, ClaimedRepoFails
    <2>2. UNCHANGED jobs \/ \E k \in Jobs, status \in {"running", "failed"} : jobs' = UpdateJobStatus(k, status)
        BY <1>0, <1>4 DEF Claim, ClaimableJobs, InStatus, CallStart, CallStartFails, Start, ClaimedRepoFails
    <2> QED
        BY <1>a, <2>1, <2>2 DEF Unpublished
<1>5. ASSUME NEW w \in Workers, RunAndUpload(w) PROVE Unpublished
    BY <1>5 DEF RunAndUpload, Unpublished
<1>6. ASSUME NEW w \in Workers, CallComplete(w) PROVE Unpublished \/ Publishes(w)
    <2>1. exec[w].pc \in {"succeeding", "failing"} /\ UNCHANGED objects
        BY <1>6 DEF CallComplete, Report
    <2>2. CASE UNCHANGED <<jobs, snapshots>>
        BY <2>1, <2>2 DEF Unpublished
    <2>3. CASE jobs' = UpdateJobStatus(exec[w].job, "failed") /\ UNCHANGED snapshots
        BY <1>0, <1>a, <2>1, <2>3 DEF Unpublished
    <2>4. CASE /\ exec[w].pc = "succeeding"
               /\ ~IsTerminal(jobs[exec[w].job].status)
               /\ ~SnapshotExists(jobs[exec[w].job].branch, jobs[exec[w].job].commit)
               /\ jobs' = UpdateJobStatus(exec[w].job, "succeeded")
               /\ snapshots' = InsertSnapshot(exec[w].job, exec[w].commit)
        <3>1. jobs[exec[w].job].status \in JobStatus \cup {"none"}
            BY <1>0, <2>1 DEF JobRow
        <3>2. jobs[exec[w].job].status = "running"
            BY <2>4, <3>1 DEF ExecInv, BuildsJob, IsTerminal, JobStatus
        <3> QED
            BY <2>1, <2>4, <3>2 DEF Publishes
    <2> QED
        BY <1>6, <2>2, <2>3, <2>4 DEF CallComplete, Report, Complete
<1>7. ASSUME NEW w \in Workers, ClaimedRepo(w) \/ RunFails(w) \/ WorkerDies(w) \/ \E j \in Jobs : Deliver(w, j)
      PROVE  UNCHANGED <<jobs, snapshots, objects>>
    BY <1>7 DEF ClaimedRepo, RunFails, WorkerDies, Deliver
<1>8. ASSUME NEW j \in Jobs, DeliverFails(j) PROVE UNCHANGED <<jobs, snapshots, objects>>
    BY <1>8 DEF DeliverFails
<1>9. CASE ExecStep
    BY <1>1, <1>3, <1>4, <1>5, <1>6, <1>7, <1>8, <1>9 DEF ExecStep, ExecNext, WorkerStep
<1> QED
    BY <1>1, <1>2, <1>9 DEF Next, vars

-----------------------------------------------------------------------------
\* The rows of the snapshots table after an insert.
LEMMA Inserted ==
    ASSUME TypeInv, NEW j \in Jobs, NEW path \in Commits, jobs[j].status # "none",
           snapshots' = InsertSnapshot(j, path)
    PROVE  LET n == Len(snapshots) + 1
               row == [job |-> j, branch |-> jobs[j].branch, commit |-> jobs[j].commit, path |-> path]
           IN  /\ DOMAIN snapshots' = DOMAIN snapshots \cup {n}
               /\ n \notin DOMAIN snapshots
               /\ snapshots'[n] = row
               /\ \A i \in DOMAIN snapshots : snapshots'[i] = snapshots[i]
<1> DEFINE row == [job |-> j, branch |-> jobs[j].branch, commit |-> jobs[j].commit, path |-> path]
<1>1. row \in SnapshotRow /\ snapshots \in Seq(SnapshotRow)
    BY DEF SnapshotRow, TypeInv, TypeOK, StoreTypeOK, RowsComplete
<1>2. snapshots' = Append(snapshots, row)
    BY DEF InsertSnapshot
<1> HIDE DEF row
<1>3. /\ DOMAIN snapshots' = DOMAIN snapshots \cup {Len(snapshots) + 1}
      /\ Len(snapshots) + 1 \notin DOMAIN snapshots
      /\ snapshots'[Len(snapshots) + 1] = row
      /\ \A i \in DOMAIN snapshots : snapshots'[i] = snapshots[i]
    BY <1>1, <1>2
<1> QED
    BY <1>3 DEF row

\* Every step preserves the agreement of jobs and snapshots.
LEMMA SnapshotsStep == TypeInv /\ ExecInv /\ SnapshotsMatchJobs /\ [Next]_vars => SnapshotsMatchJobs'
<1> SUFFICES ASSUME TypeInv, ExecInv, SnapshotsMatchJobs, [Next]_vars PROVE SnapshotsMatchJobs'
    OBVIOUS
<1>1. jobs \in [Jobs -> JobRow] /\ \A i \in DOMAIN snapshots : snapshots[i].job \in Jobs
    <2>1. snapshots \in Seq(SnapshotRow) /\ jobs \in [Jobs -> JobRow]
        BY DEF TypeInv, TypeOK, StoreTypeOK
    <2>2. \A i \in DOMAIN snapshots : snapshots[i] \in SnapshotRow
        BY <2>1
    <2> QED
        BY <2>1, <2>2 DEF SnapshotRow
\* A job that succeeded, and its snapshot, stay as they are.
<1>2. \A j \in Jobs : jobs[j].status = "succeeded" => jobs'[j] = jobs[j]
    BY RowFacts DEF IsTerminal
<1>3. CASE Unpublished
    <2>1. UNCHANGED snapshots /\ objects \subseteq objects'
        BY <1>3 DEF Unpublished
    <2>2. \A j \in Jobs : jobs'[j].status = "succeeded" <=> jobs[j].status = "succeeded"
        BY <1>2, <1>3 DEF Unpublished
    <2> QED
        BY <1>1, <1>2, <2>1, <2>2 DEF SnapshotsMatchJobs, InStatus
<1>4. ASSUME NEW w \in Workers, Publishes(w) PROVE SnapshotsMatchJobs'
    <2> DEFINE j == exec[w].job
               n == Len(snapshots) + 1
               row == [job |-> j, branch |-> jobs[j].branch, commit |-> jobs[j].commit, path |-> exec[w].commit]
    <2>1. /\ j \in Jobs /\ exec[w].commit \in Commits
          /\ jobs[j].status = "running"
          /\ exec[w].commit = jobs[j].commit /\ exec[w].commit \in objects /\ UNCHANGED objects
        BY <1>4 DEF Publishes, TypeInv, TypeOK, ExecTypeOK, ExecInv, BuildsJob, Uploaded
    <2>2. /\ DOMAIN snapshots' = DOMAIN snapshots \cup {n}
          /\ n \notin DOMAIN snapshots
          /\ snapshots'[n] = row
          /\ \A i \in DOMAIN snapshots : snapshots'[i] = snapshots[i]
        BY <1>4, <2>1, Inserted DEF Publishes
    <2>3. /\ jobs'[j] = [jobs[j] EXCEPT !.status = "succeeded", !.age = 0]
          /\ \A k \in Jobs : k # j => jobs'[k] = jobs[k]
        BY <1>1, <1>4, <2>1 DEF Publishes, UpdateJobStatus
    <2>4. jobs'[j].status = "succeeded" /\ jobs'[j].branch = jobs[j].branch /\ jobs'[j].commit = jobs[j].commit
        BY <1>1, <2>1, <2>3 DEF JobRow
    <2>5. \A i \in DOMAIN snapshots : snapshots[i].job # j
        BY <2>1 DEF SnapshotsMatchJobs
    <2>6. row.job = j /\ row.branch = jobs[j].branch /\ row.commit = jobs[j].commit /\ row.path = exec[w].commit
        OBVIOUS
    <2> HIDE DEF j, n, row
    <2>7. \A i \in DOMAIN snapshots' :
              LET s == snapshots'[i] IN
              /\ jobs'[s.job].status = "succeeded"
              /\ s.branch = jobs'[s.job].branch
              /\ s.commit = jobs'[s.job].commit
              /\ s.path = s.commit
              /\ s.path \in objects'
        <3> TAKE i \in DOMAIN snapshots'
        <3>1. CASE i = n
            BY <2>1, <2>2, <2>4, <2>6, <3>1
        <3>2. CASE i \in DOMAIN snapshots
            BY <1>1, <1>2, <2>1, <2>2, <3>2 DEF SnapshotsMatchJobs
        <3> QED
            BY <2>2, <3>1, <3>2
    <2>8. \A k \in Jobs : jobs'[k].status = "succeeded" => \E i \in DOMAIN snapshots' : snapshots'[i].job = k
        <3> SUFFICES ASSUME NEW k \in Jobs, jobs'[k].status = "succeeded"
                     PROVE  \E i \in DOMAIN snapshots' : snapshots'[i].job = k
            OBVIOUS
        <3>1. CASE k = j
            BY <2>2, <2>6, <3>1
        <3>2. CASE k # j
            BY <2>2, <2>3, <3>2 DEF SnapshotsMatchJobs, InStatus
        <3> QED
            BY <3>1, <3>2
    <2>9. \A i, k \in DOMAIN snapshots' : snapshots'[i].job = snapshots'[k].job => i = k
        BY <2>2, <2>5, <2>6 DEF SnapshotsMatchJobs
    <2> QED
        BY <2>7, <2>8, <2>9 DEF SnapshotsMatchJobs, InStatus
<1> QED
    BY <1>3, <1>4, PublishOrNot

\* Exactly the succeeded jobs have a snapshot, and each has one, of its own commit.
THEOREM SnapshotsCorrect == Spec => []SnapshotsMatchJobs
<1>1. Init => SnapshotsMatchJobs
    BY DEF Init, StoreInit, NoRow, InStatus, SnapshotsMatchJobs
<1> QED
    BY <1>1, SnapshotsStep, TypeCorrect, ExecCorrect, PTL DEF Spec

-----------------------------------------------------------------------------
(* JobSystem implements JobLifecycle.                                      *)

State == [j \in Jobs |-> jobs[j].status]
Target == [j \in Jobs |-> [branch |-> jobs[j].branch, commit |-> jobs[j].commit]]
Published == {[job |-> snapshots[i].job,
               target |-> [branch |-> snapshots[i].branch, commit |-> snapshots[i].commit]] :
                  i \in DOMAIN snapshots}

\* The initial state is an initial state of the abstract specification.
LEMMA LifecycleInit == Init => Lifecycle!Init
BY DEF Init, StoreInit, NoRow, Lifecycle!Init

\* A change of one row changes the state and the target of that job alone.
LEMMA OneRow ==
    ASSUME NEW j \in Jobs, OthersKeep(j)
    PROVE  /\ State' = [State EXCEPT ![j] = jobs'[j].status]
           /\ Target' = [Target EXCEPT ![j] = [branch |-> jobs'[j].branch, commit |-> jobs'[j].commit]]
BY DEF OthersKeep, Keeps, State, Target

\* HandlePush creates a job or gives a queued one a new commit.
LEMMA LifecycleIntake ==
    ASSUME TypeInv, IntakeStep
    PROVE  [Lifecycle!Next]_(Lifecycle!vars)
<1>0. UNCHANGED Published /\ jobs \in [Jobs -> JobRow]
    BY DEF TypeInv, TypeOK, StoreTypeOK, Published, IntakeStep, IntakeNext, PushStep, PushBegin, PushCheck, PushUpdate,
        PushCreate, PushDuplicate, PushEnqueue, PushAbort
<1>1. CASE \A j \in Jobs : Keeps(j)
    BY <1>0, <1>1 DEF Keeps, Published, Lifecycle!vars
<1>2. ASSUME NEW j \in Jobs, Retargets(j), OthersKeep(j) PROVE Lifecycle!Retarget(j)
    <2>1. PICK c \in Commits : jobs[j].status = "queued" /\ jobs'[j] = [jobs[j] EXCEPT !.commit = c]
        BY <1>2 DEF Retargets
    <2>2. /\ jobs'[j].status = jobs[j].status
          /\ jobs'[j].branch = jobs[j].branch
          /\ jobs'[j].commit = c
        BY <1>0, <2>1 DEF JobRow
    <2>3. UNCHANGED State /\ Target' = [Target EXCEPT ![j].commit = c]
        BY <1>2, <2>2, OneRow DEF State, Target
    <2> QED
        BY <1>0, <2>1, <2>3 DEF State, Target, Published, Lifecycle!Retarget
<1>3. ASSUME NEW j \in Jobs, Appears(j), OthersKeep(j) PROVE Lifecycle!Create(j)
    BY <1>0, <1>3, OneRow DEF Appears, State, Target, Published, Lifecycle!Create
<1> QED
    BY <1>1, <1>2, <1>3, IntakeMoves DEF Lifecycle!Next

\* Publishing a snapshot is the step by which the job succeeds.
LEMMA LifecyclePublish ==
    ASSUME TypeInv, ExecInv, NEW w \in Workers, Publishes(w), NEW j \in Jobs, j = exec[w].job
    PROVE  Lifecycle!Succeed(j)
<1>1. jobs \in [Jobs -> JobRow] /\ exec[w].commit \in Commits /\ jobs[j].status = "running"
    BY DEF Publishes, TypeInv, TypeOK, StoreTypeOK, ExecTypeOK
<1>2. /\ jobs'[j] = [jobs[j] EXCEPT !.status = "succeeded", !.age = 0]
      /\ OthersKeep(j)
    BY <1>1 DEF Publishes, UpdateJobStatus, OthersKeep, Keeps
<1>3. jobs'[j].status = "succeeded" /\ jobs'[j].branch = jobs[j].branch /\ jobs'[j].commit = jobs[j].commit
    BY <1>1, <1>2 DEF JobRow
<1>4. State' = [State EXCEPT ![j] = "succeeded"] /\ UNCHANGED Target
    BY <1>1, <1>2, <1>3, OneRow DEF State, Target
<1>5. Published' = Published \cup {[job |-> j, target |-> Target[j]]}
    <2>1. /\ DOMAIN snapshots' = DOMAIN snapshots \cup {Len(snapshots) + 1}
          /\ snapshots'[Len(snapshots) + 1] =
                 [job |-> j, branch |-> jobs[j].branch, commit |-> jobs[j].commit, path |-> exec[w].commit]
          /\ \A i \in DOMAIN snapshots : snapshots'[i] = snapshots[i]
        BY <1>1, Inserted DEF Publishes
    <2> QED
        BY <1>1, <2>1 DEF Published, Target
<1>6. \A p \in Published : p.target # Target[j]
    BY <1>1 DEF Publishes, SnapshotExists, Published, Target
<1> QED
    BY <1>1, <1>4, <1>5, <1>6 DEF State, Target, Published, Lifecycle!Succeed

\* Every other step of a worker, a callback or the watchdog begins a job, fails some,
\* or changes nothing the abstract specification sees.
LEMMA LifecycleExec ==
    ASSUME TypeInv, ExecInv, ExecStep, Unpublished
    PROVE  [Lifecycle!Next]_(Lifecycle!vars)
<1>0. jobs \in [Jobs -> JobRow] /\ UNCHANGED Published
    BY DEF TypeInv, TypeOK, StoreTypeOK, Unpublished, Published
<1>1. CASE \A j \in Jobs : Keeps(j) \/ Ages(j)
    <2>1. \A j \in Jobs :
              /\ jobs'[j].status = jobs[j].status
              /\ jobs'[j].branch = jobs[j].branch
              /\ jobs'[j].commit = jobs[j].commit
        BY <1>0, <1>1 DEF Keeps, Ages, JobRow
    <2> QED
        BY <1>0, <2>1 DEF Published, Lifecycle!vars
<1>2. ASSUME NEW j \in Jobs, Begins(j), OthersKeep(j) PROVE Lifecycle!Begin(j)
    <2>1. /\ jobs'[j].status = "running"
          /\ jobs'[j].branch = jobs[j].branch
          /\ jobs'[j].commit = jobs[j].commit
        BY <1>0, <1>2 DEF Begins, JobRow
    <2>2. State' = [State EXCEPT ![j] = "running"] /\ UNCHANGED Target
        BY <1>2, <2>1, OneRow DEF State, Target
    <2> QED
        BY <1>0, <1>2, <2>2 DEF Begins, State, Target, Published, Lifecycle!Begin
<1>3. CASE \A j \in Jobs : Keeps(j) \/ Ends(j)
    <2>0. PICK S \in SUBSET Jobs :
              S = {j \in Jobs : jobs[j].status \in {"queued", "running"} /\ jobs'[j].status = "failed"}
        OBVIOUS
    <2>1. \A j \in Jobs :
              /\ jobs'[j].branch = jobs[j].branch
              /\ jobs'[j].commit = jobs[j].commit
              /\ jobs'[j].status = IF j \in S THEN "failed" ELSE jobs[j].status
        <3> TAKE j \in Jobs
        <3>1. CASE Keeps(j)
            BY <2>0, <3>1 DEF Keeps
        <3>2. CASE Ends(j)
            <4>1. PICK status \in {"failed", "succeeded"} :
                      jobs'[j] = [jobs[j] EXCEPT !.status = status, !.age = 0]
                BY <3>2 DEF Ends
            <4>2. /\ jobs'[j].status = status
                  /\ jobs'[j].branch = jobs[j].branch
                  /\ jobs'[j].commit = jobs[j].commit
                BY <1>0, <4>1 DEF JobRow
            <4>3. jobs[j].status \in {"queued", "running"} /\ status = "failed"
                BY <3>2, <4>2 DEF Ends, Unpublished
            <4> QED
                BY <2>0, <4>2, <4>3
        <3> QED
            BY <1>3, <3>1, <3>2
    <2>2. State' = [j \in Jobs |-> IF j \in S THEN "failed" ELSE State[j]] /\ UNCHANGED Target
        BY <2>1 DEF State, Target
    <2>3. \A j \in S : State[j] \in {"queued", "running"}
        BY <2>0 DEF State
    <2>4. Lifecycle!Fail(S)
        BY <1>0, <2>2, <2>3 DEF State, Target, Published, Lifecycle!Fail
    <2> QED
        BY <2>4 DEF Lifecycle!Next
<1> QED
    BY <1>1, <1>2, <1>3, ExecMoves DEF Lifecycle!Next, OthersKeep, Expires

\* Every step of the job system is a step of the abstract life of its jobs, or none.
THEOREM LifecycleImplemented == Spec => ImplementsLifecycle
<1>1. TypeInv /\ ExecInv /\ [Next]_vars => [Lifecycle!Next]_(Lifecycle!vars)
    <2> SUFFICES ASSUME TypeInv, ExecInv, [Next]_vars PROVE [Lifecycle!Next]_(Lifecycle!vars)
        OBVIOUS
    <2>1. CASE UNCHANGED vars
        BY <2>1 DEF vars, Lifecycle!vars
    <2>2. CASE IntakeStep
        BY <2>2, LifecycleIntake
    <2>3. CASE ExecStep /\ Unpublished
        BY <2>3, LifecycleExec
    <2>4. ASSUME NEW w \in Workers, Publishes(w) PROVE Lifecycle!Next
        <3>1. PICK j \in Jobs : j = exec[w].job
            BY <2>4 DEF Publishes, TypeInv, TypeOK, ExecTypeOK
        <3> QED
            BY <2>4, <3>1, LifecyclePublish DEF Lifecycle!Next
    <2> QED
        BY <2>1, <2>2, <2>3, <2>4, PublishOrNot DEF Next
<1> QED
    BY <1>1, LifecycleInit, TypeCorrect, ExecCorrect, PTL DEF Spec, ImplementsLifecycle, Lifecycle!Spec

-----------------------------------------------------------------------------
(* JobSystem implements BranchQueue.                                       *)

Slot == [b \in Branches |-> OnlyOf(QueuedOn(b))]
Last == [b \in Branches |-> IF latest[b] = Null THEN Null ELSE CommitOf[latest[b]]]
Taken == {[job |-> j, branch |-> jobs[j].branch, commit |-> jobs[j].commit] :
              j \in {k \in Jobs : LeftQueue(k)}}

\* The initial state is one of empty queues.
LEMMA QueueInit == Init => Queue!Init
BY DEF Init, StoreInit, IntakeInit, NoRow, QueuedOn, OnlyOf, LeftQueue, InStatus, Queue!Init

\* The member of a set that has one.
LEMMA OnlyMember == OnlyOf({}) = Null /\ \A j : OnlyOf({j}) = j
<1>1. \A j : (CHOOSE k \in {j} : TRUE) = j
    OBVIOUS
<1> QED
    BY <1>1, Zenon DEF OnlyOf

\* The place of a branch holds its queued job, of which there is one at most.
LEMMA SlotHolds ==
    ASSUME AtMostOneQueued, NEW b \in Branches
    PROVE  /\ \A j \in QueuedOn(b) : Slot[b] = j
           /\ QueuedOn(b) = {} => Slot[b] = Null
           /\ Slot[b] # Null => Slot[b] \in QueuedOn(b)
<1>1. \A j \in QueuedOn(b) : QueuedOn(b) = {j}
    BY DEF AtMostOneQueued, QueuedOn, InStatus
<1> QED
    BY <1>1, OnlyMember DEF Slot

\* The same after a step.
LEMMA SlotHoldsNext ==
    ASSUME AtMostOneQueued', NEW b \in Branches
    PROVE  /\ \A j \in QueuedOn(b)' : Slot'[b] = j
           /\ QueuedOn(b)' = {} => Slot'[b] = Null
<1>1. \A j \in QueuedOn(b)' : QueuedOn(b)' = {j}
    BY DEF AtMostOneQueued, QueuedOn, InStatus
<1> QED
    BY <1>1, OnlyMember DEF Slot

\* Rows that keep branch, and stay queued or stay out of the queue with their commit,
\* leave the queues and what was taken as they are.
LEMMA QueueKeeps ==
    ASSUME \A j \in Jobs : /\ jobs'[j].branch = jobs[j].branch
                           /\ jobs'[j].status = "queued" <=> jobs[j].status = "queued"
                           /\ LeftQueue(j)' <=> LeftQueue(j)
                           /\ LeftQueue(j) => jobs'[j].commit = jobs[j].commit
    PROVE  UNCHANGED <<Slot, Taken>>
<1>1. \A b \in Branches : QueuedOn(b)' = QueuedOn(b)
    BY DEF QueuedOn, InStatus
<1>2. UNCHANGED Slot
    BY <1>1 DEF Slot
<1>3. UNCHANGED Taken
    BY DEF Taken
<1> QED
    BY <1>2, <1>3

\* A job that is created fills the place of its branch.
LEMMA QueueOpen ==
    ASSUME TypeInv, IntakeInv, IntakeInv', NEW h \in Handlers, PushCreate(h),
           NEW b \in Branches, NEW c \in Commits, b = PushBranch(h), c = PushCommit(h)
    PROVE  \E j \in Jobs : Queue!Open(b, c, j)
<1>1. PICK j \in Jobs :
          /\ jobs[j].status = "none"
          /\ jobs' = CreateJob(j, b, c, DeliveryId(h), push[h].begun)
    BY DEF PushCreate, InStatus
<1>2. /\ jobs'[j].status = "queued" /\ jobs'[j].branch = b
      /\ \A k \in Jobs \ {j} : jobs'[k] = jobs[k]
    BY <1>1 DEF CreateJob, TypeInv, TypeOK, StoreTypeOK
<1>3. /\ push[h].delivery \in Deliveries
      /\ push[h].pc = "checked" /\ push[h].job = Null
      /\ latest \in [Branches -> Deliveries \cup {Null}]
      /\ latest' = [latest EXCEPT ![b] = push[h].delivery]
    BY DEF PushCreate, Record, TypeInv, TypeOK, IntakeTypeOK, PushTypeOK, PushBranch
<1>4. QueuedOn(b) = {} /\ j \in QueuedOn(b)'
    BY <1>1, <1>2, <1>3, NullAssumption DEF IntakeInv, CheckCurrent, QueuedOn, InStatus
<1>5. \A q \in Branches \ {b} : QueuedOn(q)' = QueuedOn(q)
    BY <1>1, <1>2 DEF QueuedOn, InStatus
<1>6. Slot[b] = Null /\ Slot'[b] = j
    BY <1>3, <1>4, SlotHolds, SlotHoldsNext DEF IntakeInv
<1>7. Slot' = [Slot EXCEPT ![b] = j]
    BY <1>3, <1>5, <1>6 DEF Slot
<1>8. \A q \in Branches : Slot[q] # j
    <2> SUFFICES ASSUME NEW q \in Branches, Slot[q] = j PROVE FALSE
        OBVIOUS
    <2>1. j \in QueuedOn(q)
        BY SlotHolds, NullAssumption DEF IntakeInv
    <2> QED
        BY <1>1, <2>1 DEF QueuedOn, InStatus
<1>9. UNCHANGED Taken /\ \A t \in Taken : t.job # j
    <2>1. \A k \in Jobs : LeftQueue(k)' <=> LeftQueue(k)
        BY <1>1, <1>2 DEF LeftQueue
    <2>2. \A k \in Jobs : LeftQueue(k) => k # j /\ jobs'[k] = jobs[k]
        BY <1>1, <1>2 DEF LeftQueue
    <2> QED
        BY <2>1, <2>2 DEF Taken
<1>10. Last' = [Last EXCEPT ![b] = c]
    BY <1>3, NullAssumption DEF Last, PushCommit
<1> QED
    BY <1>6, <1>7, <1>8, <1>9, <1>10 DEF Slot, Last, Taken, Queue!Open

\* A job that is updated is the one in the place, or it was taken with the push before.
LEMMA QueueUpdate ==
    ASSUME TypeInv, IntakeInv, NEW h \in Handlers, PushUpdate(h),
           NEW b \in Branches, NEW c \in Commits, b = PushBranch(h), c = PushCommit(h)
    PROVE  Queue!Replace(b, c) \/ Queue!Miss(b, c)
<1>1. PICK j \in Jobs : /\ j = push[h].job /\ jobs' = UpdateJobCommitSHA(j, c)
                        /\ jobs[j].branch = b /\ jobs[j].status # "none"
    BY DEF PushUpdate, TypeInv, TypeOK, IntakeTypeOK, PushTypeOK, Push, IntakeInv, FoundOnBranch
<1>2. /\ push[h].delivery \in Deliveries
      /\ push[h].pc = "checked" /\ push[h].job # Null
      /\ latest \in [Branches -> Deliveries \cup {Null}]
      /\ latest' = [latest EXCEPT ![b] = push[h].delivery]
    BY DEF PushUpdate, Record, TypeInv, TypeOK, IntakeTypeOK, PushTypeOK, PushBranch
<1>3. UNCHANGED <<Slot, Taken>>
    <2>1. \A k \in Jobs : /\ jobs'[k].branch = jobs[k].branch /\ jobs'[k].status = jobs[k].status
                          /\ LeftQueue(k) => jobs'[k] = jobs[k]
        BY <1>1 DEF UpdateJobCommitSHA, LeftQueue, JobRow, TypeInv, TypeOK, StoreTypeOK
    <2>2. \A k \in Jobs : LeftQueue(k)' <=> LeftQueue(k)
        BY <2>1 DEF LeftQueue
    <2> QED
        BY <2>1, <2>2, QueueKeeps
<1>4. Last' = [Last EXCEPT ![b] = c]
    BY <1>2, NullAssumption DEF Last, PushCommit
<1>5. CASE jobs[j].status = "queued"
    <2>1. Slot[b] # Null
        BY <1>1, <1>2, <1>5, SlotHolds, NullAssumption DEF IntakeInv, QueuedOn, InStatus
    <2> QED
        BY <1>3, <1>4, <2>1 DEF Slot, Last, Taken, Queue!Replace
<1>6. CASE jobs[j].status # "queued"
    <2>1. QueuedOn(b) = {}
        BY <1>1, <1>2, <1>6 DEF IntakeInv, CheckCurrent, QueuedOn, InStatus
    <2>2. Slot[b] = Null
        BY <1>2, <2>1, SlotHolds DEF IntakeInv
    <2>3. LeftQueue(j)
        BY <1>1, <1>6 DEF LeftQueue
    <2>4. latest[b] # Null /\ jobs[j].commit = CommitOf[latest[b]]
        BY <1>1, <1>2, <1>6 DEF IntakeInv, StaleIsLatest
    <2>5. \E t \in Taken : t.branch = b /\ t.commit = Last[b]
        <3>1. Last[b] = jobs[j].commit
            BY <2>4 DEF Last
        <3>2. [job |-> j, branch |-> jobs[j].branch, commit |-> jobs[j].commit] \in Taken
            BY <2>3 DEF Taken
        <3> QED
            BY <1>1, <3>1, <3>2
    <2> QED
        BY <1>3, <1>4, <2>2, <2>5 DEF Slot, Last, Taken, Queue!Miss
<1> QED
    BY <1>5, <1>6

\* A job that begins, or ends before it began, is taken with the last push of its branch.
LEMMA QueueTake ==
    ASSUME TypeInv, IntakeInv, IntakeInv', UNCHANGED latest, NEW j \in Jobs,
           jobs[j].status = "queued", LeftQueue(j)', OthersKeep(j),
           NEW b \in Branches, jobs[j].branch = b, jobs'[j].branch = b, jobs'[j].commit = jobs[j].commit
    PROVE  Queue!Take(b)
<1>1. latest[b] # Null /\ jobs[j].commit = CommitOf[latest[b]]
    BY DEF IntakeInv, QueuedCarriesLatest, InStatus
<1>2. j \in QueuedOn(b) /\ QueuedOn(b)' = {} /\ \A q \in Branches \ {b} : QueuedOn(q)' = QueuedOn(q)
    BY DEF QueuedOn, InStatus, IntakeInv, AtMostOneQueued, OthersKeep, Keeps, LeftQueue
<1>3. Slot[b] = j /\ Slot'[b] = Null
    BY <1>1, <1>2, SlotHolds, SlotHoldsNext DEF IntakeInv
<1>4. Slot' = [Slot EXCEPT ![b] = Null]
    BY <1>1, <1>2, <1>3 DEF Slot
<1>5. UNCHANGED Last /\ Last[b] = jobs[j].commit
    BY <1>1 DEF Last
<1>6. Taken' = Taken \cup {[job |-> j, branch |-> b, commit |-> jobs[j].commit]}
    <2>1. \A k \in Jobs \ {j} : jobs'[k] = jobs[k] /\ (LeftQueue(k)' <=> LeftQueue(k))
        BY DEF OthersKeep, Keeps, LeftQueue
    <2>2. {k \in Jobs : LeftQueue(k)}' = {k \in Jobs : LeftQueue(k)} \cup {j}
        BY <2>1
    <2>3. ~LeftQueue(j)
        BY DEF LeftQueue
    <2> QED
        BY <2>1, <2>2, <2>3 DEF Taken
<1>7. Slot[b] # Null
    BY <1>3, NullAssumption
<1> QED
    BY <1>3, <1>4, <1>5, <1>6, <1>7 DEF Slot, Last, Taken, Queue!Take

\* Every step of the job system is a step of the queues, or none.
LEMMA QueueStep ==
    ASSUME TypeInv, ExecInv, IntakeInv, IntakeInv', [Next]_vars
    PROVE  [Queue!Next]_(Queue!vars)
<1>0. jobs \in [Jobs -> JobRow]
    BY DEF TypeInv, TypeOK, StoreTypeOK
<1>1. CASE UNCHANGED <<jobs, latest>>
    BY <1>1 DEF QueuedOn, InStatus, LeftQueue, Queue!vars
<1>2. CASE IntakeStep
    <2>1. UNCHANGED <<jobs, latest>> \/ \E h \in Handlers : PushUpdate(h) \/ PushCreate(h)
        BY <1>2 DEF IntakeStep, IntakeNext, PushStep, PushBegin, PushCheck, PushDuplicate, PushEnqueue, PushAbort
    <2>2. ASSUME NEW h \in Handlers, PushUpdate(h) \/ PushCreate(h)
          PROVE  \E b \in Branches, c \in Commits : b = PushBranch(h) /\ c = PushCommit(h)
        BY <2>2, IntakeAssumption DEF PushUpdate, PushCreate, TypeInv, TypeOK, IntakeTypeOK, PushTypeOK, PushBranch,
            PushCommit
    <2>3. ASSUME NEW h \in Handlers, PushUpdate(h) PROVE Queue!Next
        BY <2>2, <2>3, QueueUpdate DEF Queue!Next
    <2>4. ASSUME NEW h \in Handlers, PushCreate(h) PROVE Queue!Next
        BY <2>2, <2>4, QueueOpen DEF Queue!Next
    <2> QED
        BY <1>1, <2>1, <2>3, <2>4
<1>3. CASE ExecStep
    <2>1. UNCHANGED latest
        BY <1>3 DEF ExecStep, intakeVars
    <2>2. ASSUME UNCHANGED <<Slot, Taken>> PROVE UNCHANGED Queue!vars
        BY <2>1, <2>2 DEF Slot, Last, Taken, Queue!vars
    <2>3. CASE \A j \in Jobs : Keeps(j) \/ Ages(j) \/ Expires(j)
        <3>1. \A j \in Jobs :
                  /\ jobs'[j].branch = jobs[j].branch /\ jobs'[j].commit = jobs[j].commit
                  /\ jobs'[j].status = "queued" <=> jobs[j].status = "queued"
                  /\ LeftQueue(j)' <=> LeftQueue(j)
            BY <1>0, <2>3 DEF Keeps, Ages, Expires, Ends, LeftQueue, JobRow
        <3> QED
            BY <2>2, <3>1, QueueKeeps
    <2>4. ASSUME NEW j \in Jobs, Begins(j) \/ Ends(j), OthersKeep(j)
          PROVE  [Queue!Next]_(Queue!vars)
        <3>1. LeftQueue(j)' /\ jobs'[j].branch = jobs[j].branch /\ jobs'[j].commit = jobs[j].commit
            BY <1>0, <2>4 DEF Begins, Ends, LeftQueue, JobRow
        <3>2. CASE jobs[j].status = "queued"
            <4>1. PICK b \in Branches : b = jobs[j].branch
                BY <3>2 DEF TypeInv, RowsComplete
            <4>2. Queue!Take(b)
                BY <2>1, <2>4, <3>1, <3>2, <4>1, QueueTake
            <4> QED
                BY <4>1, <4>2 DEF Queue!Next
        <3>3. CASE jobs[j].status = "running"
            BY <2>3, <2>4, <3>3 DEF OthersKeep, Begins, Expires
        <3> QED
            BY <2>4, <3>2, <3>3 DEF Begins, Ends
    <2> QED
        BY <1>3, <2>3, <2>4, ExecMoves
<1> QED
    BY <1>1, <1>2, <1>3 DEF Next, vars

\* HandlePush and those who take jobs make each branch a queue of one place.
THEOREM BranchQueueImplemented == Spec => ImplementsBranchQueue
<1>1. TypeInv /\ ExecInv /\ IntakeInv /\ IntakeInv' /\ [Next]_vars => [Queue!Next]_(Queue!vars)
    BY QueueStep
<1> QED
    BY <1>1, QueueInit, TypeCorrect, ExecCorrect, IntakeCorrect, PTL DEF Spec, ImplementsBranchQueue, Queue!Spec

-----------------------------------------------------------------------------
(* The order of pushes.  A job that is queued carries the last push of its *)
(* branch, and it was queued by a push that came after those of all jobs   *)
(* of the branch that have left the queue.                                 *)

Superseded(k) ==
    \E p, q \in DOMAIN applied :
        p < q /\ IsPushOf(applied[p], jobs[k]) /\ BranchOf[applied[q]] = jobs[k].branch

SameBranch(j, k) == jobs[j].branch = jobs[k].branch

Recorded ==
    \A k \in Jobs : jobs[k].status # "none" => \E p \in DOMAIN applied : IsPushOf(applied[p], jobs[k])

LatestIsLast ==
    \A b \in Branches : latest[b] # Null =>
        \E q \in DOMAIN applied :
            /\ applied[q] = latest[b] /\ BranchOf[applied[q]] = b
            /\ \A p \in DOMAIN applied : BranchOf[applied[p]] = b => p <= q

QueuedBehind ==
    \A j, k \in Jobs :
        jobs[j].status = "queued" /\ LeftQueue(k) /\ SameBranch(j, k) => Superseded(k)

HistoryInv == Recorded /\ LatestIsLast /\ QueuedBehind

\* The history of pushes only grows.
LEMMA HistoryGrows ==
    ASSUME TypeInv, [Next]_vars
    PROVE  \A p \in DOMAIN applied : p \in DOMAIN applied' /\ applied'[p] = applied[p]
<1>1. applied \in Seq(Deliveries) /\ \A h \in Handlers : push[h].pc # "idle" => push[h].delivery \in Deliveries
    BY DEF TypeInv, TypeOK, IntakeTypeOK, PushTypeOK
<1>2. ASSUME NEW d \in Deliveries, applied' = Append(applied, d)
      PROVE  \A p \in DOMAIN applied : p \in DOMAIN applied' /\ applied'[p] = applied[p]
    BY <1>1, <1>2
<1>3. ASSUME NEW h \in Handlers, PushUpdate(h) \/ PushCreate(h)
      PROVE  \E d \in Deliveries : applied' = Append(applied, d)
    BY <1>1, <1>3 DEF PushUpdate, PushCreate, Record
<1>4. UNCHANGED applied \/ \E h \in Handlers : PushUpdate(h) \/ PushCreate(h)
    BY DEF Next, vars, ExecStep, intakeVars, IntakeStep, IntakeNext, PushStep, PushBegin, PushCheck,
        PushDuplicate, PushEnqueue, PushAbort
<1> QED
    BY <1>2, <1>3, <1>4

\* What is superseded, or pushed before another job, remains so.
LEMMA OrderStable ==
    ASSUME TypeInv, [Next]_vars, NEW k \in Jobs,
           jobs'[k].branch = jobs[k].branch, jobs'[k].commit = jobs[k].commit
    PROVE  /\ Superseded(k) => Superseded(k)'
           /\ \A j \in Jobs : jobs'[j].branch = jobs[j].branch /\ jobs'[j].commit = jobs[j].commit
                  => (PushedBefore(jobs[k], jobs[j]) => PushedBefore(jobs[k], jobs[j])')
BY HistoryGrows DEF Superseded, PushedBefore, IsPushOf

\* A queued job of which a branch has seen a later push than of another job carries one.
LEMMA QueuedAhead ==
    ASSUME TypeInv, IntakeInv, Recorded, LatestIsLast, NEW j \in Jobs, NEW k \in Jobs,
           jobs[j].status = "queued", SameBranch(k, j), Superseded(k)
    PROVE  PushedBefore(jobs[k], jobs[j])
<1> DEFINE b == jobs[j].branch
<1>1. /\ b \in Branches /\ latest[b] # Null
      /\ jobs[j].commit = CommitOf[latest[b]]
    BY DEF TypeInv, TypeOK, StoreTypeOK, JobRow, RowsComplete, IntakeInv, QueuedCarriesLatest, InStatus
<1>2. PICK p, q \in DOMAIN applied :
          p < q /\ IsPushOf(applied[p], jobs[k]) /\ BranchOf[applied[q]] = b
    BY DEF Superseded, SameBranch
<1>3. PICK n \in DOMAIN applied :
          /\ applied[n] = latest[b] /\ BranchOf[applied[n]] = b
          /\ \A i \in DOMAIN applied : BranchOf[applied[i]] = b => i <= n
    BY <1>1 DEF LatestIsLast
<1>4. p < n
    <2>1. p \in Nat /\ q \in Nat /\ n \in Nat
        BY DEF TypeInv, TypeOK, IntakeTypeOK
    <2> QED
        BY <1>2, <1>3, <2>1
<1> QED
    BY <1>1, <1>2, <1>3, <1>4 DEF PushedBefore, IsPushOf

\* A push records itself, and a job that it creates is behind it.
LEMMA HistoryIntake ==
    ASSUME TypeInv, ExecInv, IntakeInv, HistoryInv, IntakeStep
    PROVE  HistoryInv'
<1>0. /\ jobs \in [Jobs -> JobRow] /\ applied \in Seq(Deliveries)
      /\ latest \in [Branches -> Deliveries \cup {Null}] /\ push \in [Handlers -> Push]
      /\ \A h \in Handlers : push[h].pc # "idle" => push[h].delivery \in Deliveries
    BY DEF TypeInv, TypeOK, StoreTypeOK, IntakeTypeOK, PushTypeOK
<1>1. [Next]_vars
    BY DEF Next
\* Jobs that have left the queue stay as they are.
<1>2. \A k \in Jobs : LeftQueue(k) \/ LeftQueue(k)' => jobs'[k] = jobs[k]
    <2> TAKE k \in Jobs
    <2>1. Keeps(k) \/ Retargets(k) \/ Appears(k)
        BY IntakeTransitions
    <2> QED
        BY <1>0, <2>1 DEF Keeps, Retargets, Appears, LeftQueue, JobRow
<1>4. ASSUME UNCHANGED <<jobs, latest, applied>> PROVE HistoryInv'
    BY <1>4 DEF HistoryInv, Recorded, LatestIsLast, QueuedBehind, Superseded, SameBranch, LeftQueue
\* The push that is recorded is the last one of its branch.
<1>5. ASSUME NEW h \in Handlers, Record(h), push[h].delivery \in Deliveries
      PROVE  /\ LatestIsLast'
             /\ \E n \in DOMAIN applied' : applied'[n] = push[h].delivery /\ \A p \in DOMAIN applied : p < n
    <2> DEFINE d == push[h].delivery
               n == Len(applied) + 1
    <2>1. applied' = Append(applied, d) /\ latest' = [latest EXCEPT ![BranchOf[d]] = d]
        BY <1>5 DEF Record, PushBranch
    <2>2. d \in Deliveries /\ BranchOf[d] \in Branches
        BY <1>5, IntakeAssumption
    <2> HIDE DEF d
    <2>3. /\ DOMAIN applied' = DOMAIN applied \cup {n} /\ n \in Nat
          /\ applied'[n] = d
          /\ \A p \in DOMAIN applied : p < n /\ applied'[p] = applied[p]
        BY <1>0, <2>1, <2>2
    <2>4. latest'[BranchOf[d]] = d /\ \A b \in Branches \ {BranchOf[d]} : latest'[b] = latest[b]
        BY <1>0, <2>1, <2>2
    <2>5. LatestIsLast'
        <3> SUFFICES ASSUME NEW b \in Branches, latest'[b] # Null
                     PROVE  \E q \in DOMAIN applied' :
                                /\ applied'[q] = latest'[b] /\ BranchOf[applied'[q]] = b
                                /\ \A p \in DOMAIN applied' : BranchOf[applied'[p]] = b => p <= q
            BY DEF LatestIsLast
        <3>1. CASE b = BranchOf[d]
            <4>1. \A p \in DOMAIN applied' : p <= n
                BY <1>0, <2>3
            <4> QED
                BY <2>3, <2>4, <3>1, <4>1
        <3>2. CASE b # BranchOf[d]
            <4>1. PICK q \in DOMAIN applied :
                      /\ applied[q] = latest[b] /\ BranchOf[applied[q]] = b
                      /\ \A p \in DOMAIN applied : BranchOf[applied[p]] = b => p <= q
                BY <2>4, <3>2 DEF HistoryInv, LatestIsLast
            <4> QED
                BY <2>3, <2>4, <3>2, <4>1
        <3> QED
            BY <3>1, <3>2
    <2> QED
        BY <2>3, <2>5 DEF d
<1>6. ASSUME NEW h \in Handlers, PushUpdate(h) PROVE HistoryInv'
    <2>1. /\ push[h].pc = "checked" /\ push[h].job # Null /\ Record(h)
          /\ push[h].delivery \in Deliveries /\ push[h].job \in Jobs
          /\ jobs' = UpdateJobCommitSHA(push[h].job, PushCommit(h))
        BY <1>0, <1>6 DEF PushUpdate, Push
    <2>2. PICK n \in DOMAIN applied' : applied'[n] = push[h].delivery
        BY <1>5, <2>1
    <2>3. jobs[push[h].job].branch = PushBranch(h)
        BY <2>1 DEF IntakeInv, FoundOnBranch
    <2>4. \A k \in Jobs :
              /\ jobs'[k].status = jobs[k].status /\ jobs'[k].branch = jobs[k].branch
              /\ jobs'[k].commit = jobs[k].commit \/ (k = push[h].job /\ jobs'[k].commit = PushCommit(h))
        BY <1>0, <2>1 DEF UpdateJobCommitSHA, JobRow
    <2>5. Recorded'
        <3> SUFFICES ASSUME NEW k \in Jobs, jobs'[k].status # "none"
                     PROVE  \E p \in DOMAIN applied' : IsPushOf(applied'[p], jobs'[k])
            BY DEF Recorded, IsPushOf
        <3>1. CASE jobs'[k].commit = jobs[k].commit
            BY <1>1, <2>4, <3>1, HistoryGrows DEF HistoryInv, Recorded, IsPushOf
        <3>2. CASE k = push[h].job /\ jobs'[k].commit = PushCommit(h)
            BY <2>2, <2>3, <2>4, <3>2 DEF IsPushOf, PushBranch, PushCommit
        <3> QED
            BY <2>4, <3>1, <3>2
    <2>6. QueuedBehind'
        <3> SUFFICES ASSUME NEW j \in Jobs, NEW k \in Jobs, jobs'[j].status = "queued",
                            LeftQueue(k)', SameBranch(j, k)'
                     PROVE  Superseded(k)'
            BY DEF QueuedBehind
        <3>1. Superseded(k)
            BY <2>4 DEF HistoryInv, QueuedBehind, SameBranch, LeftQueue
        <3>2. jobs'[k] = jobs[k]
            BY <1>2
        <3> QED
            BY <1>1, <3>1, <3>2, OrderStable
    <2> QED
        BY <1>5, <2>1, <2>5, <2>6 DEF HistoryInv
<1>7. ASSUME NEW h \in Handlers, PushCreate(h) PROVE HistoryInv'
    <2>1. /\ Record(h) /\ push[h].delivery \in Deliveries
        BY <1>0, <1>7 DEF PushCreate
    <2>2. PICK i \in Jobs : jobs[i].status = "none"
              /\ jobs' = CreateJob(i, PushBranch(h), PushCommit(h), DeliveryId(h), push[h].begun)
        BY <1>7 DEF PushCreate, InStatus
    <2>3. PICK n \in DOMAIN applied' : applied'[n] = push[h].delivery /\ \A p \in DOMAIN applied : p < n
        BY <1>5, <2>1
    <2>4. /\ jobs'[i].status = "queued" /\ jobs'[i].branch = PushBranch(h) /\ jobs'[i].commit = PushCommit(h)
          /\ \A k \in Jobs \ {i} : jobs'[k] = jobs[k]
        BY <1>0, <2>2 DEF CreateJob
    <2>5. Recorded'
        <3> SUFFICES ASSUME NEW k \in Jobs, jobs'[k].status # "none"
                     PROVE  \E p \in DOMAIN applied' : IsPushOf(applied'[p], jobs'[k])
            BY DEF Recorded, IsPushOf
        <3>1. CASE k = i
            BY <2>3, <2>4, <3>1 DEF IsPushOf, PushBranch, PushCommit
        <3>2. CASE k # i
            BY <1>1, <2>4, <3>2, HistoryGrows DEF HistoryInv, Recorded, IsPushOf
        <3> QED
            BY <3>1, <3>2
    <2>6. QueuedBehind'
        <3> SUFFICES ASSUME NEW j \in Jobs, NEW k \in Jobs, jobs'[j].status = "queued",
                            LeftQueue(k)', SameBranch(j, k)'
                     PROVE  Superseded(k)'
            BY DEF QueuedBehind
        <3>1. k # i /\ jobs'[k] = jobs[k] /\ LeftQueue(k)
            BY <2>4 DEF LeftQueue
        <3>2. CASE j # i
            BY <1>1, <2>4, <3>1, <3>2, OrderStable DEF HistoryInv, QueuedBehind, SameBranch
        <3>3. CASE j = i
            <4>1. PICK p \in DOMAIN applied : IsPushOf(applied[p], jobs[k])
                BY <3>1 DEF HistoryInv, Recorded, LeftQueue
            <4>2. p \in DOMAIN applied' /\ applied'[p] = applied[p] /\ p < n
                BY <1>1, <2>3, HistoryGrows
            <4>3. BranchOf[applied'[n]] = jobs'[k].branch
                BY <2>3, <2>4, <3>3 DEF SameBranch, PushBranch
            <4> QED
                BY <3>1, <4>1, <4>2, <4>3 DEF Superseded
        <3> QED
            BY <3>2, <3>3
    <2> QED
        BY <1>5, <2>1, <2>5, <2>6 DEF HistoryInv
<1>8. UNCHANGED <<jobs, latest, applied>> \/ \E h \in Handlers : PushUpdate(h) \/ PushCreate(h)
    BY DEF IntakeStep, IntakeNext, PushStep, PushBegin, PushCheck, PushDuplicate, PushEnqueue, PushAbort
<1> QED
    BY <1>4, <1>6, <1>7, <1>8

\* Other steps take jobs out of the queue, one per branch: the one that is there.
LEMMA HistoryExec ==
    ASSUME TypeInv, ExecInv, IntakeInv, HistoryInv, ExecStep
    PROVE  HistoryInv'
<1>1. UNCHANGED <<latest, applied>> /\ [Next]_vars /\ jobs \in [Jobs -> JobRow]
    BY DEF ExecStep, intakeVars, Next, TypeInv, TypeOK, StoreTypeOK
<1>2. \A k \in Jobs : /\ jobs'[k].branch = jobs[k].branch /\ jobs'[k].commit = jobs[k].commit
                      /\ jobs'[k].status = "queued" => jobs[k].status = "queued"
    BY ExecRows
<1>3. \A k \in Jobs : jobs'[k].status # "none" => jobs[k].status # "none"
    <2> TAKE k \in Jobs
    <2>1. Keeps(k) \/ Ages(k) \/ Begins(k) \/ Ends(k)
        BY ExecTransitions
    <2> QED
        BY <1>1, <2>1 DEF Keeps, Ages, Begins, Ends, JobRow
<1>4. Recorded' /\ LatestIsLast'
    BY <1>1, <1>2, <1>3 DEF HistoryInv, Recorded, LatestIsLast, IsPushOf
<1>5. QueuedBehind'
    <2> SUFFICES ASSUME NEW j \in Jobs, NEW k \in Jobs, jobs'[j].status = "queued",
                        LeftQueue(k)', SameBranch(j, k)'
                 PROVE  Superseded(k)'
        BY DEF QueuedBehind
    <2>1. jobs[j].status = "queued" /\ SameBranch(j, k) /\ j # k
        BY <1>2 DEF SameBranch, LeftQueue
    <2>2. LeftQueue(k)
        BY <1>3, <2>1 DEF IntakeInv, AtMostOneQueued, InStatus, SameBranch, LeftQueue
    <2> QED
        BY <1>1, <1>2, <2>1, <2>2, OrderStable DEF HistoryInv, QueuedBehind
<1> QED
    BY <1>4, <1>5 DEF HistoryInv

\* The order of pushes holds in every state.
THEOREM HistoryCorrect == Spec => []HistoryInv
<1>1. Init => HistoryInv
    BY DEF Init, StoreInit, IntakeInit, NoRow, HistoryInv, Recorded, LatestIsLast, QueuedBehind
<1>2. TypeInv /\ ExecInv /\ IntakeInv /\ HistoryInv /\ [Next]_vars => HistoryInv'
    <2>1. CASE UNCHANGED vars
        BY <2>1 DEF vars, HistoryInv, Recorded, LatestIsLast, QueuedBehind, Superseded, SameBranch, LeftQueue
    <2> QED
        BY <2>1, HistoryIntake, HistoryExec DEF Next
<1> QED
    BY <1>1, <1>2, TypeCorrect, ExecCorrect, IntakeCorrect, PTL DEF Spec

\* Jobs of one branch start in the order of the pushes they build, with any number of
\* workers and attempts and all faults.
THEOREM StartsInOrder == Spec => JobsStartInOrder
<1>1. TypeInv /\ IntakeInv /\ HistoryInv =>
          \A j, k \in Jobs :
              jobs[j].status = "queued" /\ LeftQueue(k) /\ jobs[k].branch = jobs[j].branch
                  => PushedBefore(jobs[k], jobs[j])
    BY QueuedAhead DEF HistoryInv, QueuedBehind, SameBranch
<1>2. TypeInv /\ IntakeInv /\ HistoryInv =>
          [\A j, k \in Jobs :
               /\ jobs[j].status = "queued" /\ jobs'[j].status = "running"
               /\ LeftQueue(k) /\ jobs[k].branch = jobs[j].branch
               => PushedBefore(jobs[k], jobs[j])]_vars
    BY <1>1
<1> QED
    BY <1>2, TypeCorrect, IntakeCorrect, HistoryCorrect, PTL DEF Spec, JobsStartInOrder

-----------------------------------------------------------------------------
(* The order of snapshots.  With one slot and no retries, an execution     *)
(* begins with a job taken from the queue, which is behind all jobs of its *)
(* branch that have succeeded, and remains so while it runs.               *)

\* A task that is to be attempted is that of a job nobody has touched.
Fresh(j) == jobs[j].status = "queued" /\ \A w \in Workers : exec[w].pc # "idle" => exec[w].job # j

FreshTasks ==
    ~PollMode =>
        /\ \A j \in Jobs : attempts[j] > 0 => Fresh(j)
        /\ \A h \in Handlers : push[h].pc = "enqueue" =>
               /\ Fresh(push[h].job) /\ attempts[push[h].job] = 0
               /\ \A g \in Handlers : push[g].pc = "enqueue" /\ push[g].job = push[h].job => g = h

RunsAhead ==
    \A w \in Workers, k \in Jobs :
        /\ exec[w].pc # "idle" /\ jobs[exec[w].job].status = "running"
        /\ jobs[k].status = "succeeded" /\ SameBranch(k, exec[w].job)
        => PushedBefore(jobs[k], jobs[exec[w].job])

OrderInv == FreshTasks /\ RunsAhead

\* A push leaves the jobs that have left the queue as they are.
LEMMA OrderIntake ==
    ASSUME TypeInv, ExecInv, RunsAhead, IntakeStep PROVE RunsAhead'
<1>1. \A w \in Workers : exec[w].pc # "idle" => exec[w].job \in Jobs /\ jobs[exec[w].job].status # "none"
    BY DEF TypeInv, TypeOK, ExecTypeOK, ExecRefers
<1>2. [Next]_vars /\ UNCHANGED exec /\ jobs \in [Jobs -> JobRow]
    BY DEF Next, IntakeStep, execVars, TypeInv, TypeOK, StoreTypeOK
<1>3. \A k \in Jobs : LeftQueue(k) \/ LeftQueue(k)' => jobs'[k] = jobs[k]
    <2> TAKE k \in Jobs
    <2>1. Keeps(k) \/ Retargets(k) \/ Appears(k)
        BY IntakeTransitions
    <2> QED
        BY <1>2, <2>1 DEF Keeps, Retargets, Appears, LeftQueue, JobRow
<1> QED
    BY <1>1, <1>2, <1>3, OrderStable DEF RunsAhead, SameBranch, LeftQueue

\* What an execution does, with one slot, keeps the order.
LEMMA OrderExec ==
    ASSUME TypeInv, ExecInv, IntakeInv, HistoryInv, OrderInv, ExecStep, \A w, v \in Workers : w = v
    PROVE  RunsAhead'
<1>0. /\ jobs \in [Jobs -> JobRow] /\ exec \in [Workers -> Exec]
      /\ \A w \in Workers : exec[w].pc # "idle" => exec[w].job \in Jobs
      /\ \A w \in Workers : exec'[w].pc # "idle" => exec'[w].job \in Jobs
    BY TypeInvExec DEF TypeInv, TypeOK, StoreTypeOK, ExecTypeOK
<1>1. UNCHANGED <<latest, applied>> /\ [Next]_vars
    BY DEF ExecStep, intakeVars, Next
<1>2. \A k \in Jobs : /\ jobs'[k].branch = jobs[k].branch /\ jobs'[k].commit = jobs[k].commit
                      /\ jobs'[k].status = "queued" => jobs[k].status = "queued"
    BY ExecRows
<1>3. \A k \in Jobs :
          /\ jobs'[k].status \in {"running", "succeeded"} => jobs[k].status \in {"queued", "running", "succeeded"}
          /\ jobs'[k].status = "running" => jobs[k].status \in {"queued", "running"}
          /\ jobs'[k].status # "none" => jobs[k].status # "none"
    <2> TAKE k \in Jobs
    <2>1. Keeps(k) \/ Ages(k) \/ Begins(k) \/ Ends(k)
        BY ExecTransitions
    <2> QED
        BY <1>0, <2>1 DEF Keeps, Ages, Begins, Ends, JobRow
\* An execution goes on with its job, or begins with a queued one.
<1>6. \A w \in Workers : exec'[w].pc # "idle" =>
          \/ exec[w].pc # "idle" /\ exec'[w].job = exec[w].job
          \/ exec[w].pc = "idle" /\ jobs[exec'[w].job].status = "queued"
    <2>1. ASSUME NEW w \in Workers, WorkerStep(w)
          PROVE  \A v \in Workers : exec'[v].pc # "idle" => exec[v].pc # "idle" /\ exec'[v].job = exec[v].job
        BY <1>0, <2>1 DEF WorkerStep, ClaimedRepo, ClaimedRepoFails, CallStart, CallStartFails, RunAndUpload,
            RunFails, CallComplete, Report, WorkerDies, Goto, Free, IdleSlot, Exec
    <2>2. ASSUME NEW w \in Workers, NEW j \in Jobs, Deliver(w, j)
          PROVE  /\ exec[w].pc = "idle" /\ exec'[w].job = j /\ jobs[j].status = "queued"
                 /\ \A v \in Workers \ {w} : exec'[v] = exec[v]
        BY <1>0, <2>2 DEF Deliver, Attempt, OrderInv, FreshTasks, Fresh
    <2>3. ASSUME NEW w \in Workers, Claim(w, RowsBeingUpdated)
          PROVE  /\ exec[w].pc = "idle" /\ jobs[exec'[w].job].status = "queued"
                 /\ \A v \in Workers \ {w} : exec'[v] = exec[v]
        BY <1>0, <2>3 DEF Claim, ClaimableJobs, InStatus
    <2>4. UNCHANGED exec \/ (\E w \in Workers : WorkerStep(w) \/ Claim(w, RowsBeingUpdated) \/ \E j \in Jobs : Deliver(w, j))
        BY DEF ExecStep, ExecNext, Timeout, Tick, DeliverFails
    <2> TAKE w \in Workers
    <2> HAVE exec'[w].pc # "idle"
    <2>5. CASE UNCHANGED exec
        BY <2>5
    <2>6. ASSUME NEW v \in Workers, WorkerStep(v)
          PROVE  exec[w].pc # "idle" /\ exec'[w].job = exec[w].job
        BY <2>1, <2>6
    <2>7. ASSUME NEW v \in Workers, Claim(v, RowsBeingUpdated) \/ \E j \in Jobs : Deliver(v, j)
          PROVE  exec[w].pc = "idle" /\ jobs[exec'[w].job].status = "queued"
        BY <2>2, <2>3, <2>7
    <2> QED
        BY <2>4, <2>5, <2>6, <2>7
<1>7. RunsAhead'
    <2> SUFFICES ASSUME NEW w \in Workers, NEW j \in Jobs, NEW k \in Jobs,
                        exec'[w].pc # "idle", j = exec'[w].job, jobs'[j].status = "running",
                        jobs'[k].status = "succeeded", SameBranch(k, j)'
                 PROVE  PushedBefore(jobs[k], jobs[j])'
        <3>1. \A w \in Workers, k \in Jobs :
                  /\ exec'[w].pc # "idle" /\ jobs'[exec'[w].job].status = "running"
                  /\ jobs'[k].status = "succeeded" /\ SameBranch(k, exec[w].job)'
                  => PushedBefore(jobs[k], jobs[exec[w].job])'
            BY <1>0 DEF SameBranch, PushedBefore
        <3> QED
            BY <3>1 DEF RunsAhead
    <2>1. SameBranch(k, j) /\ SameBranch(j, k)
        BY <1>2 DEF SameBranch
    <2>2. PushedBefore(jobs[k], jobs[j]) => PushedBefore(jobs[k], jobs[j])'
        BY <1>1, <1>2, OrderStable
    <2>3. jobs[k].status = "succeeded"
        <3>1. CASE Unpublished
            BY <3>1 DEF Unpublished
        <3>2. ASSUME NEW v \in Workers, Publishes(v), jobs[k].status # "succeeded" PROVE FALSE
            <4>1. v = w /\ exec[w].pc = "succeeding"
                BY <3>2 DEF Publishes
            <4>2. j = exec[w].job
                BY <1>6, <4>1
            <4>3. jobs'[j].status = "succeeded"
                BY <1>0, <3>2, <4>1, <4>2 DEF Publishes, UpdateJobStatus
            <4> QED
                BY <4>3
        <3> QED
            BY <1>1, <3>1, <3>2, PublishOrNot
    <2>4. CASE jobs[j].status = "queued"
        BY <2>1, <2>2, <2>3, <2>4, QueuedAhead DEF HistoryInv, QueuedBehind, LeftQueue
    <2>5. CASE jobs[j].status = "running"
        BY <1>6, <2>1, <2>2, <2>3, <2>5 DEF OrderInv, RunsAhead
    <2> QED
        BY <1>3, <2>4, <2>5
<1> QED
    BY <1>7


\* A push enqueues the task of the job that it created, and nobody has touched it.
LEMMA FreshIntake ==
    ASSUME TypeInv, FreshTasks, ~PollMode, IntakeStep PROVE FreshTasks'
<1>0. /\ jobs \in [Jobs -> JobRow] /\ push \in [Handlers -> Push]
      /\ attempts \in [Jobs -> 0 .. MaxAttempts] /\ MaxAttempts \in Nat \ {0}
      /\ \A g \in Handlers : push[g].pc = "enqueue" => push[g].job \in Jobs /\ jobs[push[g].job].status # "none"
      /\ \A w \in Workers : exec[w].pc # "idle" => jobs[exec[w].job].status # "none"
      /\ \A j \in Jobs : attempts[j] > 0 => jobs[j].status # "none"
    BY DispatchAssumption DEF TypeInv, TypeOK, StoreTypeOK, DispatchTypeOK, IntakeTypeOK, PushTypeOK, PushRefers,
        ExecRefers, TaskRefers
<1>1. PICK h \in Handlers : PushStep(h) \/ PushEnqueue(h)
    BY DEF IntakeStep, IntakeNext
<1>2. /\ UNCHANGED exec
      /\ \A g \in Handlers \ {h} : push'[g] = push[g]
    BY <1>0, <1>1 DEF IntakeStep, execVars, PushStep, PushBegin, PushCheck, PushUpdate, PushCreate,
        PushDuplicate, PushEnqueue, PushAbort, Return
<1>3. CASE PushEnqueue(h)
    <2>1. /\ jobs' = jobs /\ push[h].pc = "enqueue" /\ push'[h].pc = "idle"
          /\ \A j \in Jobs \ {push[h].job} : attempts'[j] = attempts[j]
        BY <1>0, <1>3 DEF PushEnqueue, Enqueue, Return, Waiting
    <2>2. \A j \in Jobs : attempts'[j] > 0 => Fresh(j)'
        BY <1>2, <2>1 DEF FreshTasks, Fresh
    <2>3. \A g \in Handlers : push'[g].pc = "enqueue" =>
              g # h /\ push[g].pc = "enqueue" /\ push'[g].job = push[g].job /\ push[g].job # push[h].job
        BY <1>2, <2>1 DEF FreshTasks
    <2> QED
        BY <1>0, <1>2, <2>1, <2>2, <2>3 DEF FreshTasks, Fresh
<1>4. CASE PushCreate(h)
    <2>1. PICK k \in Jobs :
              /\ jobs[k].status = "none"
              /\ jobs' = CreateJob(k, PushBranch(h), PushCommit(h), DeliveryId(h), push[h].begun)
              /\ push' = [push EXCEPT ![h].pc = "enqueue", ![h].job = k]
        BY <1>4 DEF PushCreate, InStatus
    <2>2. push'[h].pc = "enqueue" /\ push'[h].job = k
        BY <1>0, <2>1 DEF Push
    <2>3. jobs'[k].status = "queued" /\ \A j \in Jobs \ {k} : jobs'[j] = jobs[j]
        BY <1>0, <2>1 DEF CreateJob
    <2>4. UNCHANGED attempts
        BY <1>4 DEF PushCreate
    <2>5. attempts[k] = 0 /\ Fresh(k)'
        BY <1>0, <1>2, <2>1, <2>3 DEF Fresh
    <2>6. \A j \in Jobs : Fresh(j) => j # k /\ Fresh(j)'
        BY <1>2, <2>1, <2>3 DEF Fresh
    <2>7. \A g \in Handlers \ {h} : push'[g].pc = "enqueue" => push[g].pc = "enqueue" /\ push'[g].job # k
        BY <1>0, <1>2, <2>1
    <2>8. \A g \in Handlers : push'[g].pc = "enqueue" =>
              /\ Fresh(push[g].job)' /\ attempts[push'[g].job] = 0
              /\ g # h => push[g].pc = "enqueue" /\ push'[g].job = push[g].job /\ push'[g].job # k
        BY <1>0, <1>2, <2>2, <2>5, <2>6, <2>7 DEF FreshTasks
    <2>9. \A g, f \in Handlers :
              push'[g].pc = "enqueue" /\ push'[f].pc = "enqueue" /\ push'[f].job = push'[g].job => f = g
        BY <2>2, <2>8 DEF FreshTasks
    <2> QED
        BY <2>4, <2>6, <2>8, <2>9 DEF FreshTasks
<1>5. CASE PushStep(h) /\ ~PushCreate(h)
    <2>1. UNCHANGED attempts /\ push'[h].pc # "enqueue"
        BY <1>0, <1>5 DEF PushStep, PushBegin, PushCheck, PushUpdate, PushCreate, PushDuplicate, PushAbort,
            Return, Waiting, Push
    <2>2. \A j \in Jobs : jobs'[j].status = jobs[j].status
        BY <1>0, <1>5 DEF PushStep, PushBegin, PushCheck, PushUpdate, PushDuplicate, PushAbort,
            UpdateJobCommitSHA, JobRow
    <2>3. \A j \in Jobs : Fresh(j) => Fresh(j)'
        BY <1>2, <2>2 DEF Fresh
    <2> QED
        BY <1>0, <1>2, <2>1, <2>3 DEF FreshTasks
<1> QED
    BY <1>1, <1>3, <1>4, <1>5

\* The one attempt of a task uses it up, and an execution touches its own job only.
LEMMA FreshExec ==
    ASSUME TypeInv, FreshTasks, ~PollMode, MaxAttempts = 1, ExecStep PROVE FreshTasks'
<1>0. /\ jobs \in [Jobs -> JobRow] /\ exec \in [Workers -> Exec]
      /\ attempts \in [Jobs -> 0 .. 1]
      /\ \A w \in Workers : exec[w].pc # "idle" => exec[w].job \in Jobs
      /\ \A h \in Handlers : push[h].pc = "enqueue" => push[h].job \in Jobs
    BY DEF TypeInv, TypeOK, StoreTypeOK, DispatchTypeOK, IntakeTypeOK, PushTypeOK, ExecTypeOK
<1>1. UNCHANGED push
    BY DEF ExecStep, intakeVars
<1>2. ASSUME \A j \in Jobs : attempts'[j] \in 0 .. attempts[j],
             \A j \in Jobs : Fresh(j) /\ ~Fresh(j)' =>
                 attempts'[j] = 0 /\ \A h \in Handlers : push[h].pc = "enqueue" => push[h].job # j
      PROVE  FreshTasks'
    <2>1. \A j \in Jobs : attempts'[j] > 0 => attempts[j] > 0 /\ Fresh(j)'
        BY <1>0, <1>2 DEF FreshTasks
    <2>2. ASSUME NEW h \in Handlers, push[h].pc = "enqueue"
          PROVE  attempts'[push[h].job] = 0 /\ Fresh(push[h].job)'
        <3>1. PICK j \in Jobs : j = push[h].job
            BY <1>0, <2>2
        <3>2. attempts[j] = 0 /\ Fresh(j)
            BY <2>2, <3>1 DEF FreshTasks
        <3>3. attempts'[j] = 0
            BY <1>2, <3>2
        <3>4. Fresh(j)'
            BY <1>2, <2>2, <3>1, <3>2
        <3> QED
            BY <1>1, <3>1, <3>3, <3>4
    <2> QED
        BY <1>1, <2>1, <2>2 DEF FreshTasks
<1>3. CASE Timeout \/ Tick
    <2>1. ASSUME NEW j \in Jobs, jobs[j].status = "queued" PROVE jobs'[j] = jobs[j]
        <3>1. CASE Timeout
            <4>1. j \notin Overdue
                BY <2>1 DEF Overdue, InStatus
            <4> QED
                BY <3>1, <4>1, ZenonT(30) DEF Timeout, TimeoutRunningJobs
        <3>2. CASE Tick
            BY <2>1, <3>2 DEF Tick
        <3> QED
            BY <1>3, <3>1, <3>2
    <2>2. UNCHANGED <<attempts, exec>>
        BY <1>3 DEF Timeout, Tick
    <2> QED
        BY <1>0, <1>2, <2>1, <2>2 DEF Fresh
<1>4. ASSUME NEW j \in Jobs, DeliverFails(j) PROVE FreshTasks'
    BY <1>0, <1>2, <1>4 DEF DeliverFails, Attempt, Fresh
<1>5. ASSUME NEW w \in Workers, NEW j \in Jobs, Deliver(w, j) PROVE FreshTasks'
    <2>1. /\ attempts[j] > 0 /\ attempts'[j] = 0
          /\ \A k \in Jobs \ {j} : attempts'[k] = attempts[k]
          /\ jobs' = jobs /\ exec'[w].job = j
          /\ \A v \in Workers \ {w} : exec'[v] = exec[v]
        BY <1>0, <1>5 DEF Deliver, Attempt
    <2>2. \A k \in Jobs \ {j} : Fresh(k) => Fresh(k)'
        BY <2>1 DEF Fresh
    <2>3. \A h \in Handlers : push[h].pc = "enqueue" => push[h].job # j
        BY <2>1 DEF FreshTasks
    <2> QED
        BY <1>0, <1>2, <2>1, <2>2, <2>3
<1>6. ASSUME NEW w \in Workers, WorkerStep(w) PROVE FreshTasks'
    <2>0. PICK i \in Jobs : i = exec[w].job /\ exec[w].pc # "idle"
        BY <1>0, <1>6 DEF WorkerStep, ClaimedRepo, ClaimedRepoFails, CallStart, CallStartFails,
            RunAndUpload, RunFails, CallComplete, Report, WorkerDies
    <2>1. /\ \A v \in Workers \ {w} : exec'[v] = exec[v]
          /\ exec'[w].pc # "idle" => exec'[w].job = i
        BY <1>0, <1>6, <2>0 DEF WorkerStep, ClaimedRepo, ClaimedRepoFails, CallStart, CallStartFails,
            RunAndUpload, RunFails, CallComplete, WorkerDies, Goto, Free, IdleSlot, Exec
    <2>2. \A j \in Jobs : attempts'[j] \in 0 .. attempts[j]
        BY <1>0, <1>6, <2>0 DEF WorkerStep, ClaimedRepo, ClaimedRepoFails, CallStart, CallStartFails,
            RunAndUpload, RunFails, CallComplete, Answer, WorkerDies
    <2>3. \A j \in Jobs \ {i} : jobs'[j] = jobs[j]
        BY <1>0, <1>6, <2>0 DEF WorkerStep, ClaimedRepo, ClaimedRepoFails, CallStart, CallStartFails,
            RunAndUpload, RunFails, CallComplete, Report, Complete, Start, UpdateJobStatus, WorkerDies
    <2>4. \A j \in Jobs : Fresh(j) => Fresh(j)'
        BY <1>0, <2>0, <2>1, <2>3 DEF Fresh
    <2> QED
        BY <1>2, <2>2, <2>4
<1> QED
    BY <1>3, <1>4, <1>5, <1>6 DEF ExecStep, ExecNext, Claim

\* With one slot and no retries the order holds in every state.
Alone == (PollMode \/ MaxAttempts = 1) /\ \A w, v \in Workers : w = v

LEMMA OrderInvInit == Init => OrderInv
BY DEF Init, StoreInit, DispatchInit, IntakeInit, ExecInit, NoRow, Waiting, IdleSlot, OrderInv, FreshTasks,
    Fresh, RunsAhead

\* Every step preserves it.
LEMMA OrderInvStep == Alone /\ TypeInv /\ ExecInv /\ IntakeInv /\ HistoryInv /\ OrderInv /\ [Next]_vars => OrderInv'
<1> SUFFICES ASSUME Alone, TypeInv, ExecInv, IntakeInv, HistoryInv, OrderInv, [Next]_vars PROVE OrderInv'
    OBVIOUS
<1>1. CASE IntakeStep
    <2>1. FreshTasks'
        <3>1. CASE PollMode
            BY <3>1 DEF FreshTasks
        <3>2. CASE ~PollMode
            BY <1>1, <3>2, FreshIntake DEF OrderInv
        <3> QED
            BY <3>1, <3>2
    <2> QED
        BY <1>1, <2>1, OrderIntake DEF OrderInv
<1>2. CASE ExecStep
    <2>1. FreshTasks'
        <3>1. CASE PollMode
            BY <3>1 DEF FreshTasks
        <3>2. CASE ~PollMode
            BY <1>2, <3>2, FreshExec DEF OrderInv, Alone
        <3> QED
            BY <3>1, <3>2
    <2> QED
        BY <1>2, <2>1, OrderExec DEF OrderInv, Alone
<1>3. CASE UNCHANGED vars
    BY <1>3 DEF vars, OrderInv, SameBranch, FreshTasks, Fresh, RunsAhead, PushedBefore
<1> QED
    BY <1>1, <1>2, <1>3 DEF Next

\* A snapshot that takes the place of another is that of a job which ran after it.
LEMMA LatestStep ==
    ASSUME TypeInv, ExecInv, SnapshotsMatchJobs, OrderInv, [Next]_vars, NEW b \in Branches,
           NEW s \in GetLatestSnapshot(b), NEW t \in GetLatestSnapshot(b)', s # t
    PROVE  PushedBefore(s, t)
<1>0. /\ DOMAIN snapshots = 1 .. Len(snapshots) /\ Len(snapshots) \in Nat
      /\ \A i \in DOMAIN snapshots : snapshots[i].job \in Jobs
    <2>1. snapshots \in Seq(SnapshotRow)
        BY DEF TypeInv, TypeOK, StoreTypeOK
    <2>2. \A i \in DOMAIN snapshots : snapshots[i] \in SnapshotRow
        BY <2>1
    <2> QED
        BY <2>1, <2>2 DEF SnapshotRow
<1>1. PICK i \in DOMAIN snapshots :
          /\ s = snapshots[i] /\ snapshots[i].branch = b
          /\ \A n \in DOMAIN snapshots : snapshots[n].branch = b => n <= i
    BY DEF GetLatestSnapshot
<1>2. PICK m \in DOMAIN snapshots' :
          /\ t = snapshots'[m] /\ snapshots'[m].branch = b
          /\ \A n \in DOMAIN snapshots' : snapshots'[n].branch = b => n <= m
    BY DEF GetLatestSnapshot
<1>3. snapshots' # snapshots
    <2>1. ASSUME snapshots' = snapshots PROVE i = m
        BY <1>0, <1>1, <1>2, <2>1
    <2> QED
        BY <1>1, <1>2, <2>1
<1>4. PICK w \in Workers : Publishes(w)
    BY <1>3, PublishOrNot DEF Unpublished
<1> DEFINE j == exec[w].job
           n == Len(snapshots) + 1
<1>5. /\ j \in Jobs /\ jobs[j].status = "running" /\ exec[w].commit \in Commits /\ exec[w].pc # "idle"
    BY <1>4 DEF Publishes, TypeInv, TypeOK, ExecTypeOK
<1>6. /\ DOMAIN snapshots' = DOMAIN snapshots \cup {n}
      /\ snapshots'[n].branch = jobs[j].branch /\ snapshots'[n].commit = jobs[j].commit
      /\ \A k \in DOMAIN snapshots : snapshots'[k] = snapshots[k]
    <2> DEFINE path == exec[w].commit
    <2>1. snapshots' = InsertSnapshot(j, path) /\ path \in Commits /\ j \in Jobs /\ jobs[j].status # "none"
        BY <1>4, <1>5 DEF Publishes
    <2> DEFINE row == [job |-> j, branch |-> jobs[j].branch, commit |-> jobs[j].commit, path |-> path]
    <2>2. row.branch = jobs[j].branch /\ row.commit = jobs[j].commit
        OBVIOUS
    <2> HIDE DEF j, path
    <2>3. /\ DOMAIN snapshots' = DOMAIN snapshots \cup {n}
          /\ snapshots'[n] = row
          /\ \A k \in DOMAIN snapshots : snapshots'[k] = snapshots[k]
        BY <2>1, Inserted
    <2> QED
        BY <2>2, <2>3
<1>7. m = n
    <2>1. ASSUME m \in DOMAIN snapshots PROVE i = m
        BY <1>0, <1>1, <1>2, <1>6, <2>1
    <2> QED
        BY <1>1, <1>2, <1>6, <2>1
<1>8. PICK k \in Jobs : k = s.job /\ jobs[k].status = "succeeded"
                        /\ s.branch = jobs[k].branch /\ s.commit = jobs[k].commit
    BY <1>0, <1>1 DEF SnapshotsMatchJobs
<1>9. SameBranch(k, j)
    BY <1>1, <1>2, <1>6, <1>7, <1>8 DEF SameBranch
<1>10. PushedBefore(jobs[k], jobs[j])
    BY <1>5, <1>8, <1>9 DEF OrderInv, RunsAhead
<1>11. t.branch = jobs[j].branch /\ t.commit = jobs[j].commit
    BY <1>2, <1>6, <1>7
<1> HIDE DEF j, n
<1> QED
    BY <1>8, <1>10, <1>11 DEF PushedBefore, IsPushOf

\* With one execution at a time and no retries the latest snapshot of a branch is only
\* ever replaced by one of a later push.
THEOREM SnapshotsInOrder == Spec => LatestNeverGoesBack
<1>1. Init => (Alone => OrderInv)
    BY OrderInvInit
<1>2. TypeInv /\ ExecInv /\ IntakeInv /\ HistoryInv /\ (Alone => OrderInv) /\ [Next]_vars => (Alone => OrderInv)'
    BY OrderInvStep DEF Alone
<1>3. TypeInv /\ ExecInv /\ SnapshotsMatchJobs /\ (Alone => OrderInv) /\ [Next]_vars =>
          [(PollMode \/ MaxAttempts = 1) /\ (\A w, v \in Workers : w = v) =>
               \A b \in Branches : \A s \in GetLatestSnapshot(b), t \in GetLatestSnapshot(b)' :
                   s # t => PushedBefore(s, t)]_vars
    BY LatestStep DEF Alone
<1> QED
    BY <1>1, <1>2, <1>3, TypeCorrect, ExecCorrect, IntakeCorrect, HistoryCorrect, SnapshotsCorrect, PTL
    DEF Spec, LatestNeverGoesBack

=============================================================================
