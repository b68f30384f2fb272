-------------------------- MODULE JobSystem_proofs --------------------------
(***************************************************************************)
(* Proofs about JobSystem, for every number of jobs, branches, handlers,   *)
(* workers, deliveries and for all faults.                                 *)
(***************************************************************************)
EXTENDS JobSystem, TLAPS

-----------------------------------------------------------------------------
(* Type correctness.  TypeOK is not inductive: that a commit read from a   *)
(* row is a commit needs the row to exist and to be complete.              *)

RowsComplete ==
    \A j \in Jobs : jobs[j].status # "none" => jobs[j].branch \in Branches /\ jobs[j].commit \in Commits

PushRefers == \A h \in Handlers : push[h].pc = "enqueue" => jobs[push[h].job].status # "none"
TaskRefers == \A j \in Jobs : attempts[j] > 0 => jobs[j].status # "none"
ExecRefers == \A w \in Workers : exec[w].pc # "idle" => jobs[exec[w].job].status # "none"

TypeInv == TypeOK /\ RowsComplete /\ PushRefers /\ TaskRefers /\ ExecRefers

\* The initial state satisfies the type invariant.
LEMMA TypeInvInit == Init => TypeInv
BY NullAssumption, TimeoutAssumption, DispatchAssumption, IntakeAssumption
DEF Init, StoreInit, DispatchInit, IntakeInit, ExecInit, TypeInv, TypeOK, StoreTypeOK,
    DispatchTypeOK, IntakeTypeOK, PushTypeOK, ExecTypeOK, RowsComplete, PushRefers, TaskRefers,
    ExecRefers, NoRow, JobRow, JobStatus, Waiting, Push, IdleSlot, Exec, SnapshotRow

\* A handler that moves to a well-typed state keeps PushTypeOK and PushRefers, as
\* long as no row disappears.
LEMMA PushMoves ==
    ASSUME TypeInv, NEW h \in Handlers, NEW p \in Push, push' = [push EXCEPT ![h] = p],
           p.pc # "idle" => p.delivery \in Deliveries,
           p.pc = "enqueue" => p.job \in Jobs /\ jobs'[p.job].status # "none",
           \A j \in Jobs : jobs[j].status # "none" => jobs'[j].status # "none"
    PROVE  PushTypeOK' /\ PushRefers'
BY DEF TypeInv, TypeOK, IntakeTypeOK, PushTypeOK, PushRefers

\* ... and the same of a worker slot.
LEMMA SlotMoves ==
    ASSUME TypeInv, NEW w \in Workers, NEW e \in Exec, exec' = [exec EXCEPT ![w] = e],
           objects' \subseteq Commits,
           e.pc # "idle" => e.job \in Jobs /\ jobs'[e.job].status # "none",
           e.pc \in {"running", "succeeding"} => e.commit \in Commits,
           \A j \in Jobs : jobs[j].status # "none" => jobs'[j].status # "none"
    PROVE  ExecTypeOK' /\ ExecRefers'
BY DEF TypeInv, TypeOK, ExecTypeOK, ExecRefers

\* A change of one row that leaves it complete keeps the jobs table well-typed.
LEMMA RowChanges ==
    ASSUME TypeInv, NEW j \in Jobs, NEW row \in JobRow, jobs' = [jobs EXCEPT ![j] = row],
           row.status # "none", row.branch \in Branches, row.commit \in Commits
    PROVE  /\ jobs' \in [Jobs -> JobRow]
           /\ RowsComplete'
           /\ \A k \in Jobs : jobs[k].status # "none" => jobs'[k].status # "none"
BY DEF TypeInv, TypeOK, StoreTypeOK, RowsComplete

\* A row with a new status and its age reset is a row.
LEMMA Touched ==
    ASSUME NEW row \in JobRow, NEW status \in JobStatus \cup {"none"}
    PROVE  LET new == [row EXCEPT !.status = status, !.age = 0]
           IN  new \in JobRow /\ new.status = status /\ new.branch = row.branch /\ new.commit = row.commit
<1>1. 0 \in 0 .. TimeoutAge + 1
    BY TimeoutAssumption
<1>2. [row EXCEPT !.status = status] \in JobRow
    BY DEF JobRow
<1>3. [[row EXCEPT !.status = status] EXCEPT !.age = 0] \in JobRow
    BY <1>1, <1>2 DEF JobRow
<1> QED
    BY <1>3 DEF JobRow

\* UpdateJobStatus on a row that exists is such a change.
LEMMA StatusChanges ==
    ASSUME TypeInv, NEW j \in Jobs, NEW status \in JobStatus, jobs[j].status # "none",
           jobs' = UpdateJobStatus(j, status)
    PROVE  /\ jobs' \in [Jobs -> JobRow]
           /\ RowsComplete'
           /\ \A k \in Jobs : jobs[k].status # "none" => jobs'[k].status # "none"
<1> DEFINE row == [jobs[j] EXCEPT !.status = status, !.age = 0]
<1>1. jobs[j] \in JobRow /\ jobs[j].branch \in Branches /\ jobs[j].commit \in Commits
    BY DEF TypeInv, TypeOK, StoreTypeOK, RowsComplete
<1>2. /\ row \in JobRow
      /\ row.status = status /\ row.branch = jobs[j].branch /\ row.commit = jobs[j].commit
    BY <1>1, Touched DEF JobStatus
<1>3. jobs' = [jobs EXCEPT ![j] = row]
    BY DEF TypeInv, TypeOK, StoreTypeOK, UpdateJobStatus
<1>4. status # "none"
    BY DEF JobStatus
<1> HIDE DEF row
<1> QED
    BY <1>1, <1>2, <1>3, <1>4, RowChanges

\* The steps of HandlePush preserve the type invariant.
LEMMA TypeInvIntake == TypeInv /\ IntakeStep => TypeInv'
<1> SUFFICES ASSUME TypeInv, IntakeStep PROVE TypeInv'
    OBVIOUS
<1>0. UNCHANGED <<exec, objects>> /\ ExecTypeOK'
    BY DEF IntakeStep, execVars, TypeInv, TypeOK, ExecTypeOK
<1>1. ASSUME NEW h \in Handlers, NEW d \in Deliveries, PushBegin(h, d) PROVE TypeInv'
    <2> DEFINE p == [pc |-> "locking", delivery |-> d, job |-> Null, begun |-> requests + 1]
    <2>1. requests' \in 0 .. MaxRequests /\ p \in Push
        BY <1>1, IntakeAssumption DEF PushBegin, Push, TypeInv, TypeOK, IntakeTypeOK
    <2>2. push' = [push EXCEPT ![h] = p] /\ UNCHANGED <<jobs, snapshots, attempts, locks, latest, applied>>
        BY <1>1 DEF PushBegin
    <2>3. p.pc = "locking" /\ p.delivery = d
        OBVIOUS
    <2> HIDE DEF p
    <2>4. PushTypeOK' /\ PushRefers'
        BY <2>1, <2>2, <2>3, PushMoves
    <2> QED
        BY <1>0, <2>1, <2>2, <2>4 DEF TypeInv, TypeOK, StoreTypeOK, DispatchTypeOK, IntakeTypeOK,
            RowsComplete, TaskRefers, ExecRefers
<1>2. ASSUME NEW h \in Handlers, PushCheck(h) PROVE TypeInv'
    <2>1. PICK j \in QueuedJob(PushBranch(h)) : push' = [push EXCEPT ![h].pc = "checked", ![h].job = j]
        BY <1>2 DEF PushCheck
    <2> DEFINE p == [push[h] EXCEPT !.pc = "checked", !.job = j]
    <2>2. j \in Jobs \cup {Null}
        BY DEF QueuedJob, GetActiveJobsForBranch, InStatus
    <2>3. push \in [Handlers -> Push] /\ push[h] \in Push /\ push[h].delivery \in Deliveries
        BY <1>2 DEF PushCheck, TypeInv, TypeOK, IntakeTypeOK, PushTypeOK
    <2>4. p \in Push /\ p.pc = "checked" /\ p.delivery \in Deliveries
        BY <2>2, <2>3 DEF Push
    <2>5. push' = [push EXCEPT ![h] = p]
        BY <2>1, <2>3
    <2>6. locks' \in [LockKeys -> Handlers \cup {Null}]
              /\ UNCHANGED <<jobs, snapshots, attempts, requests, latest, applied>>
        BY <1>2 DEF PushCheck, TypeInv, TypeOK, IntakeTypeOK
    <2> HIDE DEF p
    <2>7. PushTypeOK' /\ PushRefers'
        BY <2>4, <2>5, <2>6, PushMoves
    <2> QED
        BY <1>0, <2>6, <2>7 DEF TypeInv, TypeOK, StoreTypeOK, DispatchTypeOK, IntakeTypeOK,
            RowsComplete, TaskRefers, ExecRefers
<1>3. ASSUME NEW h \in Handlers, PushUpdate(h) PROVE TypeInv'
    <2>1. push[h].job \in Jobs /\ push[h].delivery \in Deliveries
        BY <1>3 DEF PushUpdate, TypeInv, TypeOK, IntakeTypeOK, PushTypeOK, Push
    <2> DEFINE j == push[h].job
    <2>2. /\ jobs' \in [Jobs -> JobRow]
          /\ RowsComplete'
          /\ \A k \in Jobs : jobs[k].status # "none" => jobs'[k].status # "none"
        <3>1. CASE jobs[j].status = "queued"
            <4> DEFINE row == [jobs[j] EXCEPT !.commit = PushCommit(h)]
            <4>1. PushCommit(h) \in Commits /\ jobs[j] \in JobRow /\ jobs[j].branch \in Branches
                BY <2>1, <3>1, IntakeAssumption DEF PushCommit, TypeInv, TypeOK, StoreTypeOK, RowsComplete
            <4>2. row \in JobRow /\ row.status = "queued" /\ row.branch \in Branches /\ row.commit \in Commits
                BY <3>1, <4>1 DEF JobRow
            <4>3. jobs' = [jobs EXCEPT ![j] = row]
                BY <1>3, <2>1, <3>1 DEF PushUpdate, UpdateJobCommitSHA, TypeInv, TypeOK, StoreTypeOK
            <4> HIDE DEF row
            <4> QED
                BY <2>1, <4>2, <4>3, RowChanges
        <3>2. CASE jobs[j].status # "queued"
            BY <1>3, <3>2 DEF PushUpdate, UpdateJobCommitSHA, TypeInv, TypeOK, StoreTypeOK, RowsComplete
        <3> QED
            BY <3>1, <3>2
    <2>6. Append(applied, push[h].delivery) \in Seq(Deliveries)
        BY <2>1 DEF TypeInv, TypeOK, IntakeTypeOK
    <2>3. /\ locks' \in [LockKeys -> Handlers \cup {Null}]
          /\ latest' \in [Branches -> Deliveries \cup {Null}]
          /\ applied' \in Seq(Deliveries)
          /\ push' = [push EXCEPT ![h] = Waiting]
          /\ UNCHANGED <<snapshots, attempts, requests>>
        BY <1>3, <2>1, <2>6 DEF PushUpdate, Record, EndTransaction, Return, TypeInv, TypeOK, IntakeTypeOK
    <2>4. Waiting \in Push /\ Waiting.pc = "idle"
        BY DEF Waiting, Push
    <2>5. PushTypeOK' /\ PushRefers'
        BY <2>2, <2>3, <2>4, PushMoves
    <2> QED
        BY <1>0, <2>2, <2>3, <2>5 DEF TypeInv, TypeOK, StoreTypeOK, DispatchTypeOK, IntakeTypeOK,
            TaskRefers, ExecTypeOK, ExecRefers
<1>4. ASSUME NEW h \in Handlers, PushCreate(h) PROVE TypeInv'
    <2>1. PICK j \in InStatus({"none"}) :
              /\ jobs' = CreateJob(j, PushBranch(h), PushCommit(h), DeliveryId(h), push[h].begun)
              /\ push' = [push EXCEPT ![h].pc = "enqueue", ![h].job = j]
        BY <1>4 DEF PushCreate
    <2> DEFINE row == [status |-> "queued", branch |-> PushBranch(h), commit |-> PushCommit(h),
                       delivery |-> DeliveryId(h), created |-> push[h].begun, age |-> 0]
               p == [push[h] EXCEPT !.pc = "enqueue", !.job = j]
    <2>2. j \in Jobs
        BY DEF InStatus
    <2>3. push \in [Handlers -> Push] /\ push[h] \in Push /\ push[h].delivery \in Deliveries
        BY <1>4 DEF PushCreate, TypeInv, TypeOK, IntakeTypeOK, PushTypeOK
    <2>4. row \in JobRow
        BY <2>3, IntakeAssumption, TimeoutAssumption
        DEF JobRow, JobStatus, Push, PushBranch, PushCommit, DeliveryId
    <2>5. row.status = "queued" /\ row.branch \in Branches /\ row.commit \in Commits
        BY <2>3, IntakeAssumption DEF PushBranch, PushCommit
    <2>6. jobs' = [jobs EXCEPT ![j] = row]
        BY <2>1 DEF CreateJob
    <2>7. p \in Push /\ p.pc = "enqueue" /\ p.job = j /\ p.delivery \in Deliveries
        BY <2>2, <2>3 DEF Push
    <2>8. push' = [push EXCEPT ![h] = p]
        BY <2>1, <2>3
    <2> HIDE DEF row, p
    <2>9. /\ jobs' \in [Jobs -> JobRow]
          /\ RowsComplete'
          /\ \A k \in Jobs : jobs[k].status # "none" => jobs'[k].status # "none"
        BY <2>2, <2>4, <2>5, <2>6, RowChanges
    <2>10. jobs'[j].status # "none"
        BY <2>2, <2>5, <2>6 DEF TypeInv, TypeOK, StoreTypeOK
    <2>11. PushTypeOK' /\ PushRefers'
        BY <2>2, <2>7, <2>8, <2>9, <2>10, PushMoves
    <2>13. Append(applied, push[h].delivery) \in Seq(Deliveries)
        BY <2>3 DEF TypeInv, TypeOK, IntakeTypeOK
    <2>12. /\ locks' \in [LockKeys -> Handlers \cup {Null}]
           /\ latest' \in [Branches -> Deliveries \cup {Null}]
           /\ applied' \in Seq(Deliveries)
           /\ UNCHANGED <<snapshots, attempts, requests>>
        BY <1>4, <2>3, <2>13 DEF PushCreate, Record, EndTransaction, TypeInv, TypeOK, IntakeTypeOK
    <2> QED
        BY <1>0, <2>9, <2>11, <2>12 DEF TypeInv, TypeOK, StoreTypeOK, DispatchTypeOK, IntakeTypeOK,
            TaskRefers, ExecTypeOK, ExecRefers
<1>5. ASSUME NEW h \in Handlers, PushDuplicate(h) \/ PushEnqueue(h) \/ PushAbort(h) PROVE TypeInv'
    <2>1. /\ push' = [push EXCEPT ![h] = Waiting]
          /\ UNCHANGED <<jobs, snapshots, requests, latest, applied>>
        BY <1>5 DEF PushDuplicate, PushEnqueue, PushAbort, Return
    <2>2. Waiting \in Push /\ Waiting.pc = "idle"
        BY DEF Waiting, Push
    <2>3. PushTypeOK' /\ PushRefers'
        BY <2>1, <2>2, PushMoves
    <2>4. locks' \in [LockKeys -> Handlers \cup {Null}]
        BY <1>5 DEF PushDuplicate, PushEnqueue, PushAbort, EndTransaction, TypeInv, TypeOK, IntakeTypeOK
    <2>5. DispatchTypeOK' /\ TaskRefers'
        <3>1. CASE UNCHANGED attempts
            BY <2>1, <3>1 DEF TypeInv, TypeOK, DispatchTypeOK, TaskRefers
        <3>2. CASE PushEnqueue(h) /\ Enqueue(push[h].job)
            <4>1. push[h].job \in Jobs /\ jobs[push[h].job].status # "none"
                BY <3>2 DEF PushEnqueue, TypeInv, TypeOK, IntakeTypeOK, PushTypeOK, PushRefers
            <4> QED
                BY <2>1, <3>2, <4>1, DispatchAssumption DEF Enqueue, TypeInv, TypeOK, DispatchTypeOK, TaskRefers
        <3> QED
            BY <1>5, <3>1, <3>2 DEF PushDuplicate, PushEnqueue, PushAbort
    <2> QED
        BY <1>0, <2>1, <2>3, <2>4, <2>5 DEF TypeInv, TypeOK, StoreTypeOK, IntakeTypeOK, RowsComplete,
            ExecRefers
<1> QED
    BY <1>1, <1>2, <1>3, <1>4, <1>5 DEF IntakeStep, IntakeNext, PushStep

\* Complete on the job of a slot keeps the tables well-typed and every row.
LEMMA CompleteTyped ==
    ASSUME TypeInv, NEW j \in Jobs, jobs[j].status # "none",
           NEW status \in {"succeeded", "failed"}, NEW path,
           status = "succeeded" => path \in Commits,
           Complete(j, status, path)
    PROVE  /\ StoreTypeOK'
           /\ RowsComplete'
           /\ \A k \in Jobs : jobs[k].status # "none" => jobs'[k].status # "none"
<1>1. CASE UNCHANGED <<jobs, snapshots>>
    BY <1>1 DEF TypeInv, TypeOK, StoreTypeOK, RowsComplete
<1>2. CASE /\ jobs' = UpdateJobStatus(j, status)
           /\ \/ UNCHANGED snapshots
              \/ status = "succeeded" /\ snapshots' = InsertSnapshot(j, path)
    <2>1. status \in JobStatus
        BY DEF JobStatus
    <2>2. /\ jobs' \in [Jobs -> JobRow]
          /\ RowsComplete'
          /\ \A k \in Jobs : jobs[k].status # "none" => jobs'[k].status # "none"
        BY <1>2, <2>1, StatusChanges
    <2>3. ASSUME status = "succeeded" PROVE InsertSnapshot(j, path) \in Seq(SnapshotRow)
        <3> DEFINE s == [job |-> j, branch |-> jobs[j].branch, commit |-> jobs[j].commit, path |-> path]
        <3>1. s \in SnapshotRow
            BY <2>3 DEF SnapshotRow, TypeInv, RowsComplete
        <3>2. snapshots \in Seq(SnapshotRow)
            BY DEF TypeInv, TypeOK, StoreTypeOK
        <3> HIDE DEF s
        <3>3. Append(snapshots, s) \in Seq(SnapshotRow)
            BY <3>1, <3>2
        <3> QED
            BY <3>3 DEF InsertSnapshot, s
    <2> QED
        BY <1>2, <2>2, <2>3 DEF TypeInv, TypeOK, StoreTypeOK
<1> QED
    BY <1>1, <1>2 DEF Complete

\* The steps of the worker, of the callbacks and of the watchdog preserve it.
LEMMA TypeInvExec == TypeInv /\ ExecStep => TypeInv'
<1> SUFFICES ASSUME TypeInv, ExecStep PROVE TypeInv'
    OBVIOUS
<1>0. /\ UNCHANGED <<push, locks, requests, latest, applied>>
      /\ IntakeTypeOK'
    BY DEF ExecStep, intakeVars, TypeInv, TypeOK, IntakeTypeOK, PushTypeOK
\* Enough to look at the tables, the tasks and the slots.
<1>a. ASSUME StoreTypeOK', RowsComplete', DispatchTypeOK', ExecTypeOK', ExecRefers',
             \A k \in Jobs : jobs[k].status # "none" => jobs'[k].status # "none",
             \A k \in Jobs : attempts'[k] <= attempts[k]
      PROVE  TypeInv'
    <2>1. PushRefers'
        BY <1>0, <1>a DEF TypeInv, TypeOK, IntakeTypeOK, PushTypeOK, PushRefers
    <2>2. TaskRefers'
        BY <1>a, DispatchAssumption DEF TypeInv, TypeOK, DispatchTypeOK, TaskRefers
    <2> QED
        BY <1>0, <1>a, <2>1, <2>2 DEF TypeInv, TypeOK
\* The watchdog and the clock change no slot and no task.
<1>1. ASSUME Timeout \/ Tick PROVE TypeInv'
    <2>1. UNCHANGED <<snapshots, attempts, exec, objects>>
        BY <1>1 DEF Timeout, Tick
    <2>2. /\ jobs' \in [Jobs -> JobRow]
          /\ RowsComplete'
          /\ \A k \in Jobs : jobs[k].status # "none" => jobs'[k].status # "none"
        <3>1. /\ jobs' = [j \in Jobs |-> jobs'[j]]
              /\ \A j \in Jobs :
                    \/ jobs'[j] = jobs[j]
                    \/ /\ jobs[j].status = "running"
                       /\ jobs'[j] = [jobs[j] EXCEPT !.status = "failed", !.age = 0]
                    \/ jobs[j].age <= TimeoutAge /\ jobs'[j] = [jobs[j] EXCEPT !.age = jobs[j].age + 1]
            BY <1>1 DEF Timeout, TimeoutRunningJobs, Overdue, InStatus, Tick
        <3>2. ASSUME NEW j \in Jobs
              PROVE  /\ jobs'[j] \in JobRow
                     /\ jobs[j].status # "none" => jobs'[j].status # "none"
                     /\ jobs'[j].branch = jobs[j].branch /\ jobs'[j].commit = jobs[j].commit
                     /\ jobs[j].status = "none" => jobs'[j].status = "none"
            <4>1. jobs[j] \in JobRow
                BY DEF TypeInv, TypeOK, StoreTypeOK
            <4>2. CASE jobs'[j] = jobs[j]
                BY <4>1, <4>2
            <4>3. CASE jobs[j].status = "running" /\ jobs'[j] = [jobs[j] EXCEPT !.status = "failed", !.age = 0]
                <5>1. "failed" \in JobStatus \cup {"none"} /\ 0 \in 0 .. TimeoutAge + 1
                    BY TimeoutAssumption DEF JobStatus
                <5> DEFINE new == [jobs[j] EXCEPT !.status = "failed", !.age = 0]
                <5>2. /\ new \in JobRow
                      /\ new.status = "failed" /\ new.branch = jobs[j].branch /\ new.commit = jobs[j].commit
                    BY <4>1, <5>1, Touched
                <5>3. jobs'[j] = new
                    BY <4>3
                <5> HIDE DEF new
                <5> QED
                    BY <4>3, <5>2, <5>3
            <4>4. CASE jobs[j].age <= TimeoutAge /\ jobs'[j] = [jobs[j] EXCEPT !.age = jobs[j].age + 1]
                BY <4>1, <4>4, TimeoutAssumption DEF JobRow
            <4> QED
                BY <3>1, <4>2, <4>3, <4>4
        <3>3. jobs' \in [Jobs -> JobRow]
            BY <3>1, <3>2
        <3>4. RowsComplete'
            <4> SUFFICES ASSUME NEW j \in Jobs, jobs'[j].status # "none"
                         PROVE  jobs'[j].branch \in Branches /\ jobs'[j].commit \in Commits
                BY DEF RowsComplete
            <4> QED
                BY <3>2 DEF TypeInv, RowsComplete
        <3> QED
            BY <3>2, <3>3, <3>4
    <2> QED
        BY <1>a, <2>1, <2>2 DEF TypeInv, TypeOK, StoreTypeOK, DispatchTypeOK, ExecTypeOK, ExecRefers
\* Attempts go down, or stay.
<1>b. ASSUME NEW j \in Jobs, Attempt(j) \/ Answer(j) \/ UNCHANGED attempts
      PROVE  DispatchTypeOK' /\ \A k \in Jobs : attempts'[k] <= attempts[k]
    BY <1>b, DispatchAssumption DEF Attempt, Answer, TypeInv, TypeOK, DispatchTypeOK
<1>2. ASSUME NEW j \in Jobs, DeliverFails(j) PROVE TypeInv'
    BY <1>a, <1>b, <1>2 DEF DeliverFails, TypeInv, TypeOK, StoreTypeOK, RowsComplete, ExecTypeOK, ExecRefers
<1>3. ASSUME NEW w \in Workers, NEW j \in Jobs, Deliver(w, j) PROVE TypeInv'
    <2> DEFINE e == [pc |-> "starting", job |-> j, commit |-> Null]
    <2>1. exec' = [exec EXCEPT ![w] = e] /\ e \in Exec /\ e.pc = "starting" /\ e.job = j
          /\ UNCHANGED <<jobs, snapshots, objects>>
        BY <1>3 DEF Deliver, Exec
    <2>2. jobs[j].status # "none" /\ objects \subseteq Commits
        BY <1>3 DEF Deliver, Attempt, TypeInv, TypeOK, ExecTypeOK, TaskRefers
    <2> HIDE DEF e
    <2>3. ExecTypeOK' /\ ExecRefers'
        BY <2>1, <2>2, SlotMoves
    <2> QED
        BY <1>a, <1>b, <1>3, <2>1, <2>3 DEF Deliver, TypeInv, TypeOK, StoreTypeOK, RowsComplete
<1>4. ASSUME NEW w \in Workers, Claim(w, RowsBeingUpdated) PROVE TypeInv'
    <2>1. PICK j \in ClaimableJobs(RowsBeingUpdated) :
              /\ jobs' = UpdateJobStatus(j, "running")
              /\ exec' = [exec EXCEPT ![w] = [pc |-> "claimed", job |-> j, commit |-> Null]]
        BY <1>4 DEF Claim
    <2> DEFINE e == [pc |-> "claimed", job |-> j, commit |-> Null]
    <2>2. j \in Jobs /\ jobs[j].status # "none" /\ UNCHANGED <<snapshots, attempts, objects>>
        BY <1>4 DEF Claim, ClaimableJobs, InStatus
    <2>3. e \in Exec /\ e.pc = "claimed" /\ e.job = j /\ exec' = [exec EXCEPT ![w] = e]
        BY <2>1, <2>2 DEF Exec
    <2>4. /\ jobs' \in [Jobs -> JobRow]
          /\ RowsComplete'
          /\ \A k \in Jobs : jobs[k].status # "none" => jobs'[k].status # "none"
        BY <2>1, <2>2, StatusChanges DEF JobStatus
    <2>5. objects' \subseteq Commits
        BY <2>2 DEF TypeInv, TypeOK, ExecTypeOK
    <2> HIDE DEF e
    <2>6. ExecTypeOK' /\ ExecRefers'
        BY <2>2, <2>3, <2>4, <2>5, SlotMoves
    <2> QED
        BY <1>a, <1>b, <2>2, <2>4, <2>6 DEF TypeInv, TypeOK, StoreTypeOK
\* An active slot: its job has a row.
<1>c. ASSUME NEW w \in Workers, exec[w].pc # "idle"
      PROVE  /\ exec[w].job \in Jobs
             /\ jobs[exec[w].job].status # "none"
             /\ exec[w] \in Exec
             /\ exec \in [Workers -> Exec]
             /\ objects \subseteq Commits
    BY <1>c DEF TypeInv, TypeOK, ExecTypeOK, ExecRefers
\* A slot that becomes idle.
<1>d. ASSUME NEW w \in Workers, Free(w), UNCHANGED objects,
             \A k \in Jobs : jobs[k].status # "none" => jobs'[k].status # "none"
      PROVE  ExecTypeOK' /\ ExecRefers'
    <2>1. IdleSlot \in Exec /\ IdleSlot.pc = "idle"
        BY DEF IdleSlot, Exec
    <2> QED
        BY <1>d, <2>1, SlotMoves DEF Free, TypeInv, TypeOK, ExecTypeOK
\* A slot that moves on with its job and its commit.
<1>e. ASSUME NEW w \in Workers, exec[w].pc # "idle", NEW pc \in {"starting", "succeeding", "failing"},
             Goto(w, pc), objects' \subseteq Commits,
             pc = "succeeding" => exec[w].pc = "running",
             \A k \in Jobs : jobs[k].status # "none" => jobs'[k].status # "none"
      PROVE  ExecTypeOK' /\ ExecRefers'
    <2> DEFINE e == [exec[w] EXCEPT !.pc = pc]
    <2>1. e \in Exec /\ e.pc = pc /\ e.job = exec[w].job /\ e.commit = exec[w].commit
        BY <1>c, <1>e DEF Exec
    <2>2. exec' = [exec EXCEPT ![w] = e]
        BY <1>c, <1>e DEF Goto
    <2>3. pc = "succeeding" => exec[w].commit \in Commits
        BY <1>e DEF TypeInv, TypeOK, ExecTypeOK
    <2> HIDE DEF e
    <2> QED
        BY <1>c, <1>e, <2>1, <2>2, <2>3, SlotMoves
\* The start callback.
<1>f. ASSUME NEW j \in Jobs, jobs[j].status # "none", jobs' = Start(j)
      PROVE  /\ jobs' \in [Jobs -> JobRow]
             /\ RowsComplete'
             /\ \A k \in Jobs : jobs[k].status # "none" => jobs'[k].status # "none"
    <2>1. CASE jobs' = UpdateJobStatus(j, "running")
        BY <1>f, <2>1, StatusChanges DEF JobStatus
    <2>2. CASE jobs' = jobs
        BY <2>2 DEF TypeInv, TypeOK, StoreTypeOK, RowsComplete
    <2> QED
        BY <1>f, <2>1, <2>2 DEF Start
<1>5. ASSUME NEW w \in Workers, ClaimedRepo(w) \/ RunAndUpload(w) \/ RunFails(w) PROVE TypeInv'
    <2>1. exec[w].pc # "idle" /\ UNCHANGED <<jobs, snapshots, attempts>>
        BY <1>5 DEF ClaimedRepo, RunAndUpload, RunFails
    <2>2. objects' \subseteq Commits
        BY <1>5 DEF ClaimedRepo, RunAndUpload, RunFails, TypeInv, TypeOK, ExecTypeOK
    <2>3. ExecTypeOK' /\ ExecRefers'
        BY <1>5, <1>e, <2>1, <2>2 DEF ClaimedRepo, RunAndUpload, RunFails
    <2> QED
        BY <1>a, <1>b, <2>1, <2>3 DEF TypeInv, TypeOK, StoreTypeOK, DispatchTypeOK, RowsComplete
<1>6. ASSUME NEW w \in Workers, ClaimedRepoFails(w) PROVE TypeInv'
    <2>1. exec[w].pc # "idle" /\ Free(w) /\ UNCHANGED <<snapshots, attempts, objects>>
        BY <1>6 DEF ClaimedRepoFails
    <2>2. /\ jobs' \in [Jobs -> JobRow]
          /\ RowsComplete'
          /\ \A k \in Jobs : jobs[k].status # "none" => jobs'[k].status # "none"
        <3>1. CASE UNCHANGED jobs
            BY <3>1 DEF TypeInv, TypeOK, StoreTypeOK, RowsComplete
        <3>2. CASE jobs' = UpdateJobStatus(exec[w].job, "failed")
            BY <3>2, <1>c, <2>1, StatusChanges DEF JobStatus
        <3> QED
            BY <1>6, <3>1, <3>2 DEF ClaimedRepoFails
    <2> QED
        BY <1>a, <1>d, <2>1, <2>2 DEF TypeInv, TypeOK, StoreTypeOK, DispatchTypeOK
<1>7. ASSUME NEW w \in Workers, CallStart(w) PROVE TypeInv'
    <2>1. exec[w].pc # "idle" /\ UNCHANGED <<snapshots, attempts, objects>> /\ jobs' = Start(exec[w].job)
        BY <1>7 DEF CallStart
    <2> DEFINE e == [exec[w] EXCEPT !.pc = "running", !.commit = jobs[exec[w].job].commit]
    <2>2. jobs[exec[w].job].commit \in Commits
        BY <1>c, <2>1 DEF TypeInv, RowsComplete
    <2>3. e \in Exec /\ e.pc = "running" /\ e.job = exec[w].job /\ e.commit \in Commits
        BY <1>c, <2>1, <2>2 DEF Exec
    <2>4. exec' = [exec EXCEPT ![w] = e]
        BY <1>7, <1>c, <2>1 DEF CallStart
    <2> HIDE DEF e
    <2>5. ExecTypeOK' /\ ExecRefers'
        BY <1>c, <1>f, <2>1, <2>3, <2>4, SlotMoves
    <2> QED
        BY <1>a, <1>c, <1>f, <2>1, <2>5 DEF TypeInv, TypeOK, StoreTypeOK, DispatchTypeOK
<1>8. ASSUME NEW w \in Workers, CallStartFails(w) PROVE TypeInv'
    <2>1. exec[w].pc # "idle" /\ Goto(w, "failing") /\ UNCHANGED <<snapshots, attempts, objects>>
        BY <1>8 DEF CallStartFails
    <2>2. /\ jobs' \in [Jobs -> JobRow]
          /\ RowsComplete'
          /\ \A k \in Jobs : jobs[k].status # "none" => jobs'[k].status # "none"
        <3>1. CASE UNCHANGED jobs
            BY <3>1 DEF TypeInv, TypeOK, StoreTypeOK, RowsComplete
        <3>2. CASE jobs' = Start(exec[w].job)
            BY <3>2, <1>c, <1>f, <2>1
        <3> QED
            BY <1>8, <3>1, <3>2 DEF CallStartFails
    <2>3. ExecTypeOK' /\ ExecRefers'
        BY <1>c, <1>e, <2>1, <2>2
    <2> QED
        BY <1>a, <2>1, <2>2, <2>3 DEF TypeInv, TypeOK, StoreTypeOK, DispatchTypeOK
<1>9. ASSUME NEW w \in Workers, CallComplete(w) PROVE TypeInv'
    <2>1. exec[w].pc \in {"succeeding", "failing"} /\ Answer(exec[w].job) /\ Free(w) /\ UNCHANGED objects
        BY <1>9 DEF CallComplete, Report
    <2>2. /\ StoreTypeOK'
          /\ RowsComplete'
          /\ \A k \in Jobs : jobs[k].status # "none" => jobs'[k].status # "none"
        <3>1. CASE UNCHANGED <<jobs, snapshots>>
            BY <3>1 DEF TypeInv, TypeOK, StoreTypeOK, RowsComplete
        <3>2. CASE exec[w].pc = "succeeding" /\ Complete(exec[w].job, "succeeded", exec[w].commit)
            <4>1. exec[w].commit \in Commits
                BY <3>2 DEF TypeInv, TypeOK, ExecTypeOK
            <4> QED
                BY <3>2, <4>1, <1>c, CompleteTyped
        <3>3. CASE exec[w].pc = "failing" /\ Complete(exec[w].job, "failed", Null)
            BY <3>3, <1>c, CompleteTyped
        <3> QED
            BY <1>9, <3>1, <3>2, <3>3 DEF CallComplete, Report
    <2>3. DispatchTypeOK' /\ \A k \in Jobs : attempts'[k] <= attempts[k]
        BY <1>b, <1>c, <2>1
    <2> QED
        BY <1>a, <1>d, <2>1, <2>2, <2>3
<1>10. ASSUME NEW w \in Workers, WorkerDies(w) PROVE TypeInv'
    BY <1>a, <1>d, <1>10 DEF WorkerDies, TypeInv, TypeOK, StoreTypeOK, DispatchTypeOK, RowsComplete
<1> QED
    BY <1>1, <1>2, <1>3, <1>4, <1>5, <1>6, <1>7, <1>8, <1>9, <1>10 DEF ExecStep, ExecNext, WorkerStep

\* Every reachable state is well-typed, and every row, task, handler and execution
\* refers to rows that exist and are complete.
THEOREM TypeCorrect == Spec => []TypeInv
<1>1. TypeInv /\ [Next]_vars => TypeInv'
    <2>1. TypeInv /\ UNCHANGED vars => TypeInv'
        BY DEF vars, TypeInv, TypeOK, StoreTypeOK, DispatchTypeOK, IntakeTypeOK, PushTypeOK, ExecTypeOK,
            RowsComplete, PushRefers, TaskRefers, ExecRefers
    <2> QED
        BY <2>1, TypeInvIntake, TypeInvExec DEF Next
<1> QED
    BY <1>1, TypeInvInit, PTL DEF Spec

\* ... in particular TypeOK, which the runs check, is an invariant.
THEOREM TypeSafety == Spec => []TypeOK
<1>1. TypeInv => TypeOK
    BY DEF TypeInv
<1> QED
    BY <1>1, TypeCorrect, PTL

-----------------------------------------------------------------------------
(* What a step does to the rows.                                           *)

\* Nothing but HandlePush puts a job into the queue or changes its branch or commit.
LEMMA ExecRows ==
    ASSUME TypeInv, ExecStep
    PROVE  \A j \in Jobs :
              /\ jobs'[j].branch = jobs[j].branch
              /\ jobs'[j].commit = jobs[j].commit
              /\ jobs'[j].status = "queued" => jobs[j].status = "queued"
              /\ jobs[j].status # "none" => jobs'[j].status # "none"
<1> USE DEF TypeInv, TypeOK, StoreTypeOK, JobRow
<1>1. ASSUME UNCHANGED jobs \/ jobs' = TimeoutRunningJobs \/ Tick
             \/ \E k \in Jobs, status \in {"running", "succeeded", "failed"} : jobs' = UpdateJobStatus(k, status)
      PROVE  \A j \in Jobs :
              /\ jobs'[j].branch = jobs[j].branch
              /\ jobs'[j].commit = jobs[j].commit
              /\ jobs'[j].status = "queued" => jobs[j].status = "queued"
              /\ jobs[j].status # "none" => jobs'[j].status # "none"
    <2>1. CASE UNCHANGED jobs
        BY <2>1
    <2>2. CASE jobs' = TimeoutRunningJobs
        BY <2>2 DEF TimeoutRunningJobs, Overdue, InStatus
    <2>3. CASE Tick
        BY <2>3 DEF Tick
    <2>4. CASE \E k \in Jobs, status \in {"running", "succeeded", "failed"} : jobs' = UpdateJobStatus(k, status)
        BY <2>4 DEF UpdateJobStatus
    <2> QED
        BY <1>1, <2>1, <2>2, <2>3, <2>4
<1>2. \A w \in Workers : exec[w].pc # "idle" => exec[w].job \in Jobs
    BY DEF ExecTypeOK
<1>3. CASE Timeout \/ Tick \/ \E j \in Jobs : DeliverFails(j)
    BY <1>1, <1>3 DEF Timeout, DeliverFails
<1>4. ASSUME NEW w \in Workers, (\E j \in Jobs : Deliver(w, j)) \/ Claim(w, RowsBeingUpdated)
      PROVE  UNCHANGED jobs \/ \E k \in Jobs : jobs' = UpdateJobStatus(k, "running")
    BY <1>4 DEF Deliver, Claim, ClaimableJobs, InStatus
<1>5. ASSUME NEW w \in Workers, WorkerStep(w)
      PROVE  UNCHANGED jobs
             \/ \E k \in Jobs, status \in {"running", "succeeded", "failed"} : jobs' = UpdateJobStatus(k, status)
    <2>1. CASE ClaimedRepo(w) \/ RunAndUpload(w) \/ RunFails(w) \/ WorkerDies(w)
        BY <2>1 DEF ClaimedRepo, RunAndUpload, RunFails, WorkerDies
    <2>2. CASE ClaimedRepoFails(w)
        BY <1>2, <2>2 DEF ClaimedRepoFails
    <2>3. CASE CallStart(w) \/ CallStartFails(w)
        BY <1>2, <2>3 DEF CallStart, CallStartFails, Start
    <2>4. CASE CallComplete(w)
        BY <1>2, <2>4 DEF CallComplete, Report, Complete
    <2> QED
        BY <1>5, <2>1, <2>2, <2>3, <2>4 DEF WorkerStep
<1> QED
    BY <1>1, <1>3, <1>4, <1>5 DEF ExecStep, ExecNext

-----------------------------------------------------------------------------
(* The intake.  AtMostOneQueued is not inductive: the handler that creates *)
(* a job looked at the queue in an earlier step.  What it saw still holds  *)
(* because it has held the branch's lock since, and nobody but a holder of *)
(* that lock queues a job on the branch.                                   *)

LockHeld == \A h \in Handlers : push[h].pc = "checked" => locks[PushLock(h)] = h

LockOwned ==
    \A k \in LockKeys : locks[k] # Null => push[locks[k]].pc = "checked" /\ PushLock(locks[k]) = k

\* The only queued job a handler's branch can have is the one it found, if any.
CheckCurrent ==
    \A h \in Handlers :
        push[h].pc = "checked" =>
            \A j \in Jobs :
                jobs[j].status = "queued" /\ jobs[j].branch = PushBranch(h) => j = push[h].job

\* ... and the job it found is one of that branch.
FoundOnBranch ==
    \A h \in Handlers :
        push[h].pc = "checked" /\ push[h].job # Null =>
            jobs[push[h].job].branch = PushBranch(h) /\ jobs[push[h].job].status # "none"

\* If it was taken out of the queue meanwhile, it was taken with the last push on record.
StaleIsLatest ==
    \A h \in Handlers :
        push[h].pc = "checked" /\ push[h].job # Null =>
            \/ jobs[push[h].job].status = "queued"
            \/ latest[PushBranch(h)] # Null /\ jobs[push[h].job].commit = CommitOf[latest[PushBranch(h)]]

IntakeInv ==
    LockHeld /\ LockOwned /\ CheckCurrent /\ FoundOnBranch /\ StaleIsLatest /\ AtMostOneQueued /\ QueuedCarriesLatest

\* The initial state satisfies the invariant of the intake.
LEMMA IntakeInvInit == Init => IntakeInv
BY DEF Init, StoreInit, IntakeInit, IntakeInv, LockHeld, LockOwned, CheckCurrent, FoundOnBranch,
    StaleIsLatest, AtMostOneQueued, QueuedCarriesLatest, InStatus, NoRow, Waiting

\* Taking jobs out of the queue, by whatever step outside HandlePush, preserves it.
LEMMA IntakeInvExec == TypeInv /\ IntakeInv /\ ExecStep => IntakeInv'
<1> SUFFICES ASSUME TypeInv, IntakeInv, ExecStep PROVE IntakeInv'
    OBVIOUS
<1>1. UNCHANGED <<push, locks, requests, latest, applied>>
    BY DEF ExecStep, intakeVars
<1>2. \A j \in Jobs :
          /\ jobs'[j].branch = jobs[j].branch
          /\ jobs'[j].commit = jobs[j].commit
          /\ jobs'[j].status = "queued" => jobs[j].status = "queued"
          /\ jobs[j].status # "none" => jobs'[j].status # "none"
    BY ExecRows
<1>3. LockHeld' /\ LockOwned' /\ CheckCurrent'
    BY <1>1, <1>2 DEF IntakeInv, LockHeld, LockOwned, CheckCurrent, PushBranch, PushLock
<1>6. FoundOnBranch' /\ StaleIsLatest'
    <2>1. ASSUME NEW h \in Handlers, push[h].pc = "checked", push[h].job # Null PROVE push[h].job \in Jobs
        BY <2>1 DEF TypeInv, TypeOK, IntakeTypeOK, PushTypeOK, Push
    <2>2. FoundOnBranch'
        BY <1>1, <1>2, <2>1 DEF IntakeInv, FoundOnBranch, PushBranch
    \* A job that leaves the queue carries the last push of its branch.
    <2>3. StaleIsLatest'
        <3> SUFFICES ASSUME NEW h \in Handlers, push[h].pc = "checked", push[h].job # Null,
                            jobs'[push[h].job].status # "queued"
                     PROVE  /\ latest[PushBranch(h)] # Null
                            /\ jobs'[push[h].job].commit = CommitOf[latest[PushBranch(h)]]
            BY <1>1 DEF StaleIsLatest, PushBranch
        <3>1. PICK j \in Jobs : j = push[h].job
            BY <2>1
        <3>2. jobs[j].branch = PushBranch(h) /\ jobs'[j].commit = jobs[j].commit
            BY <1>2, <3>1 DEF IntakeInv, FoundOnBranch
        <3>3. latest[PushBranch(h)] # Null /\ jobs[j].commit = CommitOf[latest[PushBranch(h)]]
            BY <3>1, <3>2 DEF IntakeInv, StaleIsLatest, QueuedCarriesLatest, InStatus
        <3> QED
            BY <3>1, <3>2, <3>3
    <2> QED
        BY <2>2, <2>3
<1>4. AtMostOneQueued'
    BY <1>2 DEF IntakeInv, AtMostOneQueued, InStatus
<1>5. QueuedCarriesLatest'
    BY <1>1, <1>2 DEF IntakeInv, QueuedCarriesLatest, InStatus
<1> QED
    BY <1>3, <1>4, <1>5, <1>6 DEF IntakeInv

\* A handler that moves away from "checked" leaves the locks of the others in place and
\* none of its own.
LEMMA OtherLocks ==
    ASSUME TypeInv, LockOwned, NEW h \in Handlers,
           \A g \in Handlers : g # h => push'[g] = push[g],
           (UNCHANGED locks /\ push[h].pc # "checked") \/ EndTransaction(h)
    PROVE  LockOwned'
<1>1. locks \in [LockKeys -> Handlers \cup {Null}] /\ Null \notin Handlers
    BY IntakeAssumption DEF TypeInv, TypeOK, IntakeTypeOK
<1> SUFFICES ASSUME NEW k \in LockKeys, locks'[k] # Null
             PROVE  push'[locks'[k]].pc = "checked" /\ PushLock(locks[k])' = k
    BY DEF LockOwned
<1>2. locks'[k] = locks[k] /\ locks[k] # Null
    BY <1>1 DEF EndTransaction
<1>3. push[locks[k]].pc = "checked" /\ PushLock(locks[k]) = k /\ locks[k] \in Handlers
    BY <1>1, <1>2 DEF LockOwned
<1>4. locks[k] # h
    BY <1>1, <1>2, <1>3 DEF EndTransaction
<1>5. push'[locks[k]] = push[locks[k]]
    BY <1>3, <1>4
<1> QED
    BY <1>2, <1>3, <1>5 DEF PushLock, PushBranch

\* The steps of HandlePush preserve it.
LEMMA IntakeInvIntake == TypeInv /\ IntakeInv /\ IntakeStep => IntakeInv'
<1> SUFFICES ASSUME TypeInv, IntakeInv, IntakeStep PROVE IntakeInv'
    OBVIOUS
<1>0. /\ push \in [Handlers -> Push] /\ jobs \in [Jobs -> JobRow]
      /\ locks \in [LockKeys -> Handlers \cup {Null}]
      /\ latest \in [Branches -> Deliveries \cup {Null}]
      /\ \A h \in Handlers : push[h].pc # "idle" => push[h].delivery \in Deliveries /\ PushBranch(h) \in Branches
      /\ \A h \in Handlers : push[h].pc # "idle" => PushLock(h) \in LockKeys
    BY IntakeAssumption DEF TypeInv, TypeOK, StoreTypeOK, IntakeTypeOK, PushTypeOK, PushBranch, PushLock
\* A handler that leaves "checked" or never was there, while the jobs stay.
<1>a. ASSUME NEW h \in Handlers, NEW p, push' = [push EXCEPT ![h] = p], p.pc # "checked",
             UNCHANGED <<jobs, latest>>,
             (UNCHANGED locks /\ push[h].pc # "checked") \/ EndTransaction(h)
      PROVE  IntakeInv'
    <2>1. AtMostOneQueued' /\ QueuedCarriesLatest'
        BY <1>a DEF IntakeInv, AtMostOneQueued, QueuedCarriesLatest, InStatus
    <2>2. \A g \in Handlers : push'[g].pc = "checked" => g # h /\ push'[g] = push[g]
        BY <1>0, <1>a
    <2>3. LockHeld'
        BY <1>0, <1>a, <2>2 DEF IntakeInv, LockHeld, PushBranch, PushLock, EndTransaction
    <2>5. LockOwned'
        BY <1>0, <1>a, OtherLocks DEF IntakeInv
    <2>4. CheckCurrent' /\ FoundOnBranch'
        BY <1>a, <2>2 DEF IntakeInv, CheckCurrent, FoundOnBranch, PushBranch
    <2>6. StaleIsLatest'
        BY <1>a, <2>2 DEF IntakeInv, StaleIsLatest, PushBranch
    <2> QED
        BY <2>1, <2>3, <2>4, <2>5, <2>6 DEF IntakeInv
<1>1. ASSUME NEW h \in Handlers, NEW d \in Deliveries, PushBegin(h, d) PROVE IntakeInv'
    <2> DEFINE p == [pc |-> "locking", delivery |-> d, job |-> Null, begun |-> requests + 1]
    <2>1. p.pc # "checked"
        OBVIOUS
    <2>2. push' = [push EXCEPT ![h] = p] /\ UNCHANGED <<jobs, latest, locks>> /\ push[h].pc # "checked"
        BY <1>1 DEF PushBegin
    <2> HIDE DEF p
    <2> QED
        BY <1>a, <2>1, <2>2
<1>2. ASSUME NEW h \in Handlers, PushCheck(h) PROVE IntakeInv'
    <2>1. PICK f \in QueuedJob(PushBranch(h)) : push' = [push EXCEPT ![h].pc = "checked", ![h].job = f]
        BY <1>2 DEF PushCheck
    <2>2. /\ push[h].pc = "locking" /\ PushBranch(h) \in Branches
          /\ locks[PushLock(h)] = Null /\ locks' = [locks EXCEPT ![PushLock(h)] = h]
          /\ UNCHANGED <<jobs, latest>>
        BY <1>0, <1>2 DEF PushCheck
    <2>3. /\ push'[h].pc = "checked" /\ push'[h].job = f /\ push'[h].delivery = push[h].delivery
          /\ \A g \in Handlers : g # h => push'[g] = push[g]
        BY <1>0, <2>1 DEF Push
    <2>4. PushBranch(h)' = PushBranch(h) /\ \A g \in Handlers : g # h => PushBranch(g)' = PushBranch(g)
        BY <2>3 DEF PushBranch
    <2>5. AtMostOneQueued' /\ QueuedCarriesLatest'
        BY <2>2 DEF IntakeInv, AtMostOneQueued, QueuedCarriesLatest, InStatus
    \* No other handler holds the lock that was free.
    <2>6. \A g \in Handlers : g # h /\ push[g].pc = "checked" => PushBranch(g) # PushBranch(h)
        BY <2>2, IntakeAssumption DEF IntakeInv, LockHeld, PushLock
    <2>7. LockHeld' /\ LockOwned'
        <3>1. PushLock(h)' = PushLock(h) /\ \A g \in Handlers : g # h => PushLock(g)' = PushLock(g)
            BY <2>4 DEF PushLock
        <3>2. \A g \in Handlers : g # h /\ push[g].pc = "checked" => PushLock(g) # PushLock(h)
            BY <2>2, IntakeAssumption DEF IntakeInv, LockHeld
        <3>3. LockHeld'
            BY <1>0, <2>2, <2>3, <3>1, <3>2 DEF IntakeInv, LockHeld
        <3>4. ASSUME NEW k \in LockKeys, locks'[k] # Null
              PROVE  push'[locks'[k]].pc = "checked" /\ PushLock(locks[k])' = k
            <4>1. CASE k = PushLock(h)
                BY <1>0, <2>2, <2>3, <3>1, <4>1
            <4>2. CASE k # PushLock(h)
                <5>1. locks'[k] = locks[k] /\ locks[k] \in Handlers
                    BY <1>0, <2>2, <3>4, <4>2
                <5>2. push[locks[k]].pc = "checked" /\ PushLock(locks[k]) = k
                    BY <3>4, <5>1 DEF IntakeInv, LockOwned
                <5> QED
                    BY <2>2, <2>3, <3>1, <5>1, <5>2
            <4> QED
                BY <4>1, <4>2
        <3> QED
            BY <3>3, <3>4 DEF LockOwned
    <2>8. \A j \in Jobs : jobs[j].status = "queued" /\ jobs[j].branch = PushBranch(h) => j = f
        BY <2>1 DEF QueuedJob, GetActiveJobsForBranch, InStatus, IntakeInv, AtMostOneQueued
    <2>9. CheckCurrent'
        BY <2>2, <2>3, <2>4, <2>8 DEF IntakeInv, CheckCurrent
    <2>10. f # Null => jobs[f].branch = PushBranch(h) /\ jobs[f].status = "queued"
        BY <2>1 DEF QueuedJob, GetActiveJobsForBranch, InStatus
    <2>11. FoundOnBranch' /\ StaleIsLatest'
        BY <2>2, <2>3, <2>4, <2>10 DEF IntakeInv, FoundOnBranch, StaleIsLatest
    <2> QED
        BY <2>5, <2>7, <2>9, <2>11 DEF IntakeInv
\* The holder of a branch's lock commits: no other handler has checked the branch.
<1>b. ASSUME NEW h \in Handlers, push[h].pc = "checked"
      PROVE  \A g \in Handlers : g # h /\ push[g].pc = "checked" => PushBranch(g) # PushBranch(h)
    BY <1>b DEF IntakeInv, LockHeld, PushLock
<1>3. ASSUME NEW h \in Handlers, PushUpdate(h) PROVE IntakeInv'
    <2> DEFINE b == PushBranch(h)
    <2>1. /\ push[h].pc = "checked" /\ push[h].delivery \in Deliveries /\ b \in Branches
          /\ jobs' = UpdateJobCommitSHA(push[h].job, PushCommit(h))
          /\ push[h].job \in Jobs
          /\ push' = [push EXCEPT ![h] = Waiting]
          /\ latest' = [latest EXCEPT ![b] = push[h].delivery]
          /\ EndTransaction(h)
        BY <1>0, <1>3 DEF PushUpdate, Record, Return, Push
    <2>2. \A g \in Handlers : push'[g].pc = "checked" => g # h /\ push[g].pc = "checked" /\ push'[g] = push[g]
        BY <1>0, <2>1 DEF Waiting
    <2>3. \A j \in Jobs :
              /\ jobs'[j].branch = jobs[j].branch /\ jobs'[j].status = jobs[j].status
              /\ j # push[h].job => jobs'[j] = jobs[j]
              /\ j = push[h].job /\ jobs[j].status = "queued" => jobs'[j].commit = PushCommit(h)
        BY <1>0, <2>1 DEF UpdateJobCommitSHA, JobRow
    <2>4. LockHeld'
        BY <1>0, <2>1, <2>2 DEF IntakeInv, LockHeld, PushBranch, PushLock, EndTransaction
    <2>9. LockOwned'
        BY <1>0, <2>1, OtherLocks DEF IntakeInv
    <2>5. CheckCurrent'
        BY <2>2, <2>3 DEF IntakeInv, CheckCurrent, PushBranch
    <2>8. FoundOnBranch'
        BY <1>0, <2>2, <2>3 DEF IntakeInv, FoundOnBranch, PushBranch, Push
    \* Another handler's branch is another one, and so is the job it found.
    <2>10. StaleIsLatest'
        <3> SUFFICES ASSUME NEW g \in Handlers, push'[g].pc = "checked", push'[g].job # Null
                     PROVE  \/ jobs'[push'[g].job].status = "queued"
                            \/ /\ latest'[PushBranch(g)'] # Null
                               /\ jobs'[push'[g].job].commit = CommitOf[latest'[PushBranch(g)']]
            BY DEF StaleIsLatest
        <3>1. g # h /\ push[g].pc = "checked" /\ push'[g] = push[g] /\ PushBranch(g)' = PushBranch(g)
            BY <2>2 DEF PushBranch
        <3>2. PushBranch(g) # b /\ PushBranch(g) \in Branches
            BY <1>0, <1>b, <2>1, <3>1
        <3>3. PICK j \in Jobs : j = push[g].job
            BY <1>0, <3>1 DEF Push
        <3>4. j # push[h].job
            BY <2>1, <3>1, <3>2, <3>3, NullAssumption DEF IntakeInv, FoundOnBranch
        <3>5. jobs'[j] = jobs[j] /\ latest'[PushBranch(g)] = latest[PushBranch(g)]
            BY <1>0, <2>1, <2>3, <3>2, <3>4
        <3> QED
            BY <3>1, <3>3, <3>5 DEF IntakeInv, StaleIsLatest
    <2>6. AtMostOneQueued'
        BY <2>3 DEF IntakeInv, AtMostOneQueued, InStatus
    <2>7. QueuedCarriesLatest'
        <3> SUFFICES ASSUME NEW j \in Jobs, jobs'[j].status = "queued"
                     PROVE  /\ latest'[jobs'[j].branch] # Null
                            /\ jobs'[j].commit = CommitOf[latest'[jobs'[j].branch]]
            BY DEF QueuedCarriesLatest, InStatus
        <3>1. jobs[j].status = "queued" /\ jobs'[j].branch = jobs[j].branch
            BY <2>3
        <3>2. CASE jobs[j].branch = b
            <4>1. j = push[h].job
                BY <2>1, <3>1, <3>2 DEF IntakeInv, CheckCurrent
            <4>2. jobs'[j].commit = CommitOf[push[h].delivery]
                BY <2>3, <3>1, <4>1 DEF PushCommit
            <4>3. latest'[b] = push[h].delivery /\ push[h].delivery # Null
                BY <1>0, <2>1, NullAssumption
            <4> QED
                BY <3>1, <3>2, <4>2, <4>3
        <3>3. CASE jobs[j].branch # b
            <4>1. jobs'[j].commit = jobs[j].commit
                BY <2>1, <2>3, <3>3, NullAssumption DEF IntakeInv, FoundOnBranch
            <4> QED
                BY <1>0, <2>1, <3>1, <3>3, <4>1 DEF IntakeInv, QueuedCarriesLatest, InStatus
        <3> QED
            BY <3>2, <3>3
    <2> QED
        BY <2>4, <2>5, <2>6, <2>7, <2>8, <2>9, <2>10 DEF IntakeInv
<1>4. ASSUME NEW h \in Handlers, PushCreate(h) PROVE IntakeInv'
    <2> DEFINE b == PushBranch(h)
    <2>1. PICK j \in InStatus({"none"}) :
              /\ jobs' = CreateJob(j, PushBranch(h), PushCommit(h), DeliveryId(h), push[h].begun)
              /\ push' = [push EXCEPT ![h].pc = "enqueue", ![h].job = j]
        BY <1>4 DEF PushCreate
    <2>2. /\ push[h].pc = "checked" /\ push[h].job = Null /\ push[h].delivery \in Deliveries /\ b \in Branches
          /\ latest' = [latest EXCEPT ![b] = push[h].delivery]
          /\ EndTransaction(h)
          /\ j \in Jobs /\ jobs[j].status = "none"
        BY <1>0, <1>4 DEF PushCreate, Record, InStatus
    <2>3. \A g \in Handlers : push'[g].pc = "checked" => g # h /\ push[g].pc = "checked" /\ push'[g] = push[g]
        BY <1>0, <2>1 DEF Push
    <2>4. /\ jobs'[j].status = "queued" /\ jobs'[j].branch = b /\ jobs'[j].commit = CommitOf[push[h].delivery]
          /\ \A k \in Jobs : k # j => jobs'[k] = jobs[k]
        BY <1>0, <2>1, <2>2 DEF CreateJob, PushCommit
    \* The branch had no queued job: h found none, and what it found is current.
    <2>5. \A k \in Jobs : jobs[k].status = "queued" => jobs[k].branch # b
        BY <2>2, NullAssumption DEF IntakeInv, CheckCurrent
    <2>6. LockHeld'
        BY <1>0, <2>2, <2>3 DEF IntakeInv, LockHeld, PushBranch, PushLock, EndTransaction
    <2>11. LockOwned'
        BY <1>0, <2>1, <2>2, OtherLocks DEF IntakeInv
    <2>7. CheckCurrent'
        <3> SUFFICES ASSUME NEW g \in Handlers, push'[g].pc = "checked", NEW k \in Jobs,
                            jobs'[k].status = "queued", jobs'[k].branch = PushBranch(g)'
                     PROVE  k = push'[g].job
            BY DEF CheckCurrent
        <3>1. g # h /\ push[g].pc = "checked" /\ push'[g] = push[g] /\ PushBranch(g)' = PushBranch(g)
            BY <2>3 DEF PushBranch
        <3>2. k # j
            BY <1>b, <2>2, <2>4, <3>1
        <3> QED
            BY <2>4, <3>1, <3>2 DEF IntakeInv, CheckCurrent
    <2>8. AtMostOneQueued'
        <3> SUFFICES ASSUME NEW k \in Jobs, NEW l \in Jobs, jobs'[k].status = "queued",
                            jobs'[l].status = "queued", jobs'[k].branch = jobs'[l].branch
                     PROVE  k = l
            BY DEF AtMostOneQueued, InStatus
        <3>1. CASE k # j /\ l # j
            BY <2>4, <3>1 DEF IntakeInv, AtMostOneQueued, InStatus
        <3>2. CASE k = j \/ l = j
            BY <2>4, <2>5, <3>2
        <3> QED
            BY <3>1, <3>2
    <2>9. QueuedCarriesLatest'
        <3> SUFFICES ASSUME NEW k \in Jobs, jobs'[k].status = "queued"
                     PROVE  /\ latest'[jobs'[k].branch] # Null
                            /\ jobs'[k].commit = CommitOf[latest'[jobs'[k].branch]]
            BY DEF QueuedCarriesLatest, InStatus
        <3>1. CASE k = j
            BY <1>0, <2>2, <2>4, <3>1, NullAssumption
        <3>2. CASE k # j
            BY <1>0, <2>2, <2>4, <2>5, <3>2 DEF IntakeInv, QueuedCarriesLatest, InStatus
        <3> QED
            BY <3>1, <3>2
    <2>10. FoundOnBranch'
        <3> SUFFICES ASSUME NEW g \in Handlers, push'[g].pc = "checked", push'[g].job # Null
                     PROVE  /\ jobs'[push'[g].job].branch = PushBranch(g)'
                            /\ jobs'[push'[g].job].status # "none"
            BY DEF FoundOnBranch
        <3>1. push[g].pc = "checked" /\ push'[g] = push[g] /\ PushBranch(g)' = PushBranch(g)
            BY <2>3 DEF PushBranch
        <3>2. push[g].job \in Jobs
            BY <1>0, <3>1 DEF Push
        <3> QED
            BY <2>2, <2>4, <3>1, <3>2 DEF IntakeInv, FoundOnBranch
    <2>12. StaleIsLatest'
        <3> SUFFICES ASSUME NEW g \in Handlers, push'[g].pc = "checked", push'[g].job # Null
                     PROVE  \/ jobs'[push'[g].job].status = "queued"
                            \/ /\ latest'[PushBranch(g)'] # Null
                               /\ jobs'[push'[g].job].commit = CommitOf[latest'[PushBranch(g)']]
            BY DEF StaleIsLatest
        <3>1. g # h /\ push[g].pc = "checked" /\ push'[g] = push[g] /\ PushBranch(g)' = PushBranch(g)
            BY <2>3 DEF PushBranch
        <3>2. PushBranch(g) # b /\ PushBranch(g) \in Branches
            BY <1>0, <1>b, <2>2, <3>1
        <3>3. PICK i \in Jobs : i = push[g].job
            BY <1>0, <3>1 DEF Push
        <3>4. i # j
            BY <2>2, <3>1, <3>3 DEF IntakeInv, FoundOnBranch
        <3>5. jobs'[i] = jobs[i] /\ latest'[PushBranch(g)] = latest[PushBranch(g)]
            BY <1>0, <2>2, <2>4, <3>2, <3>4
        <3> QED
            BY <3>1, <3>3, <3>5 DEF IntakeInv, StaleIsLatest
    <2> QED
        BY <2>6, <2>7, <2>8, <2>9, <2>10, <2>11, <2>12 DEF IntakeInv
<1>5. ASSUME NEW h \in Handlers, PushDuplicate(h) \/ PushEnqueue(h) \/ PushAbort(h) PROVE IntakeInv'
    <2>1. /\ push' = [push EXCEPT ![h] = Waiting] /\ UNCHANGED <<jobs, latest>>
          /\ (UNCHANGED locks /\ push[h].pc # "checked") \/ EndTransaction(h)
        BY <1>5 DEF PushDuplicate, PushEnqueue, PushAbort, Return
    <2>2. Waiting.pc # "checked"
        BY DEF Waiting
    <2> QED
        BY <1>a, <2>1, <2>2
<1> QED
    BY <1>1, <1>2, <1>3, <1>4, <1>5 DEF IntakeStep, IntakeNext, PushStep

\* The invariant of the intake holds in every reachable state.
THEOREM IntakeCorrect == Spec => []IntakeInv
<1>1. TypeInv /\ IntakeInv /\ [Next]_vars => IntakeInv'
    <2>1. IntakeInv /\ UNCHANGED vars => IntakeInv'
        BY DEF vars, IntakeInv, LockHeld, LockOwned, CheckCurrent, FoundOnBranch, StaleIsLatest,
            AtMostOneQueued, QueuedCarriesLatest, InStatus, PushBranch, PushLock
    <2> QED
        BY <2>1, IntakeInvIntake, IntakeInvExec DEF Next
<1> QED
    BY <1>1, IntakeInvInit, TypeCorrect, PTL DEF Spec

\* No branch ever has two queued jobs, however many webhook requests race.
THEOREM QueueUnique == Spec => []AtMostOneQueued
<1>1. IntakeInv => AtMostOneQueued
    BY DEF IntakeInv
<1> QED
    BY <1>1, IntakeCorrect, PTL

\* Whatever hashes collide, a request that works on a branch holds its lock, and a lock
\* that is held belongs to a request at work.
THEOREM LocksSound == Spec => []LocksMatchRequests
<1>1. IntakeInv => LocksMatchRequests
    BY DEF IntakeInv, LockHeld, LockOwned, LocksMatchRequests
<1> QED
    BY <1>1, IntakeCorrect, PTL

\* A queued job always carries the commit of the push its branch committed last.
THEOREM QueueCurrent == Spec => []QueuedCarriesLatest
<1>1. IntakeInv => QueuedCarriesLatest
    BY DEF IntakeInv
<1> QED
    BY <1>1, IntakeCorrect, PTL
=============================================================================
