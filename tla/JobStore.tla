------------------------------ MODULE JobStore ------------------------------
(***************************************************************************)
(* The jobs and snapshots tables of one repository, and the SQL statements *)
(* of shared/go/store that read and write them.  Every statement is an     *)
(* operator on the value of a table, so that the handlers can compose the  *)
(* statements of one transaction and commit them in one step.              *)
(*                                                                         *)
(* Postgres runs the handlers' transactions at READ COMMITTED.  A          *)
(* transaction that holds a row lock (SELECT ... FOR UPDATE, or the UPDATE *)
(* of a row) until it commits is one step of the model; a transaction that *)
(* reads without a lock and writes later is split at that point (see       *)
(* PushIntake).                                                            *)
(***************************************************************************)
EXTENDS Naturals, Sequences

CONSTANTS
    Jobs,        \* the job ids gen_random_uuid() may draw
    Branches,    \* the branches of the repository
    Commits,     \* commit SHAs
    Deliveries,  \* webhook deliveries
    TimeoutAge,  \* the watchdog's threshold, in ticks of the clock
    Null         \* SQL NULL, Go's zero value

ASSUME NullAssumption == Null \notin Jobs \cup Branches \cup Commits \cup Deliveries
ASSUME TimeoutAssumption == TimeoutAge \in Nat

VARIABLES
    jobs,        \* the jobs table: id -> row
    snapshots    \* the snapshots table, in the order of created_at

-----------------------------------------------------------------------------
JobStatus == {"queued", "running", "succeeded", "failed", "cancelled", "superseded"}

IsTerminal(status) == status \in {"succeeded", "failed", "cancelled", "superseded"}

\* A row.  status "none" stands for an id that is not in the table.  age is
\* now() - started_at in ticks, counted while the job runs and kept at 0
\* otherwise; beyond the watchdog's threshold every age is the same.
JobRow == [status : JobStatus \cup {"none"}, branch : Branches \cup {Null},
           commit : Commits \cup {Null}, delivery : Deliveries \cup {Null},
           created : Nat, age : 0 .. TimeoutAge + 1]

NoRow == [status |-> "none", branch |-> Null, commit |-> Null,
          delivery |-> Null, created |-> 0, age |-> 0]

\* gcs_path is organisation/repository/commit: within one repository, the commit.
SnapshotRow == [job : Jobs, branch : Branches, commit : Commits, path : Commits]

StoreTypeOK == jobs \in [Jobs -> JobRow] /\ snapshots \in Seq(SnapshotRow)

StoreInit == jobs = [j \in Jobs |-> NoRow] /\ snapshots = <<>>

-----------------------------------------------------------------------------
InStatus(S) == {j \in Jobs : jobs[j].status \in S}

\* idx_jobs_delivery_id, a unique index on the delivery ids that are not NULL.
DeliveryTaken(delivery) ==
    delivery # Null /\ \E j \in Jobs : jobs[j].delivery = delivery

\* The status of the row is not looked at.
CreateJob(j, branch, commit, delivery, now) ==
    [jobs EXCEPT ![j] = [status |-> "queued", branch |-> branch, commit |-> commit,
                         delivery |-> delivery, created |-> now, age |-> 0]]

GetActiveJobsForBranch(branch) ==
    {j \in InStatus({"queued", "running"}) : jobs[j].branch = branch}

Bug_UpdateAnyCommitSHA(j, commit) == [jobs EXCEPT ![j].commit = commit]

\* ... WHERE id = $1 AND status = 'queued': a job that has left the queue is
\* left as it is, and the caller is not told.
UpdateJobCommitSHA(j, commit) ==
    IF jobs[j].status = "queued" THEN [jobs EXCEPT ![j].commit = commit] ELSE jobs

\* Unconditional: whatever the row's status is, it becomes the new one.
UpdateJobStatus(j, status) == [jobs EXCEPT ![j].status = status, ![j].age = 0]

Bug_ClaimableInAnyStatus(locked) ==
    {j \in InStatus({"queued", "running"}) :
        \A k \in InStatus({"queued", "running"}) \ locked : jobs[j].created <= jobs[k].created}

Bug_ClaimableOldestJob(locked) ==
    {j \in InStatus({"queued"}) :
        \A k \in InStatus(JobStatus) \ locked : jobs[j].created <= jobs[k].created}

\* The rows the sub-select of ClaimJob can return: the oldest queued one, where
\* FOR UPDATE SKIP LOCKED passes over a row that another transaction has locked.
ClaimableJobs(locked) ==
    {j \in InStatus({"queued"}) :
        \A k \in InStatus({"queued"}) \ locked : jobs[j].created <= jobs[k].created}

Bug_OverdueInQueue == {j \in InStatus({"queued"}) : jobs[j].age > TimeoutAge}

Overdue == {j \in InStatus({"running"}) : jobs[j].age > TimeoutAge}

TimeoutRunningJobs ==
    [j \in Jobs |-> IF j \in Overdue
                    THEN [jobs[j] EXCEPT !.status = "failed", !.age = 0] ELSE jobs[j]]

-----------------------------------------------------------------------------
\* idx_snapshots_unique, a unique index on (repo_id, branch, commit_sha).
SnapshotExists(branch, commit) ==
    \E i \in DOMAIN snapshots :
        snapshots[i].branch = branch /\ snapshots[i].commit = commit

\* ORDER BY created_at DESC LIMIT 1; the latest snapshot of a branch, if it has one.
GetLatestSnapshot(branch) ==
    {snapshots[i] : i \in {k \in DOMAIN snapshots :
        /\ snapshots[k].branch = branch
        /\ \A n \in DOMAIN snapshots : snapshots[n].branch = branch => n <= k}}

\* No ON CONFLICT clause: on a duplicate the statement fails (see Complete).
InsertSnapshot(j, path) ==
    Append(snapshots, [job |-> j, branch |-> jobs[j].branch,
                       commit |-> jobs[j].commit, path |-> path])
=============================================================================
