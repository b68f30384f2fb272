----------------------------- MODULE JobSystem ------------------------------
(***************************************************************************)
(* The job system of zagforge-cloud: webhook intake, dispatch, execution   *)
(* and watchdog, working on the same tables.                               *)
(***************************************************************************)
EXTENDS PushIntake, Execution

vars == <<jobs, snapshots, attempts, push, locks, requests, latest, applied, exec, objects>>

Init == StoreInit /\ DispatchInit /\ IntakeInit /\ ExecInit

\* The rows an update in place may have locked when a worker claims.
RowsBeingUpdated == {push[h].job : h \in {g \in Handlers : push[g].pc = "checked"}}

IntakeStep == IntakeNext /\ UNCHANGED execVars
ExecStep == ExecNext(RowsBeingUpdated) /\ UNCHANGED intakeVars

Next == IntakeStep \/ ExecStep

Spec == Init /\ [][Next]_vars

\* A request handler runs to its end (the lock queue of Postgres is fair), and so
\* does an execution; Cloud Tasks delivers, the poller polls, Cloud Scheduler
\* calls the watchdog, time passes.  Webhooks need not arrive, nor faults occur.
Fairness ==
    /\ \A h \in Handlers :
        /\ SF_vars(PushCheck(h) /\ UNCHANGED execVars)
        /\ WF_vars((PushUpdate(h) \/ PushCreate(h) \/ PushDuplicate(h) \/ PushEnqueue(h))
                   /\ UNCHANGED execVars)
    /\ \A w \in Workers : WF_vars(WorkerStep(w) /\ UNCHANGED intakeVars)
    /\ \A j \in Jobs : WF_vars((\E w \in Workers : Deliver(w, j)) /\ UNCHANGED intakeVars)
    /\ WF_vars((\E w \in Workers : Claim(w, RowsBeingUpdated)) /\ UNCHANGED intakeVars)
    /\ WF_vars(Timeout /\ UNCHANGED intakeVars)
    /\ WF_vars(Tick /\ UNCHANGED intakeVars)

FairSpec == Spec /\ Fairness

-----------------------------------------------------------------------------
TypeOK == StoreTypeOK /\ DispatchTypeOK /\ IntakeTypeOK /\ ExecTypeOK

\* However webhook requests interleave, a branch never has two queued jobs
\* (job.go: "if a queued job already exists for this branch, update ... in place").
AtMostOneQueued ==
    \A j, k \in InStatus({"queued"}) : jobs[j].branch = jobs[k].branch => j = k

\* An advisory lock is held by the request that works on a branch of its hash, and by
\* no other; one that is held belongs to a request that is still at work, so neither
\* an error nor the death of an instance leaves a lock behind.
LocksMatchRequests ==
    /\ \A h \in Handlers : push[h].pc = "checked" => locks[PushLock(h)] = h
    /\ \A k \in LockKeys : locks[k] # Null => push[locks[k]].pc = "checked" /\ PushLock(locks[k]) = k

\* A queued job builds the commit of the push its branch has committed last: no
\* interleaving of two requests leaves an older commit in the queue.
QueuedCarriesLatest ==
    \A j \in InStatus({"queued"}) :
        /\ latest[jobs[j].branch] # Null
        /\ jobs[j].commit = CommitOf[latest[jobs[j].branch]]

\* An execution works on the commit its job records, from the start callback to
\* the complete callback, so what it uploads is what the snapshot row will name.
ExecutionBuildsItsCommit ==
    \A w \in Workers :
        exec[w].pc \in {"running", "succeeding"} => exec[w].commit = jobs[exec[w].job].commit

\* Exactly the succeeded jobs have a snapshot, one each, of their own branch and
\* commit, at the path of that commit, and the bucket holds the object.
SnapshotsMatchJobs ==
    /\ \A i \in DOMAIN snapshots :
        LET s == snapshots[i] IN
        /\ jobs[s.job].status = "succeeded"
        /\ s.branch = jobs[s.job].branch
        /\ s.commit = jobs[s.job].commit
        /\ s.path = s.commit
        /\ s.path \in objects
    /\ \A j \in InStatus({"succeeded"}) : \E i \in DOMAIN snapshots : snapshots[i].job = j
    /\ \A i, k \in DOMAIN snapshots : snapshots[i].job = snapshots[k].job => i = k

\* With Cloud Tasks and without faults no queued job is forgotten: its task is about
\* to be enqueued, or waits, or is being executed; and no task is enqueued before
\* its job is committed.
QueuedJobsHaveTasks ==
    /\ \A j \in InStatus({"queued"}) :
        \/ attempts[j] > 0
        \/ \E h \in Handlers : push[h].pc = "enqueue" /\ push[h].job = j
        \/ \E w \in Workers : exec[w].pc = "starting" /\ exec[w].job = j
    /\ \A j \in Jobs : attempts[j] > 0 => jobs[j].status # "none"

\* With polling no two executions work on one job: a claim takes a job out of the
\* queue for good, even if the claiming worker dies.
OneExecutionPerJob ==
    \A w, v \in Workers :
        exec[w].pc # "idle" /\ exec[v].pc # "idle" /\ exec[w].job = exec[v].job => w = v

\* Terminal is final: no late callback, duplicate delivery, retry, poller or
\* watchdog changes a job that has ended, except that a failed claim may mark a
\* failed job failed again.
TerminalIsFinal ==
    [][\A j \in Jobs : IsTerminal(jobs[j].status) => jobs'[j] = jobs[j]]_vars

LeftQueue(j) == jobs[j].status \notin {"none", "queued"}

\* Once a job has left the queue no push changes the commit it builds.
CommitFixedAfterQueue ==
    [][\A j \in Jobs : LeftQueue(j) => jobs'[j].commit = jobs[j].commit]_vars

IsPushOf(d, s) == BranchOf[d] = s.branch /\ CommitOf[d] = s.commit

\* Of two rows, jobs or snapshots: a push of the first was committed before one of the other.
PushedBefore(s, t) ==
    \E p, q \in DOMAIN applied : p < q /\ IsPushOf(applied[p], s) /\ IsPushOf(applied[q], t)

\* A job that starts builds a commit pushed after those of all jobs of its branch which
\* left the queue before: neither the claim order nor the order of the tasks, retries
\* and redeliveries included, starts the jobs of one branch out of the order of pushes.
JobsStartInOrder ==
    [][\A j, k \in Jobs :
           /\ jobs[j].status = "queued" /\ jobs'[j].status = "running"
           /\ LeftQueue(k) /\ jobs[k].branch = jobs[j].branch
           => PushedBefore(jobs[k], jobs[j])]_vars

\* With one execution at a time and no retries (polling has none), the latest snapshot
\* of a branch is replaced only by one whose commit was pushed later (03-job-system.md:
\* "the newer job's snapshot will supersede it").
LatestNeverGoesBack ==
    [][(PollMode \/ MaxAttempts = 1) /\ (\A w, v \in Workers : w = v) =>
           \A b \in Branches : \A s \in GetLatestSnapshot(b), t \in GetLatestSnapshot(b)' :
               s # t => PushedBefore(s, t)]_vars

\* The job system implements the abstract life of its jobs.
Lifecycle == INSTANCE JobLifecycle WITH
    Job <- Jobs, Branch <- Branches, Commit <- Commits, None <- Null,
    state <- [j \in Jobs |-> jobs[j].status],
    target <- [j \in Jobs |-> [branch |-> jobs[j].branch, commit |-> jobs[j].commit]],
    published <- {[job |-> snapshots[i].job,
                   target |-> [branch |-> snapshots[i].branch, commit |-> snapshots[i].commit]] :
                      i \in DOMAIN snapshots}

ImplementsLifecycle == Lifecycle!Spec

QueuedOn(b) == {j \in InStatus({"queued"}) : jobs[j].branch = b}

\* The member of a set that has one, or Null.
OnlyOf(S) == IF S = {} THEN Null ELSE CHOOSE j \in S : TRUE

\* To the pushes and to those who take jobs, each branch is a queue of one place.
Queue == INSTANCE BranchQueue WITH
    Branch <- Branches, Commit <- Commits, Job <- Jobs, None <- Null,
    slot <- [b \in Branches |-> OnlyOf(QueuedOn(b))],
    last <- [b \in Branches |-> IF latest[b] = Null THEN Null ELSE CommitOf[latest[b]]],
    taken <- {[job |-> j, branch |-> jobs[j].branch, commit |-> jobs[j].commit] :
                  j \in {k \in Jobs : LeftQueue(k)}}

ImplementsBranchQueue == Queue!Spec

\* Every job that runs ends: by a callback or, at the latest, by the watchdog.
RunningJobsEnd == \A j \in Jobs : jobs[j].status = "running" ~> IsTerminal(jobs[j].status)

\* Every job that is queued is eventually taken out of the queue.
QueuedJobsStart == \A j \in Jobs : jobs[j].status = "queued" ~> jobs[j].status # "queued"

\* Every webhook request returns: the advisory locks are always released.
RequestsReturn == \A h \in Handlers : push[h].pc # "idle" ~> push[h].pc = "idle"
=============================================================================
