----------------------------- MODULE PushIntake -----------------------------
(***************************************************************************)
(* JobService.HandlePush, run by one API request handler per webhook       *)
(* delivery of a registered repository (a delivery for an unregistered one *)
(* changes nothing).  Handlers run concurrently, in one API instance or    *)
(* several; only the advisory lock of the branch's hash orders them.       *)
(*                                                                         *)
(* The transaction is split where other transactions can get in between:   *)
(* its begin fixes now(), hence created_at; the lock may be waited for;    *)
(* the active jobs are read without a row lock, so Start, ClaimJob,        *)
(* Complete and Timeout may all change a job between that read and the     *)
(* write that depends on it; and the task is enqueued after the commit.    *)
(***************************************************************************)
EXTENDS Dispatch

CONSTANTS
    Handlers,     \* concurrent webhook requests
    BranchOf,     \* delivery -> the branch pushed to
    CommitOf,     \* delivery -> the commit pushed
    Anonymous,    \* the deliveries that come without X-GitHub-Delivery
    LockKeys,     \* the values hashtext may take
    LockOf,       \* branch -> the hash of repository and branch; two branches may share one
    MaxRequests   \* bound on the webhook requests of a behaviour

ASSUME IntakeAssumption ==
    /\ BranchOf \in [Deliveries -> Branches]
    /\ CommitOf \in [Deliveries -> Commits]
    /\ LockOf \in [Branches -> LockKeys]
    /\ Anonymous \subseteq Deliveries
    /\ MaxRequests \in Nat
    /\ Null \notin Handlers

VARIABLES
    push,      \* handler -> its program counter and local variables
    locks,     \* lock key -> the handler whose transaction holds that advisory lock
    requests,  \* webhook requests begun so far; serves as their now()
    latest,    \* history: branch -> the delivery committed last
    applied    \* history: the deliveries in the order in which their transactions committed

intakeVars == <<push, locks, requests, latest, applied>>

Push == [pc : {"idle", "locking", "checked", "enqueue"}, delivery : Deliveries \cup {Null},
         job : Jobs \cup {Null}, begun : Nat]

Waiting == [pc |-> "idle", delivery |-> Null, job |-> Null, begun |-> 0]

PushTypeOK ==
    /\ push \in [Handlers -> Push]
    /\ \A h \in Handlers : push[h].pc # "idle" => push[h].delivery \in Deliveries
    /\ \A h \in Handlers : push[h].pc = "enqueue" => push[h].job \in Jobs

IntakeTypeOK ==
    /\ PushTypeOK
    /\ locks \in [LockKeys -> Handlers \cup {Null}]
    /\ requests \in 0 .. MaxRequests
    /\ latest \in [Branches -> Deliveries \cup {Null}]
    /\ applied \in Seq(Deliveries)

IntakeInit ==
    /\ push = [h \in Handlers |-> Waiting]
    /\ locks = [k \in LockKeys |-> Null]
    /\ requests = 0
    /\ latest = [b \in Branches |-> Null]
    /\ applied = <<>>

-----------------------------------------------------------------------------
PushBranch(h) == BranchOf[push[h].delivery]
PushCommit(h) == CommitOf[push[h].delivery]
PushLock(h) == LockOf[PushBranch(h)]

\* NULLIF($4, ''): a request without the header stores NULL.
DeliveryId(h) == IF push[h].delivery \in Anonymous THEN Null ELSE push[h].delivery

EndTransaction(h) == locks' = [k \in LockKeys |-> IF locks[k] = h THEN Null ELSE locks[k]]

Record(h) ==
    /\ latest' = [latest EXCEPT ![PushBranch(h)] = push[h].delivery]
    /\ applied' = Append(applied, push[h].delivery)

Return(h) == push' = [push EXCEPT ![h] = Waiting]

\* A delivery arrives, for the first time or again: Begin, GetRepoByGithubID.
PushBegin(h, d) ==
    /\ push[h].pc = "idle"
    /\ requests < MaxRequests
    /\ requests' = requests + 1
    /\ push' = [push EXCEPT ![h] = [pc |-> "locking", delivery |-> d,
                                    job |-> Null, begun |-> requests + 1]]
    /\ UNCHANGED <<jobs, snapshots, attempts, locks, latest, applied>>

\* The first queued job of the branch, if it has one.
QueuedJob(branch) ==
    LET queued == {j \in GetActiveJobsForBranch(branch) : jobs[j].status = "queued"}
    IN IF queued = {} THEN {Null}
       ELSE {j \in queued : \A k \in queued : jobs[j].created <= jobs[k].created}

Bug_PushCheckUnlocked(h) ==
    /\ push[h].pc = "locking"
    /\ \E j \in QueuedJob(PushBranch(h)) :
           push' = [push EXCEPT ![h].pc = "checked", ![h].job = j]
    /\ UNCHANGED <<jobs, snapshots, attempts, locks, requests, latest, applied>>

\* pg_advisory_xact_lock, then GetActiveJobsForBranch.
PushCheck(h) ==
    /\ push[h].pc = "locking"
    /\ locks[PushLock(h)] = Null
    /\ locks' = [locks EXCEPT ![PushLock(h)] = h]
    /\ \E j \in QueuedJob(PushBranch(h)) :
           push' = [push EXCEPT ![h].pc = "checked", ![h].job = j]
    /\ UNCHANGED <<jobs, snapshots, attempts, requests, latest, applied>>

\* A queued job was found: update it in place, commit, answer 202.
PushUpdate(h) ==
    /\ push[h].pc = "checked"
    /\ push[h].job # Null
    /\ jobs' = UpdateJobCommitSHA(push[h].job, PushCommit(h))
    /\ Record(h)
    /\ EndTransaction(h)
    /\ Return(h)
    /\ UNCHANGED <<snapshots, attempts, requests>>

Bug_PushCreateUnqueued(h) ==
    /\ push[h].pc = "checked"
    /\ push[h].job = Null
    /\ ~DeliveryTaken(DeliveryId(h))
    /\ \E j \in InStatus({"none"}) :
           jobs' = CreateJob(j, PushBranch(h), PushCommit(h), DeliveryId(h), push[h].begun)
    /\ Record(h)
    /\ EndTransaction(h)
    /\ Return(h)
    /\ UNCHANGED <<snapshots, attempts, requests>>

\* No queued job was found: insert one and commit.
PushCreate(h) ==
    /\ push[h].pc = "checked"
    /\ push[h].job = Null
    /\ ~DeliveryTaken(DeliveryId(h))
    /\ \E j \in InStatus({"none"}) :
           /\ jobs' = CreateJob(j, PushBranch(h), PushCommit(h), DeliveryId(h), push[h].begun)
           /\ push' = [push EXCEPT ![h].pc = "enqueue", ![h].job = j]
    /\ Record(h)
    /\ EndTransaction(h)
    /\ UNCHANGED <<snapshots, attempts, requests>>

\* The insert violates the unique index on delivery_id: roll back, answer 202.
PushDuplicate(h) ==
    /\ push[h].pc = "checked"
    /\ push[h].job = Null
    /\ DeliveryTaken(DeliveryId(h))
    /\ EndTransaction(h)
    /\ Return(h)
    /\ UNCHANGED <<jobs, snapshots, attempts, requests, latest, applied>>

\* After the commit: sign a token and enqueue.  A failure is logged, no more.
PushEnqueue(h) ==
    /\ push[h].pc = "enqueue"
    /\ \/ Enqueue(push[h].job)
       \/ "enqueue" \in Faults /\ UNCHANGED attempts
    /\ Return(h)
    /\ UNCHANGED <<jobs, snapshots, locks, requests, latest, applied>>

Bug_PushAbortKeepsLock(h) ==
    /\ "api" \in Faults
    /\ push[h].pc # "idle"
    /\ Return(h)
    /\ UNCHANGED <<jobs, snapshots, attempts, locks, requests, latest, applied>>

\* A statement fails, the request is cancelled or the instance dies.  Before the
\* commit Postgres rolls back; after it the job stays, without a task.
PushAbort(h) ==
    /\ "api" \in Faults
    /\ push[h].pc # "idle"
    /\ EndTransaction(h)
    /\ Return(h)
    /\ UNCHANGED <<jobs, snapshots, attempts, requests, latest, applied>>

\* All of HandlePush but the enqueue.
PushStep(h) ==
    \/ \E d \in Deliveries : PushBegin(h, d)
    \/ PushCheck(h)
    \/ PushUpdate(h)
    \/ PushCreate(h)
    \/ PushDuplicate(h)
    \/ PushAbort(h)

IntakeNext == \E h \in Handlers : PushStep(h) \/ PushEnqueue(h)
=============================================================================
