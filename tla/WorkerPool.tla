----------------------------- MODULE WorkerPool -----------------------------
(***************************************************************************)
(* One worker process in poll mode, from the inside: the poll loop with    *)
(* its free slots, the runner's pool of goroutines with its two counters,  *)
(* the shutdown by a signal and the drain, and the directory into which    *)
(* every execution of the process lets zigzag write its report.            *)
(*                                                                         *)
(* What happens to a job in the database is Execution's subject; here a    *)
(* job is queued until this process claims it.                             *)
(***************************************************************************)
EXTENDS Integers, FiniteSets

CONSTANTS
    Jobs,
    Commits,         \* also stand for the trees and for the reports on them
    CommitOf,        \* job -> the commit the start callback tells
    Limits,          \* the settings of MAX_CONCURRENCY to look at
    Tips,            \* job -> the commits its branch may point to while it runs; the
                     \* jobs are of different branches
    Null

ASSUME PoolAssumption ==
    /\ IsFiniteSet(Jobs)
    /\ CommitOf \in [Jobs -> Commits]
    /\ Limits \subseteq Nat \ {0}
    /\ Tips \in [Jobs -> SUBSET Commits]
    /\ \A j \in Jobs : CommitOf[j] \in Tips[j]
    /\ Null \notin Jobs \cup Commits

VARIABLES
    maxConcurrency,  \* Poller.maxConcurrency, which never changes
    poller,    \* the goroutine of Poller.Run
    run,       \* job -> the goroutine that executes it
    inflight,  \* Runner.inflight
    waiting,   \* the counter of Runner.wg
    stop,      \* ctx is cancelled: SIGINT or SIGTERM has come
    report,    \* the content of report.json in ReportsDir
    bucket,    \* commit -> the report stored under its path
    tip        \* job -> the commit its branch points to, on GitHub

vars == <<maxConcurrency, poller, run, inflight, waiting, stop, report, bucket, tip>>

Poller == [pc : {"select", "batch", "claimed", "draining", "drained", "abandoned"},
           slots : Int, job : Jobs \cup {Null}]

Run == [pc : {"queued", "unrun", "starting", "cloning", "cloned", "collecting", "reading",
              "completing", "returned", "leaving", "gone"},
        tree : Commits \cup {Null}, measured : Commits \cup {Null}]

Init ==
    /\ maxConcurrency \in Limits
    /\ poller = [pc |-> "select", slots |-> 0, job |-> Null]
    /\ run = [j \in Jobs |-> [pc |-> "queued", tree |-> Null, measured |-> Null]]
    /\ inflight = 0 /\ waiting = 0
    /\ stop = FALSE
    /\ report = Null
    /\ bucket = [c \in Commits |-> Null]
    /\ tip = CommitOf

Queued == {j \in Jobs : run[j].pc = "queued"}

\* The jobs whose function has been handed to GoWait and has not returned.
Executing == {j \in Jobs : run[j].pc \in {"starting", "cloning", "cloned", "collecting",
                                          "reading", "completing"}}

-----------------------------------------------------------------------------
(* The poll loop.                                                          *)

runnerVars == <<maxConcurrency, run, inflight, waiting, report, bucket, tip>>

Bug_PollBatchAllSlots ==
    /\ poller.pc = "select"
    /\ poller' = [poller EXCEPT !.pc = "batch", !.slots = maxConcurrency]
    /\ UNCHANGED <<stop, runnerVars>>

Bug_PollBatchWhileDraining ==
    /\ poller.pc \in {"select", "draining"}
    /\ poller' = [poller EXCEPT !.pc = "batch", !.slots = maxConcurrency - inflight]
    /\ UNCHANGED <<stop, runnerVars>>

\* The ticker fires: pollBatch counts the free slots once.
PollBatch ==
    /\ poller.pc = "select"
    /\ poller' = [poller EXCEPT !.pc = "batch", !.slots = maxConcurrency - inflight]
    /\ UNCHANGED <<stop, runnerVars>>

\* No slot is left, ctx is cancelled (before or during the query), or the queue is
\* empty; or the query fails.
BatchEnds ==
    /\ poller.pc = "batch"
    /\ poller' = [poller EXCEPT !.pc = "select", !.slots = 0]
    /\ UNCHANGED <<stop, runnerVars>>

\* claimOne: ClaimJob returns a row.
ClaimOne(j) ==
    /\ poller.pc = "batch" /\ poller.slots > 0
    /\ j \in Queued
    /\ poller' = [poller EXCEPT !.pc = "claimed", !.job = j]
    /\ UNCHANGED <<stop, runnerVars>>

Bug_GoWaitUncounted ==
    /\ poller.pc = "claimed"
    /\ poller' = [pc |-> "batch", slots |-> poller.slots - 1, job |-> Null]
    /\ run' = [run EXCEPT ![poller.job].pc = "starting"]
    /\ waiting' = waiting + 1
    /\ UNCHANGED <<maxConcurrency, inflight, stop, report, bucket, tip>>

\* claimOne, continued: both counters are incremented before the goroutine starts.
GoWait ==
    /\ poller.pc = "claimed"
    /\ poller' = [pc |-> "batch", slots |-> poller.slots - 1, job |-> Null]
    /\ run' = [run EXCEPT ![poller.job].pc = "starting"]
    /\ inflight' = inflight + 1
    /\ waiting' = waiting + 1
    /\ UNCHANGED <<maxConcurrency, stop, report, bucket, tip>>

\* claimOne, continued: GetRepoForJob fails, which ends the batch.
ClaimOneFails ==
    /\ poller.pc = "claimed"
    /\ poller' = [pc |-> "select", slots |-> 0, job |-> Null]
    /\ run' = [run EXCEPT ![poller.job].pc = "unrun"]
    /\ UNCHANGED <<maxConcurrency, inflight, waiting, stop, report, bucket, tip>>

\* SIGINT or SIGTERM.
Shutdown ==
    /\ poller.pc \notin {"drained", "abandoned"}
    /\ ~stop
    /\ stop' = TRUE
    /\ UNCHANGED <<poller, runnerVars>>

\* The select in Run sees ctx.Done and calls Drain.
BeginDrain ==
    /\ poller.pc = "select"
    /\ stop
    /\ poller' = [poller EXCEPT !.pc = "draining"]
    /\ UNCHANGED <<stop, runnerVars>>

\* wg.Wait returns, done is closed.
DrainDone ==
    /\ poller.pc = "draining"
    /\ waiting = 0
    /\ poller' = [poller EXCEPT !.pc = "drained"]
    /\ UNCHANGED <<stop, runnerVars>>

Bug_DrainWithoutDeadline == FALSE /\ UNCHANGED vars

Bug_DrainDeadlineIgnored ==
    /\ poller.pc = "draining"
    /\ poller' = [poller EXCEPT !.pc = "drained"]
    /\ UNCHANGED <<stop, runnerVars>>

Bug_DrainDeadlineUnchecked ==
    /\ poller.pc = "draining"
    /\ poller' = [poller EXCEPT !.pc = "abandoned"]
    /\ UNCHANGED <<stop, runnerVars>>

\* The hard timeout: an error unless no job is in flight any more.
DrainDeadline ==
    /\ poller.pc = "draining"
    /\ poller' = [poller EXCEPT !.pc = IF inflight = 0 THEN "drained" ELSE "abandoned"]
    /\ UNCHANGED <<stop, runnerVars>>

PollerStep ==
    \/ PollBatch \/ BatchEnds \/ (\E j \in Jobs : ClaimOne(j)) \/ GoWait \/ ClaimOneFails
    \/ BeginDrain \/ DrainDone \/ DrainDeadline

-----------------------------------------------------------------------------
(* A goroutine of the pool: Execute, and the bookkeeping around it.  All   *)
(* goroutines end with the process.                                        *)

At(j, pc) == run[j].pc = pc /\ poller.pc \notin {"drained", "abandoned"}
Goto(j, pc) == run' = [run EXCEPT ![j].pc = pc]

\* api.Start
StartJob(j) ==
    /\ At(j, "starting")
    /\ Goto(j, "cloning")
    /\ UNCHANGED <<maxConcurrency, poller, inflight, waiting, stop, report, bucket, tip>>

\* CloneRepo: a shallow clone of the branch, into a directory of the job's own.
Clone(j) ==
    /\ At(j, "cloning")
    /\ run' = [run EXCEPT ![j].pc = "cloned", ![j].tree = tip[j]]
    /\ UNCHANGED <<maxConcurrency, poller, inflight, waiting, stop, report, bucket, tip>>

\* zigzag, which reads the job's tree and writes ReportsDir/report.json.
Zigzag(j) ==
    /\ At(j, "cloned")
    /\ report' = run[j].tree
    /\ Goto(j, "collecting")
    /\ UNCHANGED <<maxConcurrency, poller, inflight, waiting, stop, bucket, tip>>

\* collectResult: version and size, from what ReportsDir holds.
Collect(j) ==
    /\ At(j, "collecting")
    /\ run' = [run EXCEPT ![j].pc = "reading", ![j].measured = report]
    /\ UNCHANGED <<maxConcurrency, poller, inflight, waiting, stop, report, bucket, tip>>

\* readReportFile, again from ReportsDir, and Upload to the path of the commit.
Upload(j) ==
    /\ At(j, "reading")
    /\ bucket' = [bucket EXCEPT ![CommitOf[j]] = report]
    /\ Goto(j, "completing")
    /\ UNCHANGED <<maxConcurrency, poller, inflight, waiting, stop, report, tip>>

\* The start callback, clone, zigzag, collectResult or the upload fails, or JobTimeout
\* ends it; a failing zigzag may have written its report.
Fail(j) ==
    /\ \E pc \in {"starting", "cloning", "cloned", "collecting", "reading"} : At(j, pc)
    /\ run' = [run EXCEPT ![j].pc = "completing", ![j].measured = Null]
    /\ \/ UNCHANGED report
       \/ run[j].pc = "cloned" /\ report' = run[j].tree
    /\ UNCHANGED <<maxConcurrency, poller, inflight, waiting, stop, bucket, tip>>

\* api.Complete, whatever its outcome: Execute returns.
CompleteJob(j) ==
    /\ At(j, "completing")
    /\ Goto(j, "returned")
    /\ UNCHANGED <<maxConcurrency, poller, inflight, waiting, stop, report, bucket, tip>>

\* The deferred inflight.Add(-1), then the WaitGroup's Done.
Leave(j) ==
    /\ At(j, "returned")
    /\ Goto(j, "leaving")
    /\ inflight' = inflight - 1
    /\ UNCHANGED <<maxConcurrency, poller, waiting, stop, report, bucket, tip>>

WaitGroupDone(j) ==
    /\ At(j, "leaving")
    /\ Goto(j, "gone")
    /\ waiting' = waiting - 1
    /\ UNCHANGED <<maxConcurrency, poller, inflight, stop, report, bucket, tip>>

RunStep(j) ==
    \/ StartJob(j) \/ Clone(j) \/ Zigzag(j) \/ Collect(j) \/ Upload(j) \/ Fail(j)
    \/ CompleteJob(j) \/ Leave(j) \/ WaitGroupDone(j)

\* Somebody pushes to the branch of a job.
BranchMoves(j, c) ==
    /\ poller.pc \notin {"drained", "abandoned"}
    /\ c # tip[j]
    /\ tip' = [tip EXCEPT ![j] = c]
    /\ UNCHANGED <<maxConcurrency, poller, run, inflight, waiting, stop, report, bucket>>

Next ==
    \/ PollerStep \/ Shutdown
    \/ \E j \in Jobs : RunStep(j) \/ \E c \in Tips[j] : BranchMoves(j, c)

Spec == Init /\ [][Next]_vars

\* The poll loop goes on and its timers fire.  Go's select chooses at random among the
\* cases that are ready, so it does not overlook ctx.Done forever.  Executions need not
\* end: JobTimeout may be 0, and the context they run under is never cancelled.
FairSpec == Spec /\ WF_vars(PollerStep) /\ SF_vars(BeginDrain) /\ WF_vars(DrainDeadline)

-----------------------------------------------------------------------------
\* Every variable has its type, and inflight, which goes down first, never exceeds the
\* WaitGroup's counter.
PoolTypeOK ==
    /\ maxConcurrency \in Limits
    /\ poller \in Poller
    /\ run \in [Jobs -> Run]
    /\ inflight \in 0 .. Cardinality(Jobs)
    /\ waiting \in inflight .. Cardinality(Jobs)
    /\ stop \in BOOLEAN
    /\ report \in Commits \cup {Null}
    /\ bucket \in [Commits -> Commits \cup {Null}]
    /\ tip \in [Jobs -> Commits]

\* The pool never runs more jobs than MAX_CONCURRENCY, although the batch counts the
\* free slots once and goroutines come and go while it claims.
ConcurrencyBounded == Cardinality(Executing) <= maxConcurrency

\* Drain reports success only when every job handed to the pool has returned.
DrainedMeansDone == poller.pc = "drained" => Executing = {}

\* Drain reports "jobs still running" only if a job has not left the pool, even when
\* the last one returns at the very moment of the timeout.
AbandonsOnlyUnfinished ==
    poller.pc = "abandoned" => \E j \in Jobs : j \in Executing \/ run[j].pc = "returned"

\* In a pool of one, the snapshot stored for a job's commit is the report on a commit
\* of the job's own branch, never on another repository's tree, and version and size
\* reported with it are taken from such a report, although all jobs share ReportsDir.
SnapshotIsOfItsBranch ==
    maxConcurrency = 1 =>
        \A j \in Jobs :
            /\ bucket[CommitOf[j]] \in Tips[j] \cup {Null}
            /\ run[j].pc = "completing" => run[j].measured \in Tips[j] \cup {Null}

\* The snapshot stored for a commit is the report on that very commit
\* (architecture/03-job-system.md).
SnapshotIsOfItsCommit == \A c \in Commits : bucket[c] \in {c, Null}

\* The worker implements the pool of slots: the goroutines that inflight counts are the
\* jobs in a slot, and Drain's outcome is the worker's end.
Pool == INSTANCE SlotPool WITH
    Job <- Jobs, Limit <- Limits,
    free <- maxConcurrency - inflight,
    fresh <- Queued,
    active <- {j \in Jobs : j \in Executing \/ run[j].pc = "returned"},
    phase <- CASE poller.pc = "draining"  -> "closed"
               [] poller.pc = "drained"   -> "clean"
               [] poller.pc = "abandoned" -> "dirty"
               [] OTHER                   -> "open"

ImplementsPool == Pool!Spec

\* A process that was told to stop stops: at the latest at the drain's hard timeout.
WorkerStops == stop ~> poller.pc \in {"drained", "abandoned"}
=============================================================================
