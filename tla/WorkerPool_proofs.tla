-------------------------- MODULE WorkerPool_proofs --------------------------
(***************************************************************************)
(* The pool of a worker, for any number of jobs and any limit: its two     *)
(* counters are the numbers of its goroutines, so it stays within its      *)
(* limit and Drain tells the truth.                                        *)
(***************************************************************************)
EXTENDS WorkerPool, FiniteSetTheorems, TLAPS

StatesTyped ==
    /\ maxConcurrency \in Limits
    /\ poller \in Poller
    /\ run \in [Jobs -> Run]
    /\ stop \in BOOLEAN
    /\ report \in Commits \cup {Null}
    /\ bucket \in [Commits -> Commits \cup {Null}]
    /\ tip \in [Jobs -> Commits]

\* The job that claimOne has claimed is not executed yet.
ClaimedIsQueued == poller.pc = "claimed" => poller.job \in Jobs /\ run[poller.job].pc = "queued"

\* The goroutines that inflight counts, and those that the WaitGroup counts.
Counted == {"starting", "cloning", "cloned", "collecting", "reading", "completing", "returned"}
InPool == {j \in Jobs : run[j].pc \in Counted}
InGroup == {j \in Jobs : run[j].pc \in Counted \cup {"leaving"}}

CountersRight == inflight = Cardinality(InPool) /\ waiting = Cardinality(InGroup)

\* A batch has at most as many slots left as the pool has free: goroutines may leave
\* while it claims, and nobody else lets one in.
WithinLimit ==
    /\ inflight <= maxConcurrency
    /\ poller.pc = "batch" => poller.slots + inflight <= maxConcurrency
    /\ poller.pc = "claimed" => poller.slots > 0 /\ poller.slots + inflight <= maxConcurrency

\* What Drain has returned is still so: nothing moves after the process has ended.
VerdictRight ==
    /\ poller.pc = "drained" => InPool = {}
    /\ poller.pc = "abandoned" => InPool # {}

PoolInv == StatesTyped /\ ClaimedIsQueued /\ CountersRight /\ WithinLimit /\ VerdictRight

-----------------------------------------------------------------------------
\* Both sets are finite, so their sizes are numbers, in order.
LEMMA Sizes ==
    /\ IsFiniteSet(InPool) /\ IsFiniteSet(InGroup)
    /\ Cardinality(InPool) \in Nat /\ Cardinality(InGroup) \in Nat
    /\ Cardinality(InPool) <= Cardinality(InGroup)
    /\ Cardinality(InGroup) <= Cardinality(Jobs)
    /\ Cardinality(Jobs) \in Nat
<1>1. InPool \subseteq InGroup /\ InGroup \subseteq Jobs
  BY DEF InPool, InGroup
<1>2. IsFiniteSet(Jobs) /\ Cardinality(Jobs) \in Nat
  BY PoolAssumption, FS_CardinalityType
<1>3. IsFiniteSet(InGroup) /\ Cardinality(InGroup) <= Cardinality(Jobs)
  BY <1>1, <1>2, FS_Subset
<1>4. IsFiniteSet(InPool) /\ Cardinality(InPool) <= Cardinality(InGroup)
  BY <1>1, <1>3, FS_Subset
<1> QED
  BY <1>2, <1>3, <1>4, FS_CardinalityType

\* Main starts the loop with all slots free and nothing claimed.
LEMMA PoolInvInit == Init => PoolInv
<1> SUFFICES ASSUME Init PROVE PoolInv
  OBVIOUS
<1>1. poller \in Poller /\ poller.pc = "select"
  BY DEF Init, Poller
<1>2. run \in [Jobs -> Run]
  BY DEF Init, Run
<1>3. tip \in [Jobs -> Commits] /\ maxConcurrency \in Limits /\ maxConcurrency \in Nat \ {0}
  BY PoolAssumption DEF Init
<1>4. InPool = {} /\ InGroup = {}
  BY DEF Init, InPool, InGroup, Counted
<1>5. inflight = Cardinality(InPool) /\ waiting = Cardinality(InGroup)
  BY <1>4, FS_EmptySet DEF Init
<1>6. StatesTyped
  BY <1>1, <1>2, <1>3 DEF Init, StatesTyped
<1>7. WithinLimit
  BY <1>1, <1>3 DEF Init, WithinLimit
<1>8. ClaimedIsQueued /\ VerdictRight
  BY <1>1 DEF ClaimedIsQueued, VerdictRight
<1> QED
  BY <1>5, <1>6, <1>7, <1>8 DEF PoolInv, CountersRight

\* A step of the poll loop that leaves the goroutines alone.
LEMMA PollerMoves ==
    ASSUME PoolInv, UNCHANGED runnerVars, stop' \in BOOLEAN, poller' \in Poller,
           ClaimedIsQueued', WithinLimit',
           poller'.pc = "drained" => InPool = {},
           poller'.pc = "abandoned" => InPool # {}
    PROVE  PoolInv'
<1>1. InPool' = InPool /\ InGroup' = InGroup
  BY DEF InPool, InGroup, runnerVars
<1> QED
  BY <1>1 DEF PoolInv, StatesTyped, CountersRight, VerdictRight, runnerVars

\* A goroutine that goes on inside the pool, whatever it does to report and bucket.
LEMMA RunMoves ==
    ASSUME PoolInv, NEW j \in Jobs, run[j].pc \in Counted,
           NEW r \in Run, r.pc \in Counted, run' = [run EXCEPT ![j] = r],
           UNCHANGED <<maxConcurrency, poller, inflight, waiting, stop, tip>>,
           report' \in Commits \cup {Null}, bucket' \in [Commits -> Commits \cup {Null}]
    PROVE  PoolInv'
<1>1. InPool' = InPool /\ InGroup' = InGroup
  BY DEF PoolInv, StatesTyped, InPool, InGroup
<1>2. StatesTyped' /\ ClaimedIsQueued'
  BY DEF PoolInv, StatesTyped, ClaimedIsQueued, Counted
<1> QED
  BY <1>1, <1>2 DEF PoolInv, CountersRight, WithinLimit, VerdictRight

\* The poll loop: it alone lets goroutines in, and only as many as it has slots.
LEMMA PollerSteps == PoolInv /\ PollerStep => PoolInv'
<1> SUFFICES ASSUME PoolInv, PollerStep PROVE PoolInv'
  OBVIOUS
<1>0. /\ inflight \in Nat /\ maxConcurrency \in Nat
      /\ poller \in Poller /\ poller.slots \in Int /\ stop \in BOOLEAN
  BY PoolAssumption, Sizes DEF PoolInv, StatesTyped, CountersRight, Poller
<1>1. CASE PollBatch
  <2>1. poller' \in Poller /\ ClaimedIsQueued' /\ WithinLimit'
    <3>0. poller' = [poller EXCEPT !.pc = "batch", !.slots = maxConcurrency - inflight]
      BY <1>1 DEF PollBatch
    <3>1. poller' = [pc |-> "batch", slots |-> maxConcurrency - inflight, job |-> poller.job]
      BY <1>0, <3>0 DEF Poller
    <3>2. poller' \in Poller /\ poller'.pc = "batch" /\ poller'.slots = maxConcurrency - inflight
      BY <1>0, <3>1 DEF Poller
    <3>3. inflight' = inflight /\ maxConcurrency' = maxConcurrency
      BY <1>1 DEF PollBatch, runnerVars
    <3>4. WithinLimit'
      BY <1>0, <3>2, <3>3 DEF PoolInv, WithinLimit
    <3> QED
      BY <3>2, <3>4 DEF ClaimedIsQueued
  <2> QED
    BY <1>0, <1>1, <2>1, PollerMoves DEF PollBatch, Poller
<1>2. CASE BatchEnds
  <2>1. poller' \in Poller /\ ClaimedIsQueued' /\ WithinLimit'
    <3>0. poller' = [poller EXCEPT !.pc = "select", !.slots = 0]
      BY <1>2 DEF BatchEnds
    <3>1. poller' = [pc |-> "select", slots |-> 0, job |-> poller.job]
      BY <1>0, <3>0 DEF Poller
    <3>2. poller' \in Poller /\ poller'.pc = "select"
      BY <1>0, <3>1 DEF Poller
    <3>3. inflight' = inflight /\ maxConcurrency' = maxConcurrency
      BY <1>2 DEF BatchEnds, runnerVars
    <3>4. WithinLimit'
      BY <3>2, <3>3 DEF PoolInv, WithinLimit
    <3> QED
      BY <3>2, <3>4 DEF ClaimedIsQueued
  <2> QED
    BY <1>0, <1>2, <2>1, PollerMoves DEF BatchEnds, Poller
<1>3. ASSUME NEW j \in Jobs, ClaimOne(j) PROVE PoolInv'
  <2>1. poller' \in Poller /\ ClaimedIsQueued' /\ WithinLimit'
    BY <1>0, <1>3
    DEF ClaimOne, Queued, PoolInv, ClaimedIsQueued, WithinLimit, Poller, runnerVars
  <2> QED
    BY <1>0, <1>3, <2>1, PollerMoves DEF ClaimOne, Poller
<1>4. CASE GoWait
  <2> DEFINE k == poller.job
  <2>1. k \in Jobs /\ run[k].pc = "queued"
    BY <1>4 DEF GoWait, PoolInv, ClaimedIsQueued
  <2>2. run' = [run EXCEPT ![k].pc = "starting"] /\ run' \in [Jobs -> Run]
    BY <1>4, <2>1 DEF GoWait, PoolInv, StatesTyped, Run
  <2>3. InPool' = InPool \cup {k} /\ InGroup' = InGroup \cup {k} /\ k \notin InGroup
    BY <2>1, <2>2 DEF InPool, InGroup, Counted, PoolInv, StatesTyped
  <2>4. k \notin InPool
    BY <2>3 DEF InPool, InGroup
  <2>5. CountersRight'
    BY <1>4, <2>3, <2>4, Sizes, FS_AddElement DEF GoWait, CountersRight, PoolInv
  <2>6. poller' = [pc |-> "batch", slots |-> poller.slots - 1, job |-> Null] /\ poller' \in Poller
    BY <1>0, <1>4 DEF GoWait, Poller
  <2>7. WithinLimit'
    BY <1>0, <1>4, <2>6 DEF GoWait, PoolInv, WithinLimit
  <2> QED
    BY <1>4, <2>2, <2>5, <2>6, <2>7
    DEF GoWait, PoolInv, StatesTyped, ClaimedIsQueued, VerdictRight
<1>5. CASE ClaimOneFails
  <2> DEFINE k == poller.job
  <2>1. k \in Jobs /\ run[k].pc = "queued"
    BY <1>5 DEF ClaimOneFails, PoolInv, ClaimedIsQueued
  <2>2. run' = [run EXCEPT ![k].pc = "unrun"] /\ run' \in [Jobs -> Run]
    BY <1>5, <2>1 DEF ClaimOneFails, PoolInv, StatesTyped, Run
  <2>3. InPool' = InPool /\ InGroup' = InGroup
    BY <2>1, <2>2 DEF InPool, InGroup, Counted, PoolInv, StatesTyped
  <2>4. poller' = [pc |-> "select", slots |-> 0, job |-> Null] /\ poller' \in Poller
    BY <1>5 DEF ClaimOneFails, Poller
  <2> QED
    BY <1>5, <2>2, <2>3, <2>4
    DEF ClaimOneFails, PoolInv, StatesTyped, ClaimedIsQueued, CountersRight, WithinLimit,
        VerdictRight
<1>6. CASE BeginDrain
  <2>1. poller' \in Poller /\ ClaimedIsQueued' /\ WithinLimit'
    BY <1>0, <1>6
    DEF BeginDrain, PoolInv, ClaimedIsQueued, WithinLimit, Poller, runnerVars
  <2> QED
    BY <1>0, <1>6, <2>1, PollerMoves DEF BeginDrain, Poller
<1>7. CASE DrainDone
  <2>1. poller' \in Poller /\ ClaimedIsQueued' /\ WithinLimit'
    BY <1>0, <1>7
    DEF DrainDone, PoolInv, ClaimedIsQueued, WithinLimit, Poller, runnerVars
  <2>2. InGroup = {}
    BY <1>7, Sizes, FS_EmptySet DEF DrainDone, PoolInv, CountersRight
  <2>3. InPool = {}
    BY <2>2 DEF InPool, InGroup
  <2> QED
    BY <1>0, <1>7, <2>1, <2>3, PollerMoves DEF DrainDone, Poller
<1>8. CASE DrainDeadline
  <2>1. poller' \in Poller /\ ClaimedIsQueued' /\ WithinLimit'
    BY <1>0, <1>8
    DEF DrainDeadline, PoolInv, ClaimedIsQueued, WithinLimit, Poller, runnerVars
  <2>2. inflight = 0 <=> InPool = {}
    BY Sizes, FS_EmptySet DEF PoolInv, CountersRight
  <2> QED
    BY <1>0, <1>8, <2>1, <2>2, PollerMoves DEF DrainDeadline, Poller
<1> QED
  BY <1>1, <1>2, <1>3, <1>4, <1>5, <1>6, <1>7, <1>8 DEF PollerStep

\* The goroutines: they go on inside the pool, or leave it and are no longer counted.
LEMMA RunSteps == ASSUME NEW j \in Jobs PROVE PoolInv /\ RunStep(j) => PoolInv'
<1> SUFFICES ASSUME PoolInv, RunStep(j) PROVE PoolInv'
  OBVIOUS
<1>0. /\ run \in [Jobs -> Run] /\ run[j] \in Run
      /\ report \in Commits \cup {Null} /\ bucket \in [Commits -> Commits \cup {Null}]
      /\ tip[j] \in Commits /\ CommitOf[j] \in Commits
      /\ inflight \in Nat /\ waiting \in Nat /\ maxConcurrency \in Nat
  BY PoolAssumption, Sizes DEF PoolInv, StatesTyped, CountersRight
<1>1. CASE StartJob(j)
  <2>1. run' = [run EXCEPT ![j] = [run[j] EXCEPT !.pc = "cloning"]]
    BY <1>1 DEF StartJob, Goto
  <2>2. [run[j] EXCEPT !.pc = "cloning"] \in Run /\ run[j].pc \in Counted
    BY <1>0, <1>1 DEF StartJob, At, Run, Counted
  <2> QED
    BY <1>0, <1>1, <2>1, <2>2, RunMoves DEF StartJob, Run, Counted
<1>2. CASE Clone(j)
  <2>1. run' = [run EXCEPT ![j] = [run[j] EXCEPT !.pc = "cloned", !.tree = tip[j]]]
    BY <1>0, <1>2 DEF Clone
  <2>2. [run[j] EXCEPT !.pc = "cloned", !.tree = tip[j]] \in Run /\ run[j].pc \in Counted
    BY <1>0, <1>2 DEF Clone, At, Run, Counted
  <2> QED
    BY <1>0, <1>2, <2>1, <2>2, RunMoves DEF Clone, Run, Counted
<1>3. CASE Zigzag(j)
  <2>1. run' = [run EXCEPT ![j] = [run[j] EXCEPT !.pc = "collecting"]]
    BY <1>3 DEF Zigzag, Goto
  <2>2. [run[j] EXCEPT !.pc = "collecting"] \in Run /\ run[j].pc \in Counted
    BY <1>0, <1>3 DEF Zigzag, At, Run, Counted
  <2>3. report' \in Commits \cup {Null}
    BY <1>0, <1>3 DEF Zigzag, Run
  <2> QED
    BY <1>0, <1>3, <2>1, <2>2, <2>3, RunMoves DEF Zigzag, Run, Counted
<1>4. CASE Collect(j)
  <2>1. run' = [run EXCEPT ![j] = [run[j] EXCEPT !.pc = "reading", !.measured = report]]
    BY <1>0, <1>4 DEF Collect
  <2>2. [run[j] EXCEPT !.pc = "reading", !.measured = report] \in Run /\ run[j].pc \in Counted
    BY <1>0, <1>4 DEF Collect, At, Run, Counted
  <2> QED
    BY <1>0, <1>4, <2>1, <2>2, RunMoves DEF Collect, Run, Counted
<1>5. CASE Upload(j)
  <2>1. run' = [run EXCEPT ![j] = [run[j] EXCEPT !.pc = "completing"]]
    BY <1>5 DEF Upload, Goto
  <2>2. [run[j] EXCEPT !.pc = "completing"] \in Run /\ run[j].pc \in Counted
    BY <1>0, <1>5 DEF Upload, At, Run, Counted
  <2>3. bucket' \in [Commits -> Commits \cup {Null}]
    BY <1>0, <1>5 DEF Upload
  <2> QED
    BY <1>0, <1>5, <2>1, <2>2, <2>3, RunMoves DEF Upload, Run, Counted
<1>6. CASE Fail(j)
  <2>1. run' = [run EXCEPT ![j] = [run[j] EXCEPT !.pc = "completing", !.measured = Null]]
    BY <1>0, <1>6 DEF Fail
  <2>2. /\ [run[j] EXCEPT !.pc = "completing", !.measured = Null] \in Run
        /\ run[j].pc \in Counted
    BY <1>0, <1>6 DEF Fail, At, Run, Counted
  <2>3. report' \in Commits \cup {Null}
    BY <1>0, <1>6 DEF Fail, Run
  <2> QED
    BY <1>0, <1>6, <2>1, <2>2, <2>3, RunMoves DEF Fail, Run, Counted
<1>7. CASE CompleteJob(j)
  <2>1. run' = [run EXCEPT ![j] = [run[j] EXCEPT !.pc = "returned"]]
    BY <1>7 DEF CompleteJob, Goto
  <2>2. [run[j] EXCEPT !.pc = "returned"] \in Run /\ run[j].pc \in Counted
    BY <1>0, <1>7 DEF CompleteJob, At, Run, Counted
  <2> QED
    BY <1>0, <1>7, <2>1, <2>2, RunMoves DEF CompleteJob, Run, Counted
<1>8. CASE Leave(j)
  <2>1. run' = [run EXCEPT ![j].pc = "leaving"] /\ run' \in [Jobs -> Run]
    BY <1>0, <1>8 DEF Leave, Goto, Run
  <2>2. InPool' = InPool \ {j} /\ InGroup' = InGroup /\ j \in InPool
    BY <1>0, <1>8, <2>1 DEF Leave, At, InPool, InGroup, Counted
  <2>3. CountersRight'
    BY <1>8, <2>2, Sizes, FS_RemoveElement DEF Leave, PoolInv, CountersRight
  <2>4. poller.pc \notin {"drained", "abandoned"} /\ poller' = poller
    BY <1>8 DEF Leave, At
  <2>5. ClaimedIsQueued'
    BY <1>0, <1>8, <2>1, <2>4 DEF Leave, At, PoolInv, ClaimedIsQueued
  <2>6. WithinLimit'
    <3>1. inflight' = inflight - 1 /\ maxConcurrency' = maxConcurrency
      BY <1>8 DEF Leave
    <3>2. poller.slots \in Int
      BY DEF PoolInv, StatesTyped, Poller
    <3> QED
      BY <1>0, <2>4, <3>1, <3>2 DEF PoolInv, WithinLimit
  <2> QED
    BY <1>8, <2>1, <2>3, <2>4, <2>5, <2>6 DEF Leave, PoolInv, StatesTyped, VerdictRight
<1>9. CASE WaitGroupDone(j)
  <2>1. run' = [run EXCEPT ![j].pc = "gone"] /\ run' \in [Jobs -> Run]
    BY <1>0, <1>9 DEF WaitGroupDone, Goto, Run
  <2>2. InPool' = InPool /\ InGroup' = InGroup \ {j} /\ j \in InGroup
    BY <1>0, <1>9, <2>1 DEF WaitGroupDone, At, InPool, InGroup, Counted
  <2>3. CountersRight'
    BY <1>9, <2>2, Sizes, FS_RemoveElement DEF WaitGroupDone, PoolInv, CountersRight
  <2>4. poller.pc \notin {"drained", "abandoned"} /\ poller' = poller
    BY <1>9 DEF WaitGroupDone, At
  <2>5. ClaimedIsQueued' /\ WithinLimit'
    BY <1>0, <1>9, <2>1, <2>4 DEF WaitGroupDone, At, PoolInv, ClaimedIsQueued, WithinLimit
  <2> QED
    BY <1>9, <2>1, <2>3, <2>4, <2>5 DEF WaitGroupDone, PoolInv, StatesTyped, VerdictRight
<1> QED
  BY <1>1, <1>2, <1>3, <1>4, <1>5, <1>6, <1>7, <1>8, <1>9 DEF RunStep

-----------------------------------------------------------------------------
\* In every state the two counters are the numbers of the pool's goroutines, a batch has
\* no more slots than the pool has room, and what Drain has returned is true.
THEOREM PoolCorrect == Spec => []PoolInv
<1>1. PoolInv /\ [Next]_vars => PoolInv'
  <2> SUFFICES ASSUME PoolInv, [Next]_vars PROVE PoolInv'
    OBVIOUS
  <2>1. CASE PollerStep
    BY <2>1, PollerSteps
  <2>2. CASE Shutdown
    <3>1. poller' = poller /\ stop' = TRUE /\ UNCHANGED runnerVars
      BY <2>2 DEF Shutdown
    <3>2. poller' \in Poller /\ stop' \in BOOLEAN /\ ClaimedIsQueued' /\ WithinLimit'
      BY <3>1 DEF PoolInv, StatesTyped, ClaimedIsQueued, WithinLimit, runnerVars
    <3> QED
      BY <2>2, <3>1, <3>2, PollerMoves DEF Shutdown
  <2>3. ASSUME NEW j \in Jobs, RunStep(j) PROVE PoolInv'
    BY <2>3, RunSteps
  <2>4. ASSUME NEW j \in Jobs, NEW c \in Tips[j], BranchMoves(j, c) PROVE PoolInv'
    <3>1. tip' \in [Jobs -> Commits]
      BY <2>4, PoolAssumption DEF BranchMoves, PoolInv, StatesTyped
    <3>2. UNCHANGED <<maxConcurrency, poller, run, inflight, waiting, stop, report, bucket>>
      BY <2>4 DEF BranchMoves
    <3>3. InPool' = InPool /\ InGroup' = InGroup
      BY <3>2 DEF InPool, InGroup
    <3> QED
      BY <3>1, <3>2, <3>3
      DEF PoolInv, StatesTyped, ClaimedIsQueued, CountersRight, WithinLimit, VerdictRight
  <2>5. CASE UNCHANGED vars
    <3>1. InPool' = InPool /\ InGroup' = InGroup
      BY <2>5 DEF InPool, InGroup, vars
    <3> QED
      BY <2>5, <3>1
      DEF PoolInv, StatesTyped, ClaimedIsQueued, CountersRight, WithinLimit, VerdictRight, vars
  <2> QED
    BY <2>1, <2>2, <2>3, <2>4, <2>5 DEF Next
<1> QED
  BY PoolInvInit, <1>1, PTL DEF Spec

\* The variables keep their types, and inflight never exceeds the WaitGroup's counter.
THEOREM PoolTypes == Spec => []PoolTypeOK
<1>1. PoolInv => PoolTypeOK
  BY Sizes DEF PoolInv, StatesTyped, CountersRight, PoolTypeOK
<1> QED
  BY <1>1, PoolCorrect, PTL

\* The poll loop of Poller.Run keeps the runner within MAX_CONCURRENCY.
THEOREM PoolLimit == Spec => []ConcurrencyBounded
<1>1. PoolInv => ConcurrencyBounded
  <2> SUFFICES ASSUME PoolInv PROVE ConcurrencyBounded
    OBVIOUS
  <2>1. Executing \subseteq InPool
    BY DEF Executing, InPool, Counted
  <2>2. IsFiniteSet(Executing) /\ Cardinality(Executing) <= Cardinality(InPool)
    BY <2>1, Sizes, FS_Subset
  <2>3. Cardinality(Executing) \in Nat /\ maxConcurrency \in Nat
    BY <2>2, FS_CardinalityType, PoolAssumption DEF PoolInv, StatesTyped
  <2>4. Cardinality(InPool) <= maxConcurrency
    BY DEF PoolInv, CountersRight, WithinLimit
  <2> QED
    BY <2>2, <2>3, <2>4, Sizes DEF ConcurrencyBounded
<1> QED
  BY <1>1, PoolCorrect, PTL

\* Drain returns nil only when every job handed to the pool has returned.
THEOREM DrainHonest == Spec => []DrainedMeansDone
<1>1. PoolInv => DrainedMeansDone
  BY DEF PoolInv, VerdictRight, DrainedMeansDone, Executing, InPool, Counted
<1> QED
  BY <1>1, PoolCorrect, PTL

\* Drain returns its error only when some job is still in the pool.
THEOREM AbandonHonest == Spec => []AbandonsOnlyUnfinished
<1>1. PoolInv => AbandonsOnlyUnfinished
  BY DEF PoolInv, VerdictRight, AbandonsOnlyUnfinished, Executing, InPool, Counted
<1> QED
  BY <1>1, PoolCorrect, PTL

-----------------------------------------------------------------------------
(* A pool of one.  Between zigzag and the upload nobody else writes the    *)
(* shared report, since nobody else is in the pool.                        *)

OfBranch(j, tree) == tree \in Tips[j] \cup {Null}

SlotOfBranch(j) ==
    /\ run[j].pc = "cloned" => OfBranch(j, run[j].tree)
    /\ run[j].pc \in {"collecting", "reading"} => OfBranch(j, report)
    /\ run[j].pc \in {"reading", "completing"} => OfBranch(j, run[j].measured)

BranchInv ==
    /\ \A j \in Jobs : tip[j] \in Tips[j]
    /\ maxConcurrency = 1 =>
           \A j \in Jobs : SlotOfBranch(j) /\ OfBranch(j, bucket[CommitOf[j]])

\* In a pool of one there are no two jobs.
LEMMA Alone ==
    ASSUME PoolInv, maxConcurrency = 1, NEW i \in InPool, NEW j \in InPool
    PROVE  i = j
<1> SUFFICES ASSUME i # j PROVE FALSE
  OBVIOUS
<1>1. IsFiniteSet({i, j}) /\ Cardinality({i, j}) = 2
  <2>1. IsFiniteSet({i}) /\ Cardinality({i}) = 1
    BY FS_Singleton
  <2>2. IsFiniteSet({i} \cup {j}) /\ Cardinality({i} \cup {j}) = Cardinality({i}) + 1
    BY <2>1, FS_AddElement
  <2>3. {i} \cup {j} = {i, j}
    OBVIOUS
  <2> QED
    BY <2>1, <2>2, <2>3
<1>2. Cardinality({i, j}) <= Cardinality(InPool)
  <2>1. {i, j} \subseteq InPool
    OBVIOUS
  <2> QED
    BY <2>1, Sizes, FS_Subset
<1>3. Cardinality(InPool) <= 1
  BY DEF PoolInv, CountersRight, WithinLimit
<1> QED
  BY <1>1, <1>2, <1>3, Sizes

\* What the goroutine of a job does to its own tree, to the report and to the bucket.
LEMMA RunOfBranch ==
    ASSUME PoolInv, BranchInv, maxConcurrency = 1, NEW j \in Jobs, RunStep(j)
    PROVE  /\ SlotOfBranch(j)'
           /\ \A i \in Jobs \ {j} : run'[i] = run[i]
           /\ report' = report \/ j \in InPool
           /\ bucket' = bucket \/ \E r : OfBranch(j, r) /\ bucket' = [bucket EXCEPT ![CommitOf[j]] = r]
           /\ UNCHANGED <<maxConcurrency, tip>>
<1> USE DEF At, SlotOfBranch, OfBranch
<1>0. /\ run \in [Jobs -> Run] /\ run[j] \in Run
      /\ tip[j] \in Tips[j] /\ SlotOfBranch(j)
  BY DEF PoolInv, StatesTyped, BranchInv
<1>1. CASE StartJob(j)
  BY <1>0, <1>1 DEF StartJob, Goto, Run
<1>2. CASE Clone(j)
  <2>1. run' = [run EXCEPT ![j] = [run[j] EXCEPT !.pc = "cloned", !.tree = tip[j]]]
    BY <1>0, <1>2 DEF Clone
  <2>2. run'[j].pc = "cloned" /\ run'[j].tree = tip[j]
    BY <1>0, <2>1 DEF Run
  <2> QED
    BY <1>0, <1>2, <2>1, <2>2 DEF Clone
<1>3. CASE Zigzag(j)
  <2>1. run'[j].pc = "collecting" /\ j \in InPool
    BY <1>0, <1>3 DEF Zigzag, Goto, Run, InPool, Counted
  <2> QED
    BY <1>0, <1>3, <2>1 DEF Zigzag, Goto
<1>4. CASE Collect(j)
  <2>1. run' = [run EXCEPT ![j] = [run[j] EXCEPT !.pc = "reading", !.measured = report]]
    BY <1>0, <1>4 DEF Collect
  <2>2. run'[j].pc = "reading" /\ run'[j].measured = report
    BY <1>0, <2>1 DEF Run
  <2> QED
    BY <1>0, <1>4, <2>1, <2>2 DEF Collect
<1>5. CASE Upload(j)
  <2>1. run'[j].pc = "completing" /\ run'[j].measured = run[j].measured
    BY <1>0, <1>5 DEF Upload, Goto, Run
  <2> QED
    BY <1>0, <1>5, <2>1 DEF Upload, Goto
<1>6. CASE Fail(j)
  <2>1. run' = [run EXCEPT ![j] = [run[j] EXCEPT !.pc = "completing", !.measured = Null]]
    BY <1>0, <1>6 DEF Fail
  <2>2. run'[j].pc = "completing" /\ run'[j].measured = Null
    BY <1>0, <2>1 DEF Run
  <2>3. report' = report \/ j \in InPool
    BY <1>6 DEF Fail, InPool, Counted
  <2> QED
    BY <1>0, <1>6, <2>1, <2>2, <2>3 DEF Fail
<1>7. CASE CompleteJob(j)
  BY <1>0, <1>7 DEF CompleteJob, Goto, Run
<1>8. CASE Leave(j) \/ WaitGroupDone(j)
  BY <1>0, <1>8 DEF Leave, WaitGroupDone, Goto, Run
<1> QED
  BY <1>1, <1>2, <1>3, <1>4, <1>5, <1>6, <1>7, <1>8 DEF RunStep

\* In a pool of one the snapshot stored for a job's commit, and what is reported with
\* it, is taken from a commit of the job's branch, provided no two jobs are of the same
\* commit (their snapshots have the same path).
THEOREM PoolOfOne ==
    ASSUME \A i, j \in Jobs : CommitOf[i] = CommitOf[j] => i = j
    PROVE  Spec => []SnapshotIsOfItsBranch
<1>1. Init => BranchInv
  BY PoolAssumption DEF Init, BranchInv, SlotOfBranch, OfBranch
<1>2. PoolInv /\ BranchInv /\ [Next]_vars => BranchInv'
  <2> SUFFICES ASSUME PoolInv, BranchInv, [Next]_vars PROVE BranchInv'
    OBVIOUS
  <2>1. CASE PollerStep
    <3>1. UNCHANGED <<maxConcurrency, report, bucket, tip>>
      BY <2>1 DEF PollerStep, PollBatch, BatchEnds, ClaimOne, GoWait, ClaimOneFails, BeginDrain,
        DrainDone, DrainDeadline, runnerVars
    <3>2. \A j \in Jobs : run'[j] = run[j] \/ run'[j].pc \in {"starting", "unrun"}
      <4>1. UNCHANGED run \/ \E pc \in {"starting", "unrun"} : run' = [run EXCEPT ![poller.job].pc = pc]
        BY <2>1 DEF PollerStep, PollBatch, BatchEnds, ClaimOne, GoWait, ClaimOneFails, BeginDrain,
          DrainDone, DrainDeadline, runnerVars
      <4> QED
        BY <4>1 DEF PoolInv, StatesTyped, Run
    <3> QED
      BY <3>1, <3>2 DEF BranchInv, SlotOfBranch, OfBranch
  <2>2. CASE Shutdown \/ UNCHANGED vars
    BY <2>2 DEF Shutdown, runnerVars, vars, BranchInv, SlotOfBranch, OfBranch
  <2>3. ASSUME NEW j \in Jobs, RunStep(j) PROVE BranchInv'
    <3>1. UNCHANGED <<maxConcurrency, tip>>
      BY <2>3 DEF RunStep, StartJob, Clone, Zigzag, Collect, Upload, Fail, CompleteJob, Leave, WaitGroupDone
    <3>2. ASSUME maxConcurrency = 1, NEW i \in Jobs
          PROVE  SlotOfBranch(i)' /\ OfBranch(i, bucket'[CommitOf[i]])
      <4>1. SlotOfBranch(i) /\ OfBranch(i, bucket[CommitOf[i]])
        BY <3>2 DEF BranchInv
      <4>2. SlotOfBranch(i)'
        <5>1. CASE i = j
          BY <2>3, <3>2, <5>1, RunOfBranch
        <5>2. CASE i # j
          <6>1. run'[i] = run[i] /\ (report' = report \/ j \in InPool)
            BY <2>3, <3>2, <5>2, RunOfBranch
          <6>2. run[i].pc \in {"collecting", "reading"} => report' = report
            BY <3>2, <5>2, <6>1, Alone DEF InPool, Counted
          <6> QED
            BY <4>1, <6>1, <6>2 DEF SlotOfBranch, OfBranch
        <5> QED
          BY <5>1, <5>2
      <4>3. OfBranch(i, bucket'[CommitOf[i]])
        <5>1. bucket \in [Commits -> Commits \cup {Null}] /\ CommitOf[i] \in Commits
          BY PoolAssumption DEF PoolInv, StatesTyped
        <5>2. bucket' = bucket \/ \E r : OfBranch(j, r) /\ bucket' = [bucket EXCEPT ![CommitOf[j]] = r]
          BY <2>3, <3>2, RunOfBranch
        <5> QED
          BY <4>1, <5>1, <5>2 DEF OfBranch
      <4> QED
        BY <4>2, <4>3
    <3> QED
      BY <3>1, <3>2 DEF BranchInv, OfBranch
  <2>4. ASSUME NEW j \in Jobs, NEW c \in Tips[j], BranchMoves(j, c) PROVE BranchInv'
    <3>1. tip' = [tip EXCEPT ![j] = c] /\ UNCHANGED <<maxConcurrency, run, report, bucket>>
      BY <2>4 DEF BranchMoves
    <3>2. tip \in [Jobs -> Commits]
      BY DEF PoolInv, StatesTyped
    <3>3. \A i \in Jobs : tip'[i] \in Tips[i]
      BY <2>4, <3>1, <3>2 DEF BranchInv
    <3> QED
      BY <3>1, <3>3 DEF BranchInv, SlotOfBranch, OfBranch
  <2> QED
    BY <2>1, <2>2, <2>3, <2>4 DEF Next
<1>3. BranchInv => SnapshotIsOfItsBranch
  BY DEF BranchInv, SlotOfBranch, OfBranch, SnapshotIsOfItsBranch
<1> QED
  BY <1>1, <1>2, <1>3, PoolCorrect, PTL DEF Spec
-----------------------------------------------------------------------------
(* The worker implements SlotPool.  PoolInv says what the abstract guards  *)
(* ask for: a slot is free when a job is handed over, and Drain's counters *)
(* are those of the jobs in a slot.                                        *)

Free == maxConcurrency - inflight
Phase == CASE poller.pc = "draining"  -> "closed"
           [] poller.pc = "drained"   -> "clean"
           [] poller.pc = "abandoned" -> "dirty"
           [] OTHER                   -> "open"

\* An abstract step, in terms of the pool: the jobs in a slot are those of InPool.
LEMMA SlotSteps ==
    /\ UNCHANGED <<Free, Queued, InPool, Phase>> => UNCHANGED Pool!vars
    /\ \A j \in Jobs : Phase = "open" /\ j \in Queued /\ Free > 0 /\ Free' = Free - 1
           /\ Queued' = Queued \ {j} /\ InPool' = InPool \cup {j} /\ Phase' = Phase => Pool!Accept(j)
    /\ \A j \in Jobs : Phase = "open" /\ j \in Queued /\ Free' = Free
           /\ Queued' = Queued \ {j} /\ InPool' = InPool /\ Phase' = Phase => Pool!Reject(j)
    /\ \A j \in Jobs : Phase \in {"open", "closed"} /\ j \in InPool /\ Free' = Free + 1
           /\ Queued' = Queued /\ InPool' = InPool \ {j} /\ Phase' = Phase => Pool!Leave(j)
    /\ Phase = "open" /\ Phase' = "closed" /\ UNCHANGED <<Free, Queued, InPool>> => Pool!Close
    /\ Phase = "closed" /\ Phase' = (IF InPool = {} THEN "clean" ELSE "dirty")
           /\ UNCHANGED <<Free, Queued, InPool>> => Pool!End
<1> DEFINE Active == {j \in Jobs : j \in Executing \/ run[j].pc = "returned"}
<1>1. InPool = Active /\ InPool' = Active'
    BY DEF Executing, InPool, Counted
<1>2. UNCHANGED <<Free, Queued, InPool, Phase>> => UNCHANGED Pool!vars
    BY <1>1 DEF Free, Phase, Pool!vars
<1>3. \A j \in Jobs : Phase = "open" /\ j \in Queued /\ Free > 0 /\ Free' = Free - 1
          /\ Queued' = Queued \ {j} /\ InPool' = InPool \cup {j} /\ Phase' = Phase => Pool!Accept(j)
    BY <1>1 DEF Free, Phase, Pool!Accept
<1>4. \A j \in Jobs : Phase = "open" /\ j \in Queued /\ Free' = Free
          /\ Queued' = Queued \ {j} /\ InPool' = InPool /\ Phase' = Phase => Pool!Reject(j)
    BY <1>1 DEF Free, Phase, Pool!Reject
<1>5. \A j \in Jobs : Phase \in {"open", "closed"} /\ j \in InPool /\ Free' = Free + 1
          /\ Queued' = Queued /\ InPool' = InPool \ {j} /\ Phase' = Phase => Pool!Leave(j)
    BY <1>1 DEF Free, Phase, Pool!Leave
<1>6. Phase = "open" /\ Phase' = "closed" /\ UNCHANGED <<Free, Queued, InPool>> => Pool!Close
    BY <1>1 DEF Free, Phase, Pool!Close
<1>7. Phase = "closed" /\ Phase' = (IF InPool = {} THEN "clean" ELSE "dirty")
          /\ UNCHANGED <<Free, Queued, InPool>> => Pool!End
    BY <1>1 DEF Free, Phase, Pool!End
<1> QED
    BY <1>2, <1>3, <1>4, <1>5, <1>6, <1>7

\* How a change of one goroutine shows in the pool.
LEMMA RunChanges ==
    ASSUME PoolInv, NEW j \in Jobs, NEW r, run' = [run EXCEPT ![j] = r],
           r.pc \in Counted \cup {"unrun", "leaving", "gone"}
    PROVE  /\ run[j].pc = "queued" => Queued' = Queued \ {j}
           /\ run[j].pc # "queued" => Queued' = Queued
           /\ r.pc \in Counted => InPool' = InPool \cup {j}
           /\ r.pc \notin Counted => InPool' = InPool \ {j}
BY DEF PoolInv, StatesTyped, Queued, InPool, Counted

\* The poll loop hands over, closes and ends.
LEMMA PollerRefines == PoolInv /\ PollerStep => [Pool!Next]_(Pool!vars)
<1> SUFFICES ASSUME PoolInv, PollerStep PROVE [Pool!Next]_(Pool!vars)
  OBVIOUS
<1>0. /\ inflight \in Nat /\ waiting \in Nat /\ maxConcurrency \in Nat
      /\ poller \in Poller /\ run \in [Jobs -> Run]
  BY PoolAssumption, Sizes DEF PoolInv, StatesTyped, CountersRight
<1>1. ASSUME UNCHANGED runnerVars PROVE UNCHANGED <<Free, Queued, InPool>>
  BY <1>1 DEF runnerVars, Free, Queued, InPool
<1>2. CASE PollBatch \/ BatchEnds \/ \E j \in Jobs : ClaimOne(j)
  <2>1. UNCHANGED runnerVars
    BY <1>2, Zenon DEF PollBatch, BatchEnds, ClaimOne
  <2>2. /\ poller.pc \in {"select", "batch"}
        /\ poller'.pc \in {"select", "batch", "claimed"}
    <3>1. CASE PollBatch \/ BatchEnds
      BY <1>0, <3>1 DEF PollBatch, BatchEnds, Poller
    <3>2. ASSUME NEW j \in Jobs, ClaimOne(j)
          PROVE  poller.pc = "batch" /\ poller'.pc = "claimed"
      BY <1>0, <3>2 DEF ClaimOne, Poller
    <3> QED
      BY <1>2, <3>1, <3>2
  <2>3. Phase = "open" /\ Phase' = "open"
    BY <2>2 DEF Phase
  <2> QED
    BY <1>1, <2>1, <2>3, SlotSteps
<1>3. CASE GoWait \/ ClaimOneFails
  <2>1. PICK j \in Jobs : j = poller.job /\ run[j].pc = "queued"
    BY <1>3 DEF GoWait, ClaimOneFails, PoolInv, ClaimedIsQueued
  <2>2. Phase = "open" /\ Phase' = "open" /\ j \in Queued /\ j \notin InPool
    BY <1>3, <2>1 DEF GoWait, ClaimOneFails, Phase, Queued, InPool, Counted
  <2>3. CASE GoWait
    <3> DEFINE r == [run[j] EXCEPT !.pc = "starting"]
    <3>1. run' = [run EXCEPT ![j] = r] /\ r.pc = "starting"
      BY <1>0, <2>1, <2>3 DEF GoWait, Run
    <3> HIDE DEF r
    <3>2. Queued' = Queued \ {j} /\ InPool' = InPool \cup {j}
      BY <2>1, <3>1, RunChanges DEF Counted
    <3>3. Free > 0 /\ Free' = Free - 1
      BY <1>0, <2>3 DEF GoWait, Free, PoolInv, WithinLimit, Poller
    <3> QED
      BY <2>2, <3>2, <3>3, SlotSteps DEF Pool!Next
  <2>4. CASE ClaimOneFails
    <3> DEFINE r == [run[j] EXCEPT !.pc = "unrun"]
    <3>1. run' = [run EXCEPT ![j] = r] /\ r.pc = "unrun"
      BY <1>0, <2>1, <2>4 DEF ClaimOneFails, Run
    <3> HIDE DEF r
    <3>2. Queued' = Queued \ {j} /\ InPool' = InPool \ {j}
      BY <2>1, <3>1, RunChanges DEF Counted
    <3>3. InPool' = InPool
      BY <2>2, <3>2
    <3>4. Free' = Free
      BY <2>4 DEF ClaimOneFails, Free
    <3> QED
      BY <2>2, <3>2, <3>3, <3>4, SlotSteps DEF Pool!Next
  <2> QED
    BY <1>3, <2>3, <2>4
<1>4. CASE BeginDrain
  <2>1. Phase = "open" /\ Phase' = "closed" /\ UNCHANGED runnerVars
    BY <1>0, <1>4 DEF BeginDrain, Phase, Poller
  <2> QED
    BY <1>1, <2>1, SlotSteps DEF Pool!Next
<1>5. CASE DrainDone \/ DrainDeadline
  <2>1. UNCHANGED runnerVars /\ Phase = "closed"
    BY <1>5 DEF DrainDone, DrainDeadline, Phase
  <2>2. Phase' = IF InPool = {} THEN "clean" ELSE "dirty"
    <3>1. InPool = {} <=> inflight = 0
      BY Sizes, FS_EmptySet DEF PoolInv, CountersRight
    <3>2. waiting = 0 => inflight = 0
      BY <1>0, Sizes DEF PoolInv, CountersRight
    <3>3. CASE DrainDone
      BY <1>0, <3>1, <3>2, <3>3 DEF DrainDone, Phase, Poller
    <3>4. CASE DrainDeadline
      BY <1>0, <3>1, <3>4 DEF DrainDeadline, Phase, Poller
    <3> QED
      BY <1>5, <3>3, <3>4
  <2> QED
    BY <1>1, <2>1, <2>2, SlotSteps DEF Pool!Next
<1> QED
  BY <1>2, <1>3, <1>4, <1>5 DEF PollerStep

\* A goroutine frees its slot once, when it leaves.
LEMMA RunRefines == ASSUME NEW j \in Jobs PROVE PoolInv /\ RunStep(j) => [Pool!Next]_(Pool!vars)
<1> SUFFICES ASSUME PoolInv, RunStep(j) PROVE [Pool!Next]_(Pool!vars)
  OBVIOUS
<1>0. /\ inflight \in Nat /\ maxConcurrency \in Nat /\ run \in [Jobs -> Run]
  BY PoolAssumption, Sizes DEF PoolInv, StatesTyped, CountersRight
<1>1. Phase \in {"open", "closed"} /\ Phase' = Phase
  BY DEF RunStep, StartJob, Clone, Zigzag, Collect, Upload, Fail, CompleteJob, Leave, WaitGroupDone, At, Phase
<1>2. CASE Leave(j)
  <2> DEFINE r == [run[j] EXCEPT !.pc = "leaving"]
  <2>1. run' = [run EXCEPT ![j] = r] /\ r.pc = "leaving" /\ run[j].pc = "returned"
    BY <1>0, <1>2 DEF Leave, At, Goto, Run
  <2> HIDE DEF r
  <2>2. Queued' = Queued /\ InPool' = InPool \ {j} /\ j \in InPool
    BY <2>1, RunChanges DEF Counted, InPool
  <2>3. Free' = Free + 1
    BY <1>0, <1>2 DEF Leave, Free
  <2> QED
    BY <1>1, <2>2, <2>3, SlotSteps DEF Pool!Next
<1>3. CASE WaitGroupDone(j)
  <2> DEFINE r == [run[j] EXCEPT !.pc = "gone"]
  <2>1. run' = [run EXCEPT ![j] = r] /\ r.pc = "gone" /\ run[j].pc = "leaving"
    BY <1>0, <1>3 DEF WaitGroupDone, At, Goto, Run
  <2> HIDE DEF r
  <2>2. Queued' = Queued /\ InPool' = InPool
    BY <2>1, RunChanges DEF Counted, InPool
  <2>3. Free' = Free
    BY <1>3 DEF WaitGroupDone, Free
  <2> QED
    BY <1>1, <2>2, <2>3, SlotSteps
<1>4. CASE RunStep(j) /\ ~Leave(j) /\ ~WaitGroupDone(j)
  <2>1. PICK r \in Run : run' = [run EXCEPT ![j] = r] /\ r.pc \in Counted
    <3> DEFINE r == run'[j]
    <3>1. run' = [run EXCEPT ![j] = r] /\ r \in Run /\ r.pc \in Counted
      BY <1>0, <1>4, PoolAssumption DEF PoolInv, StatesTyped, RunStep, StartJob, Clone, Zigzag, Collect, Upload,
        Fail, CompleteJob, Goto, Run, Counted
    <3> QED
      BY <3>1
  <2>2. run[j].pc \in Counted
    BY <1>4 DEF RunStep, StartJob, Clone, Zigzag, Collect, Upload, Fail, CompleteJob, At, Counted
  <2>3. Queued' = Queued /\ InPool' = InPool
    BY <2>1, <2>2, RunChanges DEF Counted, InPool
  <2>4. Free' = Free
    BY <1>4 DEF RunStep, StartJob, Clone, Zigzag, Collect, Upload, Fail, CompleteJob, Free
  <2> QED
    BY <1>1, <2>3, <2>4, SlotSteps
<1> QED
  BY <1>2, <1>3, <1>4

\* A polling worker with its counters, batches, signal and drain implements the pool of
\* slots that a reader of its configuration expects.
THEOREM SlotsImplemented == Spec => ImplementsPool
<1>1. Init => Pool!Init
  <2> SUFFICES ASSUME Init PROVE Pool!Init
    OBVIOUS
  <2>1. /\ maxConcurrency - inflight \in Limits
        /\ Queued = Jobs
        /\ {j \in Jobs : j \in Executing \/ run[j].pc = "returned"} = {}
    BY PoolAssumption DEF Init, Queued, Executing
  <2> QED
    BY <2>1 DEF Init, Pool!Init
<1>2. PoolInv /\ [Next]_vars => [Pool!Next]_(Pool!vars)
  <2> SUFFICES ASSUME PoolInv, [Next]_vars PROVE [Pool!Next]_(Pool!vars)
    OBVIOUS
  <2>1. ASSUME UNCHANGED <<maxConcurrency, poller, run, inflight>> PROVE UNCHANGED Pool!vars
    <3>1. UNCHANGED <<Free, Queued, InPool, Phase>>
      BY <2>1 DEF Free, Queued, InPool, Phase
    <3> QED
      BY <3>1, SlotSteps
  <2>2. CASE Shutdown \/ UNCHANGED vars \/ \E j \in Jobs, c \in Commits : BranchMoves(j, c)
    BY <2>1, <2>2 DEF Shutdown, runnerVars, vars, BranchMoves
  <2>3. \A j \in Jobs : Tips[j] \subseteq Commits
    BY PoolAssumption
  <2> QED
    BY <2>2, <2>3, PollerRefines, RunRefines DEF Next
<1> QED
  BY <1>1, <1>2, PoolCorrect, PTL DEF Spec, ImplementsPool, Pool!Spec
=============================================================================
