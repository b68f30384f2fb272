-------------------- MODULE TaskDelivery_attempts_proofs ---------------------
(***************************************************************************)
(* Proofs about the attempts of a task: the watchdog fails no job during   *)
(* its first one, and as long as not all are killed one is left for every  *)
(* job in the queue.                                                       *)
(***************************************************************************)
EXTENDS TaskDelivery_proofs, JobSystem_lifecycle_proofs

-----------------------------------------------------------------------------
(* First attempts.  In a first attempt the job is started by the request    *)
(* itself, so that it has run no longer than the request has lasted; this  *)
(* takes that the attempt found it queued, hence that nobody touches a job *)
(* before its task is delivered, and that attempts do not overlap.         *)

BeingEnqueued(j) == \E h \in Handlers : push[h].pc = "enqueue" /\ push[h].job = j

Untouched ==
    \A j \in Jobs : attempts[j] = MaxAttempts \/ BeingEnqueued(j) =>
        jobs[j].status = "queued" /\ ~BeingExecuted(j)

EnqueuedOnce ==
    \A h \in Handlers : push[h].pc = "enqueue" =>
        /\ attempts[push[h].job] = 0
        /\ \A g \in Handlers : push[g].pc = "enqueue" /\ push[g].job = push[h].job => g = h

InFirstAttempt(w) == exec[w].pc # "idle" /\ attempts[exec[w].job] = MaxAttempts - 1

StartedByRequest ==
    \A w \in Workers : InFirstAttempt(w) =>
        /\ exec[w].pc = "starting" => jobs[exec[w].job].status = "queued"
        /\ jobs[exec[w].job].age <= ran[w]

FirstInv == Untouched /\ EnqueuedOnce /\ OneExecutionPerJob /\ StartedByRequest

\* The initial state satisfies it.
LEMMA FirstInvInit == DeliveryInit => FirstInv
<1> SUFFICES ASSUME DeliveryInit PROVE FirstInv
    OBVIOUS
<1>1. /\ \A h \in Handlers : push[h].pc = "idle"
      /\ \A w \in Workers : exec[w].pc = "idle"
      /\ \A j \in Jobs : attempts[j] # MaxAttempts
    BY DispatchAssumption DEF DeliveryInit, Init, IntakeInit, Waiting, ExecInit, IdleSlot, DispatchInit
<1> QED
    BY <1>1 DEF FirstInv, Untouched, BeingEnqueued, EnqueuedOnce, OneExecutionPerJob,
        StartedByRequest, InFirstAttempt

-----------------------------------------------------------------------------
(* The steps preserve the invariant.                                       *)

\* Steps that leave tables, tasks, requests and executions alone.
LEMMA FirstQuiet ==
    ASSUME FirstInv, UNCHANGED <<jobs, attempts, push, exec, ran>>
    PROVE  FirstInv'
BY DEF FirstInv, Untouched, BeingEnqueued, BeingExecuted, EnqueuedOnce, OneExecutionPerJob,
    StartedByRequest, InFirstAttempt

\* A push leaves the status of queued jobs alone, and creates a job nobody knows yet.
LEMMA FirstIntake ==
    ASSUME TypeInv, FirstInv, NEW h \in Handlers, PushStep(h), UNCHANGED <<exec, ran>>
    PROVE  FirstInv'
<1>1. UNCHANGED attempts
    BY DEF PushStep, PushBegin, PushCheck, PushUpdate, PushCreate, PushDuplicate, PushAbort
<1>2. push \in [Handlers -> Push]
    BY DEF TypeInv, TypeOK, IntakeTypeOK, PushTypeOK
<1>3. \A g \in Handlers \ {h} : push'[g] = push[g]
    BY <1>2 DEF PushStep, PushBegin, PushCheck, PushUpdate, PushCreate, PushDuplicate, PushAbort, Return
<1>4. /\ jobs \in [Jobs -> JobRow]
      /\ \A g \in Handlers : push[g].pc = "enqueue" =>
             push[g].job \in Jobs /\ jobs[push[g].job].status # "none"
      /\ \A w \in Workers : exec[w].pc # "idle" =>
             exec[w].job \in Jobs /\ jobs[exec[w].job].status # "none"
      /\ \A j \in Jobs : attempts[j] > 0 => jobs[j].status # "none"
    BY DEF TypeInv, TypeOK, StoreTypeOK, IntakeTypeOK, PushTypeOK, ExecTypeOK, PushRefers,
        ExecRefers, TaskRefers
<1>5. \A j \in Jobs : jobs[j].status # "none" =>
          jobs'[j].status = jobs[j].status /\ jobs'[j].age = jobs[j].age
    <2>1. CASE PushCreate(h)
        BY <1>4, <2>1 DEF PushCreate, CreateJob, InStatus
    <2>2. CASE PushUpdate(h)
        BY <1>4, <2>2 DEF PushUpdate, UpdateJobCommitSHA, JobRow
    <2> QED
        BY <2>1, <2>2 DEF PushStep, PushBegin, PushCheck, PushDuplicate, PushAbort
<1>6. OneExecutionPerJob'
    BY DEF FirstInv, OneExecutionPerJob
<1>7. StartedByRequest'
    BY <1>1, <1>4, <1>5 DEF FirstInv, StartedByRequest, InFirstAttempt
<1>8. CASE push'[h].pc # "enqueue"
    <2>1. \A j \in Jobs : BeingEnqueued(j)' => BeingEnqueued(j)
        BY <1>3, <1>8 DEF BeingEnqueued
    <2>2. Untouched'
        BY <1>1, <1>5, <2>1 DEF FirstInv, Untouched, BeingExecuted
    <2>3. EnqueuedOnce'
        BY <1>1, <1>3, <1>8 DEF FirstInv, EnqueuedOnce
    <2> QED
        BY <1>6, <1>7, <2>2, <2>3 DEF FirstInv
<1>9. CASE PushCreate(h)
    <2>1. PICK k \in Jobs :
              /\ jobs[k].status = "none"
              /\ jobs' = CreateJob(k, PushBranch(h), PushCommit(h), DeliveryId(h), push[h].begun)
              /\ push' = [push EXCEPT ![h].pc = "enqueue", ![h].job = k]
        BY <1>9 DEF PushCreate, InStatus
    <2>2. push'[h].pc = "enqueue" /\ push'[h].job = k /\ jobs'[k].status = "queued"
        BY <1>2, <1>4, <2>1 DEF Push, CreateJob
    <2>3. ~BeingExecuted(k) /\ ~BeingEnqueued(k)
        BY <1>4, <2>1 DEF BeingExecuted, BeingEnqueued
    <2>4. attempts[k] = 0
        BY <1>4, <2>1 DEF TypeInv, TypeOK, DispatchTypeOK
    <2>5. \A j \in Jobs \ {k} : BeingEnqueued(j)' => BeingEnqueued(j)
        BY <1>3, <2>2 DEF BeingEnqueued
    <2>6. \A j \in Jobs \ {k} : jobs[j].status = "queued" => jobs'[j].status = "queued"
        BY <1>5
    <2>7. Untouched'
        BY <1>1, <2>2, <2>3, <2>5, <2>6 DEF FirstInv, Untouched, BeingExecuted
    <2>8. EnqueuedOnce'
        BY <1>1, <1>3, <2>2, <2>3, <2>4 DEF FirstInv, EnqueuedOnce, BeingEnqueued
    <2> QED
        BY <1>6, <1>7, <2>7, <2>8 DEF FirstInv
<1>10. PushCreate(h) \/ push'[h].pc # "enqueue"
    BY <1>2 DEF PushStep, PushBegin, PushCheck, PushUpdate, PushDuplicate, PushAbort, Return, Waiting, Push
<1> QED
    BY <1>8, <1>9, <1>10

\* A task is enqueued for a queued job that nobody executes.
LEMMA FirstEnqueue ==
    ASSUME TypeInv, FirstInv, NEW h \in Handlers, PushEnqueue(h), UNCHANGED <<exec, ran>>
    PROVE  FirstInv'
<1> DEFINE j == push[h].job
<1>1. /\ push \in [Handlers -> Push] /\ attempts \in [Jobs -> 0 .. MaxAttempts]
      /\ push[h].pc = "enqueue" /\ j \in Jobs
    BY DEF PushEnqueue, TypeInv, TypeOK, IntakeTypeOK, PushTypeOK, DispatchTypeOK
<1>2. /\ UNCHANGED jobs
      /\ \A k \in Jobs \ {j} : attempts'[k] = attempts[k]
      /\ push'[h].pc = "idle"
      /\ \A g \in Handlers \ {h} : push'[g] = push[g]
    BY <1>1 DEF PushEnqueue, Enqueue, Return, Waiting
<1>3. jobs[j].status = "queued" /\ ~BeingExecuted(j)
    BY <1>1 DEF FirstInv, Untouched, BeingEnqueued
<1>4. \A g \in Handlers \ {h} : push[g].pc = "enqueue" => push[g].job # j
    BY <1>1 DEF FirstInv, EnqueuedOnce
<1>5. \A g \in Handlers : push[g].pc = "enqueue" => push[g].job \in Jobs
    BY DEF TypeInv, TypeOK, IntakeTypeOK, PushTypeOK
<1>6. \A w \in Workers : exec[w].pc # "idle" => exec[w].job \in Jobs /\ exec[w].job # j
    BY <1>3 DEF BeingExecuted, TypeInv, TypeOK, ExecTypeOK
<1> HIDE DEF j
<1>7. Untouched'
    <2>1. \A k \in Jobs : BeingEnqueued(k)' => BeingEnqueued(k)
        BY <1>2 DEF BeingEnqueued
    <2> QED
        BY <1>2, <1>3, <2>1 DEF FirstInv, Untouched, BeingExecuted
<1>8. EnqueuedOnce'
    BY <1>2, <1>4, <1>5 DEF FirstInv, EnqueuedOnce
<1>9. StartedByRequest'
    BY <1>2, <1>6 DEF FirstInv, StartedByRequest, InFirstAttempt
<1> QED
    BY <1>7, <1>8, <1>9 DEF FirstInv, OneExecutionPerJob

\* An attempt that is refused leaves a task that is no longer a new one.
LEMMA FirstRefusal ==
    ASSUME TypeInv, FirstInv, NEW j \in Jobs, RunUnauthorized(j)
    PROVE  FirstInv'
<1>1. /\ UNCHANGED <<jobs, push, exec, ran>>
      /\ attempts[j] \in 1 .. MaxAttempts /\ attempts'[j] = attempts[j] - 1
      /\ \A k \in Jobs \ {j} : attempts'[k] = attempts[k]
      /\ ~BeingExecuted(j)
    BY DEF RunUnauthorized, Attempt, execVars, intakeVars, runVars, TypeInv, TypeOK, DispatchTypeOK
<1>2. attempts'[j] # MaxAttempts
    BY <1>1, DispatchAssumption
<1>3. Untouched'
    BY <1>1, <1>2 DEF FirstInv, Untouched, BeingEnqueued, BeingExecuted
<1>4. \A h \in Handlers : push[h].pc = "enqueue" => push[h].job \in Jobs \ {j}
    BY <1>1 DEF FirstInv, EnqueuedOnce, TypeInv, TypeOK, IntakeTypeOK, PushTypeOK
<1>5. EnqueuedOnce'
    BY <1>1, <1>4 DEF FirstInv, EnqueuedOnce
<1>6. \A w \in Workers : exec[w].pc # "idle" => exec[w].job \in Jobs \ {j}
    BY <1>1 DEF BeingExecuted, TypeInv, TypeOK, ExecTypeOK
<1>7. StartedByRequest'
    BY <1>1, <1>6 DEF FirstInv, StartedByRequest, InFirstAttempt
<1> QED
    BY <1>1, <1>3, <1>5, <1>7 DEF FirstInv, OneExecutionPerJob

\* A first attempt finds its job queued.
LEMMA FirstRun ==
    ASSUME TypeInv, AgesCounted, DeliveryInv, FirstInv, NEW w \in Workers, NEW j \in Jobs,
           RunAuthorized(w, j)
    PROVE  FirstInv'
<1>1. /\ UNCHANGED <<jobs, push>>
      /\ attempts \in [Jobs -> 0 .. MaxAttempts]
      /\ attempts[j] \in 1 .. MaxAttempts /\ attempts'[j] = attempts[j] - 1
      /\ \A k \in Jobs \ {j} : attempts'[k] = attempts[k]
      /\ ~BeingExecuted(j)
      /\ exec[w].pc = "idle"
    BY DEF RunAuthorized, Deliver, Attempt, intakeVars, TypeInv, TypeOK, DispatchTypeOK
<1>2. /\ exec'[w].pc = "starting" /\ exec'[w].job = j
      /\ \A v \in Workers \ {w} : exec'[v] = exec[v]
    BY DEF RunAuthorized, Deliver, TypeInv, TypeOK, ExecTypeOK
<1>3. \A v \in Workers : exec[v].pc # "idle" => exec[v].job \in Jobs \ {j}
    BY <1>1 DEF BeingExecuted, TypeInv, TypeOK, ExecTypeOK
<1>4. Untouched'
    <2>1. attempts'[j] # MaxAttempts /\ ~BeingEnqueued(j)
        BY <1>1, DispatchAssumption DEF FirstInv, EnqueuedOnce, BeingEnqueued
    <2>2. \A k \in Jobs \ {j} : BeingExecuted(k)' => BeingExecuted(k)
        BY <1>2 DEF BeingExecuted
    <2> QED
        BY <1>1, <2>1, <2>2 DEF FirstInv, Untouched, BeingEnqueued
<1>5. EnqueuedOnce'
    <2>1. \A h \in Handlers : push[h].pc = "enqueue" => push[h].job \in Jobs \ {j}
        BY <1>1 DEF FirstInv, EnqueuedOnce, TypeInv, TypeOK, IntakeTypeOK, PushTypeOK
    <2> QED
        BY <1>1, <2>1 DEF FirstInv, EnqueuedOnce
<1>6. OneExecutionPerJob'
    BY <1>2, <1>3 DEF FirstInv, OneExecutionPerJob
<1>7. StartedByRequest'
    <2>1. ran' = [ran EXCEPT ![w] = 0]
        BY DEF RunAuthorized
    <2>2. ran'[w] = 0 /\ \A v \in Workers \ {w} : ran'[v] = ran[v]
        BY <2>1 DEF DeliveryInv, Requests
    <2>3. ASSUME InFirstAttempt(w)'
          PROVE  jobs'[j].status = "queued" /\ jobs'[j].age <= ran'[w]
        <3>1. attempts[j] = MaxAttempts
            BY <1>1, <1>2, <2>3, DispatchAssumption DEF InFirstAttempt
        <3>2. jobs[j].status = "queued" /\ jobs[j].age = 0
            BY <3>1 DEF FirstInv, Untouched, AgesCounted
        <3> QED
            BY <1>1, <2>2, <3>2
    <2> QED
        BY <1>1, <1>2, <1>3, <2>2, <2>3 DEF FirstInv, StartedByRequest, InFirstAttempt
<1> QED
    BY <1>4, <1>5, <1>6, <1>7 DEF FirstInv

\* An execution touches the row and the task of its own job only; while it lasts the
\* age of the job is reset or left alone.
LEMMA ExecutionTouches ==
    ASSUME TypeInv, AgesCounted, NEW w \in Workers, ExecutionStep(w)
    PROVE  /\ UNCHANGED push
           /\ \A j \in Jobs \ {exec[w].job} : jobs'[j] = jobs[j] /\ attempts'[j] = attempts[j]
           /\ attempts'[exec[w].job] \in {0, attempts[exec[w].job]}
           /\ exec'[w].pc # "idle" =>
                  /\ exec'[w].pc # "starting"
                  /\ UNCHANGED attempts
                  /\ jobs'[exec[w].job].age \in {0, jobs[exec[w].job].age}
<1>0. /\ exec \in [Workers -> Exec] /\ attempts \in [Jobs -> 0 .. MaxAttempts] /\ jobs \in [Jobs -> JobRow]
      /\ exec[w].pc # "idle" => exec[w].job \in Jobs
    BY DEF TypeInv, TypeOK, StoreTypeOK, ExecTypeOK, DispatchTypeOK
<1>1. UNCHANGED push
    BY DEF ExecutionStep, StartAuthorized, StartUnauthorized, Work, CompleteAuthorized,
        CompleteUnauthorized, CutOff, Killed, RequestEnds, intakeVars
<1>2. CASE StartAuthorized(w)
    <2>1. /\ exec[w].pc = "starting"
          /\ exec'[w].pc \in {"running", "failing"}
          /\ UNCHANGED attempts
          /\ jobs' = jobs \/ jobs' = Start(exec[w].job)
        BY <1>0, <1>2 DEF StartAuthorized, CallStart, CallStartFails, Goto, Exec
    <2> QED
        BY <1>0, <1>1, <2>1 DEF Start, UpdateJobStatus, JobRow
<1>3. CASE StartUnauthorized(w) \/ Work(w)
    <2>1. UNCHANGED <<jobs, attempts>> /\ exec'[w].pc \in {"succeeding", "failing"}
        BY <1>0, <1>3 DEF StartUnauthorized, Work, RunAndUpload, RunFails, Goto, Exec
    <2> QED
        BY <1>1, <2>1
<1>4. CASE CompleteAuthorized(w) \/ CompleteUnauthorized(w)
    <2>1. /\ exec[w].pc # "idle"
          /\ Answer(exec[w].job)
          /\ exec'[w].pc = "idle"
        BY <1>0, <1>4 DEF CompleteAuthorized, CompleteUnauthorized, CallComplete, Report, Free, IdleSlot
    <2>2. \A j \in Jobs \ {exec[w].job} : jobs'[j] = jobs[j]
        BY <1>0, <1>4 DEF CompleteAuthorized, CompleteUnauthorized, Report, Complete, UpdateJobStatus
    <2> QED
        BY <1>0, <1>1, <2>1, <2>2 DEF Answer
<1>5. CASE CutOff(w) \/ Killed(w)
    <2>1. UNCHANGED <<jobs, attempts>> /\ exec'[w].pc = "idle"
        BY <1>0, <1>5 DEF CutOff, Killed, WorkerDies, Free, IdleSlot
    <2> QED
        BY <1>1, <2>1
<1> QED
    BY <1>2, <1>3, <1>4, <1>5 DEF ExecutionStep

\* A first attempt that goes on has just started its job or started it before.
LEMMA FirstExecution ==
    ASSUME TypeInv, AgesCounted, DeliveryInv, FirstInv, NEW w \in Workers, ExecutionStep(w)
    PROVE  FirstInv'
<1>0. PICK j \in Jobs : j = exec[w].job
    BY ExecutionFrame DEF TypeInv, TypeOK, ExecTypeOK
<1>1. /\ exec[w].pc # "idle"
      /\ \A v \in Workers \ {w} : exec'[v] = exec[v]
      /\ exec'[w].pc # "idle" => exec'[w].job = j /\ UNCHANGED ran
    BY <1>0, ExecutionFrame DEF runVars
<1>2. /\ UNCHANGED push
      /\ \A k \in Jobs \ {j} : jobs'[k] = jobs[k] /\ attempts'[k] = attempts[k]
      /\ attempts'[j] \in {0, attempts[j]}
      /\ exec'[w].pc # "idle" =>
             /\ exec'[w].pc # "starting"
             /\ UNCHANGED attempts
             /\ jobs'[j].age \in {0, jobs[j].age}
    BY <1>0, ExecutionTouches
<1>3. \A v \in Workers \ {w} : ran'[v] = ran[v]
    BY ExecutionFrame DEF RequestEnds, runVars, DeliveryInv, Requests
<1>4. attempts[j] # MaxAttempts /\ ~BeingEnqueued(j)
    BY <1>0, <1>1 DEF FirstInv, Untouched, BeingExecuted
<1>5. \A v \in Workers \ {w} : exec[v].pc # "idle" => exec[v].job \in Jobs \ {j}
    BY <1>0, <1>1 DEF FirstInv, OneExecutionPerJob, TypeInv, TypeOK, ExecTypeOK
<1>6. attempts[j] \in 0 .. MaxAttempts /\ ran[w] \in Nat
    BY <1>1 DEF DeliveryInv, Requests, TypeInv, TypeOK, DispatchTypeOK
<1>7. Untouched'
    <2>1. attempts'[j] # MaxAttempts /\ ~BeingEnqueued(j)'
        BY <1>2, <1>4, DispatchAssumption DEF BeingEnqueued
    <2>2. \A k \in Jobs : BeingExecuted(k)' => BeingExecuted(k)
        BY <1>0, <1>1 DEF BeingExecuted
    <2> QED
        BY <1>2, <2>1, <2>2 DEF FirstInv, Untouched, BeingEnqueued
<1>8. EnqueuedOnce'
    <2>1. \A h \in Handlers : push[h].pc = "enqueue" => push[h].job \in Jobs \ {j}
        BY <1>4 DEF BeingEnqueued, TypeInv, TypeOK, IntakeTypeOK, PushTypeOK
    <2> QED
        BY <1>2, <2>1 DEF FirstInv, EnqueuedOnce
<1>9. OneExecutionPerJob'
    BY <1>1, <1>5 DEF FirstInv, OneExecutionPerJob
<1>10. StartedByRequest'
    <2>1. ASSUME NEW v \in Workers \ {w}, InFirstAttempt(v)'
          PROVE  /\ exec'[v].pc = "starting" => jobs'[exec'[v].job].status = "queued"
                 /\ jobs'[exec'[v].job].age <= ran'[v]
        BY <1>1, <1>2, <1>3, <1>5, <2>1 DEF FirstInv, StartedByRequest, InFirstAttempt
    <2>2. ASSUME InFirstAttempt(w)'
          PROVE  exec'[w].pc # "starting" /\ jobs'[exec'[w].job].age <= ran'[w]
        <3>1. exec'[w].pc # "idle" /\ attempts'[j] = MaxAttempts - 1
            BY <1>1, <2>2 DEF InFirstAttempt
        <3>2. CASE jobs'[j].age = 0
            BY <1>1, <1>2, <1>6, <3>1, <3>2
        <3>3. CASE jobs'[j].age = jobs[j].age /\ attempts'[j] = attempts[j]
            <4>1. InFirstAttempt(w)
                BY <1>0, <1>1, <3>1, <3>3 DEF InFirstAttempt
            <4> QED
                BY <1>0, <1>1, <1>2, <3>1, <3>3, <4>1 DEF FirstInv, StartedByRequest
        <3> QED
            BY <1>2, <3>1, <3>2, <3>3
    <2> QED
        BY <2>1, <2>2 DEF StartedByRequest
<1> QED
    BY <1>7, <1>8, <1>9, <1>10 DEF FirstInv

\* The watchdog leaves queued jobs alone, and makes none older.
LEMMA FirstWatchdog == ASSUME TypeInv, AgesCounted, DeliveryInv, FirstInv, Watchdog PROVE FirstInv'
<1>1. UNCHANGED <<attempts, push, exec, ran>>
    BY DEF Watchdog, Timeout, intakeVars, runVars
<1>2. \A j \in Jobs : jobs'[j] = jobs[j] \/ (jobs[j].status # "queued" /\ jobs'[j].age = 0)
    <2> TAKE j \in Jobs
    <2>1. jobs[j] \in JobRow
        BY DEF TypeInv, TypeOK, StoreTypeOK
    <2>2. \/ jobs'[j] = jobs[j]
          \/ /\ jobs[j].status # "queued"
             /\ jobs'[j] = [jobs[j] EXCEPT !.status = "failed", !.age = 0]
        BY DEF Watchdog, Timeout, TimeoutRunningJobs, Overdue, InStatus
    <2> QED
        BY <2>1, <2>2 DEF JobRow
<1>3. Untouched'
    BY <1>1, <1>2 DEF FirstInv, Untouched, BeingEnqueued, BeingExecuted
<1>4. StartedByRequest'
    <2>1. \A w \in Workers : ran[w] \in Nat /\ (exec[w].pc # "idle" => exec[w].job \in Jobs)
        BY DEF DeliveryInv, Requests, TypeInv, TypeOK, ExecTypeOK
    <2> QED
        BY <1>1, <1>2, <2>1 DEF FirstInv, StartedByRequest, InFirstAttempt
<1> QED
    BY <1>1, <1>3, <1>4 DEF FirstInv, EnqueuedOnce, OneExecutionPerJob

\* In a tick a job ages no more than the request that executes it.
LEMMA FirstElapse == ASSUME TypeInv, AgesCounted, DeliveryInv, FirstInv, Elapse PROVE FirstInv'
<1>1. UNCHANGED <<attempts, push, exec>>
    BY DEF Elapse, Tick, intakeVars, execVars
<1>2. \A j \in Jobs :
          /\ jobs'[j].status = jobs[j].status
          /\ jobs'[j].age \in {jobs[j].age, jobs[j].age + 1}
    <2> TAKE j \in Jobs
    <2>1. jobs[j] \in JobRow
        BY DEF TypeInv, TypeOK, StoreTypeOK
    <2>2. jobs'[j] = jobs[j] \/ jobs'[j] = [jobs[j] EXCEPT !.age = jobs[j].age + 1]
        BY DEF Elapse, Tick
    <2> QED
        BY <2>1, <2>2 DEF JobRow
<1>3. Untouched'
    BY <1>1, <1>2 DEF FirstInv, Untouched, BeingEnqueued, BeingExecuted
<1>4. StartedByRequest'
    <2>1. ASSUME NEW w \in Workers, InFirstAttempt(w)
          PROVE  /\ exec[w].pc = "running"
                 /\ jobs'[exec[w].job].age <= ran'[w]
        <3>1. exec[w].pc = "running" /\ ran'[w] = ran[w] + 1
            BY <2>1 DEF Elapse, InTime, InFirstAttempt
        <3>2. exec[w].job \in Jobs /\ jobs[exec[w].job].age <= ran[w]
            BY <2>1, <3>1 DEF FirstInv, StartedByRequest, TypeInv, TypeOK, ExecTypeOK
        <3>3. ran[w] \in Nat /\ jobs[exec[w].job].age \in Nat
            BY <3>2, TimeoutAssumption DEF DeliveryInv, Requests, TypeInv, TypeOK, StoreTypeOK, JobRow
        <3> QED
            BY <1>2, <3>1, <3>2, <3>3
    <2> QED
        BY <1>1, <2>1 DEF StartedByRequest, InFirstAttempt
<1> QED
    BY <1>1, <1>3, <1>4 DEF FirstInv, EnqueuedOnce, OneExecutionPerJob

\* Every step preserves the invariant.
LEMMA FirstInvNext ==
    ASSUME TypeInv, AgesCounted, DeliveryInv, FirstInv, [DeliveryNext]_allVars PROVE FirstInv'
<1>1. CASE Deploy \/ Retire \/ UNCHANGED allVars
    <2>1. UNCHANGED <<jobs, attempts, push, exec, ran>>
        BY <1>1 DEF Deploy, Retire, allVars, vars, runVars
    <2> QED
        BY <2>1, FirstQuiet
<1>2. CASE Intake
    BY <1>2, FirstIntake DEF Intake, execVars, runVars
<1>3. ASSUME NEW h \in Handlers, SignAndEnqueue(h) PROVE FirstInv'
    BY <1>3, FirstEnqueue DEF SignAndEnqueue, execVars, runVars
<1>4. ASSUME NEW j \in Jobs, RunUnauthorized(j) PROVE FirstInv'
    BY <1>4, FirstRefusal
<1>5. ASSUME NEW j \in Jobs, NEW w \in Workers, RunAuthorized(w, j) PROVE FirstInv'
    BY <1>5, FirstRun
<1>6. ASSUME NEW w \in Workers, ExecutionStep(w) PROVE FirstInv'
    BY <1>6, FirstExecution
<1>7. CASE Watchdog
    BY <1>7, FirstWatchdog
<1>8. CASE Elapse
    BY <1>8, FirstElapse
<1> QED
    BY <1>1, <1>2, <1>3, <1>4, <1>5, <1>6, <1>7, <1>8 DEF DeliveryNext, TaskStep

\* No job is overdue while its first attempt executes it.
LEMMA FirstNotOverdue ==
    ASSUME TypeInv, DeliveryInv, FirstInv, RequestTimeout <= TimeoutAge,
           NEW j \in Jobs, BeingExecuted(j), attempts[j] = MaxAttempts - 1
    PROVE  j \notin Overdue
<1>1. PICK w \in Workers : exec[w].pc # "idle" /\ exec[w].job = j
    BY DEF BeingExecuted
<1>2. jobs[j].age <= ran[w]
    BY <1>1 DEF FirstInv, StartedByRequest, InFirstAttempt
<1>3. jobs[j].age \in Nat /\ ran[w] \in Nat /\ ran[w] <= RequestTimeout
    BY TimeoutAssumption, DeliveryAssumption
    DEF DeliveryInv, Requests, TypeInv, TypeOK, StoreTypeOK, JobRow
<1>4. RequestTimeout \in Nat /\ TimeoutAge \in Nat
    BY DeliveryAssumption, TimeoutAssumption
<1> QED
    BY <1>2, <1>3, <1>4 DEF Overdue

\* The invariant holds of every behaviour, which shows that nobody touches a job before
\* its task is delivered and that no two attempts of a job overlap.
THEOREM FirstAttempts == DeliverySpec => []FirstInv
<1>1. DeliverySpec => [](TypeInv /\ ExecInv)
    BY JobSystemImplemented, TypeCorrect, ExecCorrect, PTL DEF ImplementsJobSystem
<1>2. TypeInv /\ ExecInv /\ DeliveryInv /\ FirstInv /\ [DeliveryNext]_allVars => FirstInv'
    BY FirstInvNext DEF ExecInv
<1> QED
    BY <1>1, <1>2, DeliveryCorrect, FirstInvInit, PTL DEF DeliverySpec

\* If Cloud Run cuts requests off before a job can be overdue, the watchdog fails no
\* job while its first attempt executes it.
THEOREM WatchdogSpares ==
    ASSUME RequestTimeout <= TimeoutAge PROVE DeliverySpec => WatchdogSparesFirstAttempt
<1>1. TypeInv /\ DeliveryInv /\ FirstInv =>
          [\A j \in Jobs : BeingExecuted(j) /\ attempts[j] = MaxAttempts - 1
               => ~(Watchdog /\ jobs'[j] # jobs[j])]_allVars
    <2> SUFFICES ASSUME TypeInv, DeliveryInv, FirstInv, Watchdog,
                        NEW j \in Jobs, BeingExecuted(j), attempts[j] = MaxAttempts - 1
                 PROVE  jobs'[j] = jobs[j]
        OBVIOUS
    <2>1. j \notin Overdue
        BY FirstNotOverdue
    <2> QED
        BY <2>1 DEF Watchdog, Timeout, TimeoutRunningJobs
<1> QED
    BY <1>1, DeliveryCorrect, FirstAttempts, PTL DEF WatchdogSparesFirstAttempt

-----------------------------------------------------------------------------
(* No job is stranded.  Each attempt of a queued job that was made has     *)
(* been killed or is about to start the job, and it came no later than the *)
(* queue's backlog and backoff allow; so one is left, in time.             *)

Spent(j) == MaxAttempts - attempts[j]

\* How old the token is at most when that many attempts have begun.
Allowance(spent) == IF spent = 0 THEN 0 ELSE Backlog + (spent - 1) * Backoff

Delivered(j) ==
    /\ ~BeingExecuted(j)
    /\ Spent(j) <= kills
    /\ token[j].age <= waited[j] + Allowance(Spent(j))

Starting(w, j) ==
    /\ exec[w].pc = "starting" /\ exec[w].job = j
    /\ ran[w] = 0
    /\ Spent(j) - 1 <= kills
    /\ token[j].age <= Allowance(Spent(j))

Cared(j) == BeingEnqueued(j) \/ Delivered(j) \/ \E w \in Workers : Starting(w, j)

Favourable == Sound /\ Timely /\ MaxKills < MaxAttempts

FailingStarted == \A w \in Workers : exec[w].pc = "failing" => jobs[exec[w].job].status # "queued"

CareInv == FailingStarted /\ \A j \in Jobs : jobs[j].status = "queued" => Cared(j)

\* Another attempt adds the wait before it; all of them are allowed for in time.
LEMMA Allowances ==
    ASSUME NEW spent \in Nat
    PROVE  /\ Allowance(spent) \in Nat
           /\ Allowance(spent + 1) = Allowance(spent) + IF spent = 0 THEN Backlog ELSE Backoff
           /\ Timely /\ spent < MaxAttempts => Allowance(spent + 1) <= TTL
<1>1. Backlog \in Nat /\ Backoff \in Nat /\ MaxAttempts \in Nat \ {0} /\ TTL \in Nat
    BY DeliveryAssumption, DispatchAssumption, TokenAssumption
<1>2. spent * Backoff \in Nat
    BY <1>1
<1>3. spent > 0 => (spent - 1) * Backoff \in Nat /\ spent * Backoff = (spent - 1) * Backoff + Backoff
    BY <1>1
<1>4. ASSUME Timely, spent < MaxAttempts PROVE Backlog + spent * Backoff <= TTL
    <2> DEFINE rest == (MaxAttempts - 1) - spent
    <2>1. rest \in Nat /\ MaxAttempts - 1 = spent + rest
        BY <1>1, <1>4
    <2>2. rest * Backoff \in Nat /\ (spent + rest) * Backoff = spent * Backoff + rest * Backoff
        <3> HIDE DEF rest
        <3> QED
            BY <1>1, <2>1
    <2> HIDE DEF rest
    <2>3. Backlog + (spent + rest) * Backoff <= TTL
        BY <1>4, <2>1 DEF Timely
    <2> QED
        BY <1>1, <1>2, <2>2, <2>3
<1> QED
    BY <1>1, <1>2, <1>3, <1>4 DEF Allowance

\* The numbers of attempts, kills and ages are natural ones.
LEMMA CareTyped ==
    ASSUME TypeInv, DeliveryInv, NEW j \in Jobs
    PROVE  /\ attempts[j] \in 0 .. MaxAttempts /\ Spent(j) \in Nat /\ MaxAttempts \in Nat \ {0}
           /\ kills \in 0 .. MaxKills /\ MaxKills \in Nat
           /\ token[j].age \in Nat
           /\ waited[j] \in Nat
           /\ Allowance(Spent(j)) \in Nat
<1>1. attempts[j] \in 0 .. MaxAttempts /\ MaxAttempts \in Nat \ {0}
    BY DispatchAssumption DEF TypeInv, TypeOK, DispatchTypeOK
<1>2. kills \in 0 .. MaxKills /\ MaxKills \in Nat /\ waited[j] \in Nat
    BY DeliveryAssumption DEF DeliveryInv, Requests, Waits
<1>3. token[j].age \in Nat
    <2>1. token[j] \in Token \/ token[j] = NoToken
        BY DEF DeliveryInv, Tokens
    <2> QED
        BY <2>1, TokenAssumption DEF Token, NoToken
<1>4. Spent(j) \in Nat
    BY <1>1 DEF Spent
<1> QED
    BY <1>1, <1>2, <1>3, <1>4, Allowances

\* A delivered task of a queued job has an attempt left and is not too late for it.
LEMMA DeliveredInTime ==
    ASSUME TypeInv, DeliveryInv, Favourable, NEW j \in Jobs, Delivered(j)
    PROVE  /\ attempts[j] > 0
           /\ token[j].age <= Allowance(Spent(j) + 1)
           /\ token[j].age <= TTL
<1>1. Spent(j) < MaxAttempts /\ attempts[j] > 0
    BY CareTyped DEF Favourable, Delivered, Spent
<1>2. waited[j] <= IF Spent(j) = 0 THEN Backlog ELSE Backoff
    BY <1>1, CareTyped DEF DeliveryInv, Waits, Delivered, Spent
<1>3. /\ Allowance(Spent(j) + 1) = Allowance(Spent(j)) + IF Spent(j) = 0 THEN Backlog ELSE Backoff
      /\ Allowance(Spent(j) + 1) <= TTL
    BY <1>1, CareTyped, Allowances DEF Favourable
<1>4. Backlog \in Nat /\ Backoff \in Nat /\ TTL \in Nat
    BY DeliveryAssumption, TokenAssumption
<1> QED
    BY <1>1, <1>2, <1>3, <1>4, CareTyped DEF Delivered

\* A step that leaves a job's task and the execution of the job alone keeps it cared for.
LEMMA CareKept ==
    ASSUME TypeInv, DeliveryInv, NEW j \in Jobs, Cared(j),
           BeingEnqueued(j) => BeingEnqueued(j)',
           attempts'[j] = attempts[j], token'[j] = token[j], waited'[j] = waited[j],
           \A w \in Workers : (exec[w].pc # "idle" /\ exec[w].job = j)
                   \/ (exec'[w].pc # "idle" /\ exec'[w].job = j)
               => exec'[w] = exec[w] /\ ran'[w] = ran[w],
           kills' \in Nat, kills <= kills'
    PROVE  Cared(j)'
<1>1. Spent(j)' = Spent(j) /\ (Delivered(j) => Spent(j)' <= kills') /\ (Spent(j) - 1 <= kills => Spent(j)' - 1 <= kills')
    BY CareTyped DEF Spent, Delivered
<1>2. CASE Delivered(j)
    BY <1>1, <1>2 DEF Delivered, BeingExecuted, Cared, Allowance
<1>3. ASSUME NEW w \in Workers, Starting(w, j) PROVE Starting(w, j)'
    BY <1>1, <1>3 DEF Starting, Allowance
<1> QED
    BY <1>2, <1>3 DEF Cared

\* No step puts a job into the queue but the push that creates it; plans stay as they are.
LEMMA QueuedBefore ==
    ASSUME TypeInv, ExecInv, [DeliveryNext]_allVars
    PROVE  /\ \A j \in Jobs : jobs'[j].status = "queued" => jobs[j].status \in {"none", "queued"}
           /\ ~Intake => \A j \in Jobs : jobs'[j].status = "queued" => jobs[j].status = "queued"
           /\ Favourable' => Favourable
<1>1. [Next]_vars
    BY StepRefines
<1>2. jobs \in [Jobs -> JobRow]
    BY DEF TypeInv, TypeOK, StoreTypeOK
<1>3. \A j \in Jobs : jobs'[j].status = "queued" => jobs[j].status \in {"none", "queued"}
    BY <1>1, RowFacts
<1>4. ExecStep => \A j \in Jobs : jobs'[j].status = "queued" => jobs[j].status = "queued"
    BY <1>2, ExecTransitions DEF Keeps, Ages, Begins, Ends, JobRow
<1>5. ~Intake => UNCHANGED jobs \/ ExecStep
    <2>1. ASSUME NEW h \in Handlers, SignAndEnqueue(h) PROVE UNCHANGED jobs
        BY <2>1 DEF SignAndEnqueue, PushEnqueue
    <2>2. ASSUME NEW j \in Jobs, RunUnauthorized(j) PROVE UNCHANGED jobs
        BY <2>2 DEF RunUnauthorized
    <2>3. ASSUME NEW j \in Jobs, NEW w \in Workers, RunAuthorized(w, j) PROVE UNCHANGED jobs
        BY <2>3 DEF RunAuthorized, Deliver
    <2>4. CASE Deploy \/ Retire \/ UNCHANGED allVars
        BY <2>4 DEF Deploy, Retire, allVars, vars
    <2>5. ASSUME Watchdog \/ Elapse \/ \E w \in Workers : ExecutionStep(w), ~UNCHANGED jobs
          PROVE  ExecStep
        <3>1. CASE Watchdog \/ Elapse
            BY <2>5, <3>1 DEF Watchdog, Elapse, ExecStep, ExecNext
        <3>2. ASSUME NEW w \in Workers, ExecutionStep(w) PROVE ExecStep
            <4>1. CASE StartAuthorized(w)
                BY <4>1 DEF StartAuthorized, ExecStep, ExecNext, WorkerStep
            <4>2. CASE CompleteAuthorized(w)
                BY <4>2 DEF CompleteAuthorized, RequestEnds, ExecStep, ExecNext, WorkerStep
            <4> QED
                BY <2>5, <3>2, <4>1, <4>2 DEF ExecutionStep, StartUnauthorized, Work, RunAndUpload,
                    RunFails, CompleteUnauthorized, CutOff, Killed, WorkerDies
        <3> QED
            BY <2>5, <3>1, <3>2
    <2> QED
        BY <2>1, <2>2, <2>3, <2>4, <2>5 DEF DeliveryNext, TaskStep
<1>6. UNCHANGED plan
    <2>1. ASSUME NEW w \in Workers, ExecutionStep(w) PROVE UNCHANGED plan
        BY <2>1, ExecutionFrame DEF rolloutVars
    <2> QED
        BY <2>1 DEF DeliveryNext, Deploy, Retire, Intake, SignAndEnqueue, TaskStep, RunUnauthorized,
            RunAuthorized, Watchdog, Elapse, allVars, rolloutVars
<1>7. Favourable' => Favourable
    BY <1>6 DEF Favourable, Sound, Timely
<1> QED
    BY <1>3, <1>4, <1>5, <1>7

\* An execution that fails has left the queue: start callbacks are not refused for
\* their token.
LEMMA FailingKept ==
    ASSUME TypeInv, ExecInv, DeliveryInv, Sound, FailingStarted, [DeliveryNext]_allVars
    PROVE  FailingStarted'
<1> SUFFICES ASSUME NEW w \in Workers, exec'[w].pc = "failing" PROVE jobs'[exec'[w].job].status # "queued"
    BY DEF FailingStarted
<1>0. /\ exec \in [Workers -> Exec]
      /\ exec[w].pc # "idle" => exec[w].job \in Jobs /\ jobs[exec[w].job].status # "none"
    BY DEF TypeInv, TypeOK, ExecTypeOK, ExecRefers
<1>1. /\ exec[w].pc # "idle" /\ exec'[w].job = exec[w].job
      /\ exec'[w] = exec[w] \/ ExecutionStep(w)
    <2>1. ASSUME NEW v \in Workers, ExecutionStep(v)
          PROVE  exec[w].pc # "idle" /\ exec'[w].job = exec[w].job /\ (v = w \/ exec'[w] = exec[w])
        BY <2>1, ExecutionFrame
    <2>2. ASSUME NEW j \in Jobs, NEW v \in Workers, RunAuthorized(v, j)
          PROVE  exec'[w] = exec[w]
        BY <1>0, <2>2 DEF RunAuthorized, Deliver
    <2>3. exec'[w] = exec[w] \/ \E v \in Workers : ExecutionStep(v)
        BY <2>2 DEF DeliveryNext, TaskStep, Deploy, Retire, Intake, SignAndEnqueue, RunUnauthorized,
            Watchdog, Timeout, Elapse, Tick, allVars, vars, execVars
    <2> QED
        BY <2>1, <2>3
<1>2. jobs[exec[w].job].status \notin {"none", "queued"} => jobs'[exec[w].job].status # "queued"
    BY <1>0, <1>1, QueuedBefore
<1>3. CASE exec'[w] = exec[w]
    BY <1>0, <1>1, <1>2, <1>3 DEF FailingStarted
<1>4. CASE ExecutionStep(w)
    <2>1. CASE StartAuthorized(w)
        <3>1. StartRefused(exec[w].job)
            <4>1. ~CallStart(w)
                BY <1>0 DEF CallStart, Exec
            <4> QED
                BY <2>1, <4>1 DEF StartAuthorized
        <3> QED
            BY <1>0, <1>1, <1>2, <3>1 DEF StartRefused, IsTerminal
    <2>2. CASE StartUnauthorized(w)
        BY <1>1, <2>2, DeliveryInvHonours DEF StartUnauthorized, CallbackUnauthorized, TokensHonoured
    <2>3. CASE Work(w)
        BY <1>0, <1>1, <1>2, <2>3 DEF Work, RunAndUpload, RunFails, ExecInv, BuildsJob
    <2>4. CASE CompleteAuthorized(w) \/ CompleteUnauthorized(w) \/ CutOff(w) \/ Killed(w)
        BY <1>0, <2>4 DEF CompleteAuthorized, CallComplete, CompleteUnauthorized, CutOff, Killed,
            WorkerDies, Free, IdleSlot
    <2> QED
        BY <1>4, <2>1, <2>2, <2>3, <2>4 DEF ExecutionStep
<1> QED
    BY <1>1, <1>3, <1>4

\* A job that a push puts into the queue is about to be enqueued.
LEMMA CareIntake ==
    ASSUME TypeInv, DeliveryInv, CareInv, NEW h \in Handlers, PushStep(h), "api" \notin Faults,
           UNCHANGED <<execVars, taskVars, runVars>>, NEW j \in Jobs, jobs'[j].status = "queued"
    PROVE  Cared(j)'
<1>1. UNCHANGED <<attempts, token, waited, exec, ran, kills>>
    BY DEF PushStep, PushBegin, PushCheck, PushUpdate, PushCreate, PushDuplicate, PushAbort,
        execVars, taskVars, runVars
<1>2. /\ push \in [Handlers -> Push] /\ jobs \in [Jobs -> JobRow]
    BY DEF TypeInv, TypeOK, StoreTypeOK, IntakeTypeOK, PushTypeOK
<1>3. \A g \in Handlers \ {h} : push'[g] = push[g]
    BY <1>2 DEF PushStep, PushBegin, PushCheck, PushUpdate, PushCreate, PushDuplicate, PushAbort, Return
<1>4. push[h].pc # "enqueue"
    BY DEF PushStep, PushBegin, PushCheck, PushUpdate, PushCreate, PushDuplicate, PushAbort
<1>5. CASE jobs[j].status = "queued"
    <2>1. BeingEnqueued(j) => BeingEnqueued(j)'
        BY <1>3, <1>4 DEF BeingEnqueued
    <2>2. kills' \in Nat /\ kills <= kills'
        BY <1>1, CareTyped
    <2> QED
        BY <1>1, <1>5, <2>1, <2>2, CareKept DEF CareInv
<1>6. CASE jobs[j].status # "queued"
    <2>1. CASE PushCreate(h)
        <3>1. PICK k \in Jobs :
                  /\ jobs' = CreateJob(k, PushBranch(h), PushCommit(h), DeliveryId(h), push[h].begun)
                  /\ push' = [push EXCEPT ![h].pc = "enqueue", ![h].job = k]
            BY <2>1 DEF PushCreate, InStatus
        <3>2. j = k
            BY <1>2, <1>6, <3>1 DEF CreateJob
        <3> QED
            BY <1>2, <3>1, <3>2 DEF Push, Cared, BeingEnqueued
    <2>2. CASE PushUpdate(h)
        BY <1>2, <1>6, <2>2 DEF PushUpdate, UpdateJobCommitSHA, JobRow
    <2> QED
        BY <1>6, <2>1, <2>2 DEF PushStep, PushBegin, PushCheck, PushDuplicate, PushAbort
<1> QED
    BY <1>5, <1>6

\* A new task has all attempts left and a fresh token.
LEMMA CareEnqueue ==
    ASSUME TypeInv, DeliveryInv, FirstInv, CareInv, NEW h \in Handlers, SignAndEnqueue(h),
           "enqueue" \notin Faults, NEW j \in Jobs, jobs'[j].status = "queued"
    PROVE  Cared(j)'
<1> DEFINE k == push[h].job
<1>1. /\ UNCHANGED <<jobs, exec, ran, kills>>
      /\ push[h].pc = "enqueue" /\ k \in Jobs
      /\ push \in [Handlers -> Push]
    BY DEF SignAndEnqueue, PushEnqueue, execVars, runVars, TypeInv, TypeOK, IntakeTypeOK, PushTypeOK
<1>2. PICK s \in Serving("api") : token' = [token EXCEPT ![k] = Sign(s)]
    BY DEF SignAndEnqueue
<1>3. /\ attempts' = [attempts EXCEPT ![k] = MaxAttempts]
      /\ waited' = [waited EXCEPT ![k] = 0]
      /\ push' = [push EXCEPT ![h] = Waiting]
    BY DeliveryAssumption DEF SignAndEnqueue, PushEnqueue, Enqueue, Return
<1>4. /\ attempts \in [Jobs -> 0 .. MaxAttempts]
      /\ waited \in [Jobs -> 0 .. Backlog + Backoff]
      /\ token \in [Jobs -> Token \cup {NoToken}]
    BY DEF TypeInv, TypeOK, DispatchTypeOK, DeliveryInv, Waits, Tokens
<1> HIDE DEF k
<1>5. CASE j = k
    <2>1. ~BeingExecuted(j)'
        BY <1>1, <1>5 DEF k, FirstInv, Untouched, BeingEnqueued, BeingExecuted
    <2>2. attempts'[j] = MaxAttempts /\ waited'[j] = 0 /\ token'[j].age = 0
        BY <1>2, <1>3, <1>4, <1>5 DEF Sign
    <2>3. Spent(j)' = 0 /\ kills' \in Nat
        BY <1>1, <2>2, CareTyped DEF Spent
    <2>4. Allowance(Spent(j))' = 0
        BY <2>3 DEF Allowance
    <2> QED
        BY <2>1, <2>2, <2>3, <2>4 DEF Cared, Delivered
<1>6. CASE j # k
    <2>1. BeingEnqueued(j) => BeingEnqueued(j)'
        BY <1>1, <1>3, <1>6 DEF k, BeingEnqueued
    <2>2. attempts'[j] = attempts[j] /\ waited'[j] = waited[j] /\ token'[j] = token[j]
        BY <1>2, <1>3, <1>4, <1>6
    <2>3. kills' \in Nat /\ kills <= kills'
        BY <1>1, CareTyped
    <2> QED
        BY <1>1, <2>1, <2>2, <2>3, CareKept DEF CareInv
<1> QED
    BY <1>5, <1>6

\* No attempt is refused: the token of a queued job's task has not expired.
LEMMA CareRefusal ==
    ASSUME TypeInv, DeliveryInv, FirstInv, CareInv, Favourable, NEW i \in Jobs, RunUnauthorized(i),
           NEW j \in Jobs, jobs'[j].status = "queued"
    PROVE  Cared(j)'
<1>1. /\ UNCHANGED <<jobs, exec, push, token, ran, kills>>
      /\ attempts[i] > 0 /\ ~BeingExecuted(i)
      /\ \A k \in Jobs \ {i} : attempts'[k] = attempts[k] /\ waited'[k] = waited[k]
    BY DEF RunUnauthorized, Attempt, execVars, intakeVars, runVars, TypeInv, TypeOK, DispatchTypeOK,
        DeliveryInv, Waits
<1>2. CASE j = i
    <2>1. ~BeingEnqueued(j)
        BY <1>1, <1>2, CareTyped DEF FirstInv, EnqueuedOnce, BeingEnqueued
    <2>2. Delivered(j)
        BY <1>1, <1>2, <2>1 DEF CareInv, Cared, Starting, BeingExecuted
    <2>3. token[j].age <= TTL
        BY <2>2, DeliveredInTime
    <2>4. ~Expired(token[j])
        BY <2>3, CareTyped, TokenAssumption DEF Expired
    <2> QED
        BY <1>1, <1>2, <2>4, DeliveryInvHonours DEF RunUnauthorized, TokensHonoured, Favourable
<1>3. CASE j # i
    <2>1. BeingEnqueued(j) => BeingEnqueued(j)'
        BY <1>1 DEF BeingEnqueued
    <2>2. kills' \in Nat /\ kills <= kills'
        BY <1>1, CareTyped
    <2> QED
        BY <1>1, <1>3, <2>1, <2>2, CareKept DEF CareInv
<1> QED
    BY <1>2, <1>3

\* An attempt that is made is about to start the job.
LEMMA CareRun ==
    ASSUME TypeInv, DeliveryInv, FirstInv, CareInv, Favourable, NEW w \in Workers, NEW i \in Jobs,
           RunAuthorized(w, i), NEW j \in Jobs, jobs'[j].status = "queued"
    PROVE  Cared(j)'
<1>1. /\ UNCHANGED <<jobs, push, token, waited, kills>>
      /\ exec[w].pc = "idle"
      /\ attempts[i] > 0 /\ attempts'[i] = attempts[i] - 1 /\ ~BeingExecuted(i)
      /\ \A k \in Jobs \ {i} : attempts'[k] = attempts[k]
    BY DEF RunAuthorized, Deliver, Attempt, intakeVars, taskVars, TypeInv, TypeOK, DispatchTypeOK
<1>2. /\ exec'[w].pc = "starting" /\ exec'[w].job = i /\ ran'[w] = 0
      /\ \A v \in Workers \ {w} : exec'[v] = exec[v] /\ ran'[v] = ran[v]
    BY DEF RunAuthorized, Deliver, TypeInv, TypeOK, ExecTypeOK, DeliveryInv, Requests
<1>3. CASE j = i
    <2>1. ~BeingEnqueued(j)
        BY <1>1, <1>3, CareTyped DEF FirstInv, EnqueuedOnce, BeingEnqueued
    <2>2. Delivered(j)
        BY <1>1, <1>3, <2>1 DEF CareInv, Cared, Starting, BeingExecuted
    <2>3. token[j].age <= Allowance(Spent(j) + 1) /\ Spent(j) <= kills
        BY <2>2, DeliveredInTime DEF Delivered
    <2>4. Spent(j)' = Spent(j) + 1 /\ Spent(j) \in Nat
        BY <1>1, <1>3, CareTyped DEF Spent
    <2>5. token'[j].age <= Allowance(Spent(j))' /\ Spent(j)' - 1 <= kills'
        BY <1>1, <2>3, <2>4 DEF Allowance
    <2> QED
        BY <1>2, <1>3, <2>5 DEF Cared, Starting
<1>4. CASE j # i
    <2>1. BeingEnqueued(j) => BeingEnqueued(j)'
        BY <1>1 DEF BeingEnqueued
    <2>2. kills' \in Nat /\ kills <= kills'
        BY <1>1, CareTyped
    <2> QED
        BY <1>1, <1>2, <1>4, <2>1, <2>2, CareKept DEF CareInv
<1> QED
    BY <1>3, <1>4

\* An execution that is killed before the start callback leaves the next attempt, for
\* which the time it waits has just begun to count.
LEMMA CareExecution ==
    ASSUME TypeInv, ExecInv, DeliveryInv, FirstInv, CareInv, Favourable, RequestTimeout > 0,
           NEW w \in Workers, ExecutionStep(w), NEW j \in Jobs,
           jobs[j].status = "queued", jobs'[j].status = "queued"
    PROVE  Cared(j)'
<1>0. PICK i \in Jobs : i = exec[w].job
    BY ExecutionFrame DEF TypeInv, TypeOK, ExecTypeOK
<1>1. /\ exec[w].pc # "idle"
      /\ UNCHANGED <<push, token>>
      /\ \A v \in Workers \ {w} : exec'[v] = exec[v] /\ ran'[v] = ran[v]
      /\ exec'[w].pc # "idle" => exec'[w].job = i
      /\ \A k \in Jobs \ {i} : attempts'[k] = attempts[k] /\ waited'[k] = waited[k]
      /\ kills' \in {kills, kills + 1}
    BY <1>0, ExecutionFrame, ExecutionTouches
    DEF ExecInv, RequestEnds, runVars, taskVars, DeliveryInv, Requests, Waits
<1>2. CASE j = i
    <2>1. BeingExecuted(j) /\ ~BeingEnqueued(j)
        BY <1>0, <1>1, <1>2 DEF BeingExecuted, FirstInv, Untouched
    <2>2. Starting(w, j)
        BY <1>0, <1>1, <1>2, <2>1 DEF CareInv, Cared, Delivered, Starting, FirstInv, OneExecutionPerJob
    <2>3. exec[w].pc = "starting" /\ ran[w] = 0
        BY <2>2 DEF Starting
    <2>4. ~StartAuthorized(w)
        BY <1>0, <1>2, <2>3 DEF StartAuthorized, CallStart, Start, UpdateJobStatus, StartRefused,
            IsTerminal, TypeInv, TypeOK, StoreTypeOK, JobRow
    <2>5. ~StartUnauthorized(w)
        BY <1>1, DeliveryInvHonours DEF StartUnauthorized, CallbackUnauthorized, TokensHonoured, Favourable
    <2>6. ~Work(w) /\ ~CompleteAuthorized(w) /\ ~CompleteUnauthorized(w) /\ ~CutOff(w)
        BY <2>3, DeliveryAssumption
        DEF Work, RunAndUpload, RunFails, CompleteAuthorized, Report, CompleteUnauthorized, CutOff
    <2>7. Killed(w)
        BY <2>4, <2>5, <2>6 DEF ExecutionStep
    <2>8. /\ exec'[w].pc = "idle" /\ attempts' = attempts
          /\ waited'[j] = 0 /\ kills' = kills + 1
        BY <1>0, <1>2, <2>7
        DEF Killed, WorkerDies, Free, IdleSlot, RequestEnds, TypeInv, TypeOK, ExecTypeOK, DeliveryInv, Waits
    <2>9. ~BeingExecuted(j)'
        BY <1>0, <1>1, <1>2, <2>8 DEF BeingExecuted, FirstInv, OneExecutionPerJob
    <2>10. Spent(j)' = Spent(j) /\ Spent(j)' <= kills'
        BY <2>2, <2>8, CareTyped DEF Spent, Starting
    <2>11. token'[j].age <= waited'[j] + Allowance(Spent(j))'
        <3>1. token[j].age <= Allowance(Spent(j)) /\ Allowance(Spent(j)) \in Nat
            BY <2>2, CareTyped DEF Starting
        <3>2. Allowance(Spent(j))' = Allowance(Spent(j))
            BY <2>10 DEF Allowance
        <3> QED
            BY <1>1, <2>8, <3>1, <3>2
    <2> QED
        BY <2>9, <2>10, <2>11 DEF Cared, Delivered
<1>3. CASE j # i
    <2>1. BeingEnqueued(j) => BeingEnqueued(j)'
        BY <1>1 DEF BeingEnqueued
    <2>2. kills' \in Nat /\ kills <= kills'
        BY <1>1, CareTyped
    <2> QED
        BY <1>0, <1>1, <1>3, <2>1, <2>2, CareKept DEF CareInv
<1> QED
    BY <1>2, <1>3

\* In a tick the token of a waiting task ages as much as its wait.
LEMMA CareElapse ==
    ASSUME TypeInv, DeliveryInv, CareInv, Favourable, Elapse, NEW j \in Jobs,
           jobs[j].status = "queued"
    PROVE  Cared(j)'
<1>1. ~BeingEnqueued(j) /\ \A w \in Workers : ~Starting(w, j)
    BY DEF Elapse, BeingEnqueued, InTime, Starting
<1>2. Delivered(j)
    BY <1>1 DEF CareInv, Cared
<1>3. attempts[j] > 0 /\ token[j].age <= TTL /\ ~BeingExecuted(j)
    BY <1>2, DeliveredInTime DEF Delivered
<1>4. token[j] \in Token /\ waited[j] \in Nat /\ token[j].age \in Nat
    BY <1>3, CareTyped DEF DeliveryInv, Tokens
<1>5. /\ UNCHANGED <<attempts, exec, kills>>
      /\ token'[j] = Older(token[j]) /\ waited'[j] = waited[j] + 1
    BY <1>3 DEF Elapse, Tick, execVars
<1>6. token'[j].age = token[j].age + 1
    BY <1>3, <1>4, <1>5 DEF Older, Token
<1>7. Spent(j)' = Spent(j) /\ ~BeingExecuted(j)'
    BY <1>3, <1>5 DEF Spent, BeingExecuted
<1>8. Allowance(Spent(j))' = Allowance(Spent(j)) /\ Allowance(Spent(j)) \in Nat
    BY <1>7, CareTyped DEF Allowance
<1> QED
    BY <1>2, <1>4, <1>5, <1>6, <1>7, <1>8 DEF Cared, Delivered

\* Every step preserves the invariant.
LEMMA CareInvNext ==
    ASSUME RequestTimeout > 0, Faults \cap {"api", "enqueue"} = {},
           TypeInv, ExecInv, DeliveryInv, FirstInv, Favourable => CareInv, [DeliveryNext]_allVars
    PROVE  (Favourable => CareInv)'
<1> SUFFICES ASSUME Favourable' PROVE CareInv'
    OBVIOUS
<1>1. Favourable /\ CareInv
    BY QueuedBefore
<1>2. FailingStarted'
    BY <1>1, FailingKept DEF Favourable, CareInv
<1> SUFFICES ASSUME NEW j \in Jobs, jobs'[j].status = "queued" PROVE Cared(j)'
    BY <1>2 DEF CareInv
<1>3. ~Intake => jobs[j].status = "queued"
    BY QueuedBefore
<1>4. CASE Deploy \/ Retire \/ Watchdog \/ UNCHANGED allVars
    <2>1. UNCHANGED <<push, attempts, token, waited, exec, ran, kills>>
        BY <1>4 DEF Deploy, Retire, Watchdog, Timeout, allVars, vars, intakeVars, taskVars, runVars
    <2>2. jobs[j].status = "queued" \/ Intake
        BY <1>3
    <2>3. jobs[j].status = "queued"
        BY <1>4, <2>2 DEF Deploy, Retire, Watchdog, Timeout, TimeoutRunningJobs, Overdue, InStatus, allVars, vars, TypeInv, TypeOK, StoreTypeOK, JobRow
    <2>4. kills' \in Nat /\ kills <= kills' /\ (BeingEnqueued(j) => BeingEnqueued(j)')
        BY <2>1, CareTyped DEF BeingEnqueued
    <2> QED
        BY <1>1, <2>1, <2>3, <2>4, CareKept DEF CareInv
<1>5. CASE Intake
    BY <1>1, <1>5, CareIntake DEF Intake
<1>6. ASSUME NEW h \in Handlers, SignAndEnqueue(h) PROVE Cared(j)'
    BY <1>1, <1>6, CareEnqueue
<1>7. ASSUME NEW i \in Jobs, RunUnauthorized(i) PROVE Cared(j)'
    BY <1>1, <1>7, CareRefusal
<1>8. ASSUME NEW i \in Jobs, NEW w \in Workers, RunAuthorized(w, i) PROVE Cared(j)'
    BY <1>1, <1>8, CareRun
<1>9. ASSUME ~Intake, NEW w \in Workers, ExecutionStep(w) PROVE Cared(j)'
    BY <1>1, <1>3, <1>9, CareExecution
<1>10. ASSUME ~Intake, Elapse PROVE Cared(j)'
    BY <1>1, <1>3, <1>10, CareElapse
<1> QED
    BY <1>4, <1>5, <1>6, <1>7, <1>8, <1>9, <1>10 DEF DeliveryNext, TaskStep

\* When nothing is lost between commit and enqueue, a rotation is sound and the queue
\* retries in time, every queued job has an attempt to come that will be accepted.
THEOREM NobodyStranded ==
    ASSUME RequestTimeout > 0, Faults \cap {"api", "enqueue"} = {}
    PROVE  DeliverySpec => []NoJobStranded
<1>1. DeliverySpec => [](TypeInv /\ ExecInv)
    BY JobSystemImplemented, TypeCorrect, ExecCorrect, PTL DEF ImplementsJobSystem
<1>2. DeliveryInit => CareInv
    BY DEF DeliveryInit, Init, StoreInit, NoRow, ExecInit, IdleSlot, CareInv, FailingStarted
<1>3. /\ TypeInv /\ ExecInv /\ DeliveryInv /\ FirstInv /\ (Favourable => CareInv)
      /\ [DeliveryNext]_allVars
      => (Favourable => CareInv)'
    BY CareInvNext
<1>4. TypeInv /\ DeliveryInv /\ (Favourable => CareInv) => NoJobStranded
    <2> SUFFICES ASSUME TypeInv, DeliveryInv, Favourable, CareInv, NEW j \in Jobs, jobs[j].status = "queued"
                 PROVE  \/ BeingEnqueued(j)
                        \/ attempts[j] > 0 /\ token[j].age <= TTL
                        \/ \E w \in Workers : exec[w].pc = "starting" /\ exec[w].job = j
        BY DEF NoJobStranded, Favourable, InStatus, BeingEnqueued
    <2> QED
        BY DeliveredInTime DEF CareInv, Cared, Starting
<1> QED
    BY <1>1, <1>2, <1>3, <1>4, DeliveryCorrect, FirstAttempts, PTL DEF DeliverySpec

\* What is proved of JobSystem holds as it is deployed: no rotation of the key, refused
\* token, cut-off request, kill or retry breaks the queue of a branch, the order of its
\* jobs, the outcome of a job or the agreement of jobs and snapshots.
THEOREM DeployedConsistent ==
    DeliverySpec =>
        /\ [](AtMostOneQueued /\ QueuedCarriesLatest /\ LocksMatchRequests)
        /\ [](ExecutionBuildsItsCommit /\ SnapshotsMatchJobs)
        /\ TerminalIsFinal /\ CommitFixedAfterQueue /\ JobsStartInOrder
        /\ ImplementsLifecycle /\ ImplementsBranchQueue
BY JobSystemImplemented, QueueUnique, QueueCurrent, LocksSound, ExecutionConsistent, SnapshotsCorrect,
    TerminalStable, CommitFixed, StartsInOrder, LifecycleImplemented, BranchQueueImplemented, PTL
DEF ImplementsJobSystem
=============================================================================
