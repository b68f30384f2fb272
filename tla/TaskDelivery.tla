---------------------------- MODULE TaskDelivery ----------------------------
(***************************************************************************)
(* JobSystem as it is deployed with Cloud Tasks: tasks and callbacks carry *)
(* signed tokens, the API and the worker run as revisions that are         *)
(* replaced one after the other when the signing key is rotated, requests, *)
(* retries and the watchdog have their timeouts, and a worker that is told *)
(* to stop gives running requests half a minute.                           *)
(*                                                                         *)
(* A tick is the five minutes of the watchdog's schedule.  A webhook       *)
(* request and a callback take seconds, so no tick passes while one is in  *)
(* progress; cloning, zigzag and the upload may last as long as Cloud Run  *)
(* lets the /run request live.                                             *)
(***************************************************************************)
EXTENDS JobSystem, JobTokens

CONSTANTS
    Plans,           \* sequences of the signers the two services are deployed with
    Settle,          \* ticks between the end of a rollout and the next one
    RequestTimeout,  \* timeout of the worker's Cloud Run service, in ticks
    Backlog,         \* bound on the ticks a new task waits for its first attempt
    Backoff,         \* max_backoff of the queue, in ticks
    MaxKills         \* bound on the executions that are killed in a behaviour

Services == {"api", "worker"}

ASSUME DeliveryAssumption ==
    /\ \A plan \in Plans : plan \in Seq([Services -> Signer]) /\ Len(plan) > 0
    /\ {Settle, RequestTimeout, Backlog, Backoff, MaxKills} \subseteq Nat
    /\ ~PollMode
    /\ {"network", "worker"} \subseteq Faults

VARIABLES
    plan,     \* the deployments of this behaviour
    stage,    \* the deployment that is complete
    rolling,  \* the next one is being rolled out: both serve
    since,    \* ticks since the last rollout was complete
    token,    \* job -> the token in its task
    waited,   \* job -> ticks since its task was enqueued or last attempted
    signer,   \* slot -> the signer of the revision that executes
    ran,      \* slot -> ticks since the /run request arrived
    kills     \* executions killed so far

rolloutVars == <<plan, stage, rolling, since>>
taskVars == <<token, waited>>
runVars == <<signer, ran, kills>>
allVars == <<vars, rolloutVars, taskVars, runVars>>

NoToken == [key |-> NoKey, age |-> 0]
NoSigner == [key |-> NoKey, prev |-> NoKey]

DeliveryTypeOK ==
    /\ TypeOK
    /\ plan \in Plans
    /\ stage \in 1 .. Len(plan)
    /\ rolling \in BOOLEAN
    /\ rolling => stage < Len(plan)
    /\ since \in 0 .. Settle
    /\ token \in [Jobs -> Token \cup {NoToken}]
    /\ \A j \in Jobs : attempts[j] > 0 => token[j] \in Token
    /\ waited \in [Jobs -> 0 .. Backlog + Backoff]
    /\ signer \in [Workers -> Signer \cup {NoSigner}]
    /\ \A w \in Workers : exec[w].pc # "idle" => signer[w] \in Signer
    /\ ran \in [Workers -> 0 .. RequestTimeout]
    /\ kills \in 0 .. MaxKills

DeliveryInit ==
    /\ Init
    /\ plan \in Plans
    /\ stage = 1
    /\ rolling = FALSE
    /\ since = Settle
    /\ token = [j \in Jobs |-> NoToken]
    /\ waited = [j \in Jobs |-> 0]
    /\ signer = [w \in Workers |-> NoSigner]
    /\ ran = [w \in Workers |-> 0]
    /\ kills = 0

-----------------------------------------------------------------------------
(* Deployments.                                                            *)

\* The signers of the revisions of a service that take requests.
Serving(service) == {plan[n][service] : n \in IF rolling THEN {stage, stage + 1} ELSE {stage}}

\* New instances of both services start; old ones still take requests.
Deploy ==
    /\ ~rolling
    /\ stage < Len(plan)
    /\ since = Settle
    /\ rolling' = TRUE
    /\ UNCHANGED <<vars, plan, stage, since, taskVars, runVars>>

\* Old instances take no more requests; those that execute a job go on.
Retire ==
    /\ rolling
    /\ rolling' = FALSE
    /\ stage' = stage + 1
    /\ since' = 0
    /\ UNCHANGED <<vars, plan, taskVars, runVars>>

-----------------------------------------------------------------------------
(* Tasks.                                                                  *)

Intake ==
    /\ \E h \in Handlers : PushStep(h)
    /\ UNCHANGED <<execVars, rolloutVars, taskVars, runVars>>

\* The task carries a token signed by the instance that handles the webhook.
SignAndEnqueue(h) ==
    /\ PushEnqueue(h)
    /\ \E s \in Serving("api") : token' = [token EXCEPT ![push[h].job] = Sign(s)]
    /\ waited' = [waited EXCEPT ![push[h].job] = 0]
    /\ UNCHANGED <<execVars, rolloutVars, runVars>>

BeingExecuted(j) == \E w \in Workers : exec[w].pc # "idle" /\ exec[w].job = j

\* POST /run, answered when the execution is over.
RunAuthorized(w, j) ==
    /\ ~BeingExecuted(j)
    /\ \E s \in Serving("worker") :
           Authorized(s, token[j]) /\ signer' = [signer EXCEPT ![w] = s]
    /\ Deliver(w, j)
    /\ ran' = [ran EXCEPT ![w] = 0]
    /\ UNCHANGED <<intakeVars, rolloutVars, taskVars, kills>>

\* 401: Cloud Tasks will try again, with the same token.
RunUnauthorized(j) ==
    /\ ~BeingExecuted(j)
    /\ \E s \in Serving("worker") : ~Authorized(s, token[j])
    /\ Attempt(j)
    /\ waited' = [waited EXCEPT ![j] = 0]
    /\ UNCHANGED <<jobs, snapshots, execVars, intakeVars, rolloutVars, token, runVars>>

-----------------------------------------------------------------------------
(* Executions.  The worker signs each callback anew with its own key, and  *)
(* the API's middleware validates it with the signer of the instance that  *)
(* gets the request.                                                       *)

CallbackAuthorized(w) == \E s \in Serving("api") : Authorized(s, Sign(signer[w]))
CallbackUnauthorized(w) == \E s \in Serving("api") : ~Authorized(s, Sign(signer[w]))

StartAuthorized(w) ==
    /\ CallbackAuthorized(w)
    /\ CallStart(w) \/ (StartRefused(exec[w].job) /\ CallStartFails(w))
    /\ UNCHANGED <<intakeVars, rolloutVars, taskVars, runVars>>

\* 401: the executor goes on to report a failure.
StartUnauthorized(w) ==
    /\ exec[w].pc = "starting"
    /\ CallbackUnauthorized(w)
    /\ Goto(w, "failing")
    /\ UNCHANGED <<jobs, snapshots, attempts, objects, intakeVars, rolloutVars, taskVars, runVars>>

Work(w) ==
    /\ RunAndUpload(w) \/ RunFails(w)
    /\ UNCHANGED <<intakeVars, rolloutVars, taskVars, runVars>>

\* The request ends: its slot is free, and if its task is not deleted the next
\* attempt will be made after a while.
RequestEnds(w) ==
    /\ signer' = [signer EXCEPT ![w] = NoSigner]
    /\ ran' = [ran EXCEPT ![w] = 0]
    /\ waited' = [waited EXCEPT ![exec[w].job] = 0]
    /\ UNCHANGED <<intakeVars, rolloutVars, token>>

CompleteAuthorized(w) ==
    /\ CallbackAuthorized(w)
    /\ Report(w)
    /\ CallComplete(w)
    /\ RequestEnds(w)
    /\ UNCHANGED kills

Bug_CompleteUnauthorizedRequeues(w) ==
    /\ exec[w].pc \in {"succeeding", "failing"}
    /\ CallbackUnauthorized(w)
    /\ jobs' = UpdateJobStatus(exec[w].job, "queued")
    /\ Answer(exec[w].job)
    /\ Free(w)
    /\ RequestEnds(w)
    /\ UNCHANGED <<snapshots, objects, kills>>

\* 401: it is logged, and /run answers 200 all the same.
CompleteUnauthorized(w) ==
    /\ exec[w].pc \in {"succeeding", "failing"}
    /\ CallbackUnauthorized(w)
    /\ Answer(exec[w].job)
    /\ Free(w)
    /\ RequestEnds(w)
    /\ UNCHANGED <<jobs, snapshots, objects, kills>>

\* Cloud Run cuts the request off (504).  Its context is cancelled, and with it
\* zigzag, the upload and the call that would report the failure.
CutOff(w) ==
    /\ ran[w] = RequestTimeout
    /\ WorkerDies(w)
    /\ RequestEnds(w)
    /\ UNCHANGED kills

\* The instance is told to stop and the half minute of srv.Shutdown is over, or it
\* runs out of memory.
Killed(w) ==
    /\ kills < MaxKills
    /\ WorkerDies(w)
    /\ RequestEnds(w)
    /\ kills' = kills + 1

-----------------------------------------------------------------------------
Watchdog ==
    /\ Timeout
    /\ UNCHANGED <<intakeVars, rolloutVars, taskVars, runVars>>

\* A task whose next attempt is due.
Due(j) ==
    /\ attempts[j] > 0
    /\ ~BeingExecuted(j)
    /\ waited[j] = IF attempts[j] = MaxAttempts THEN Backlog ELSE Backoff

Bug_InTimeUnlimited(w) == exec[w].pc \in {"idle", "running"}

\* An execution that can go on for another tick.
InTime(w) == exec[w].pc = "idle" \/ (exec[w].pc = "running" /\ ran[w] < RequestTimeout)

\* A tick passes.
Elapse ==
    /\ \A h \in Handlers : push[h].pc = "idle"
    /\ \A j \in Jobs : ~Due(j)
    /\ \A w \in Workers : InTime(w)
    /\ \/ Tick
       \/ /\ \A j \in InStatus({"running"}) : jobs[j].age > TimeoutAge
          /\ UNCHANGED <<jobs, snapshots, attempts, execVars>>
    /\ since' = IF since < Settle THEN since + 1 ELSE since
    /\ token' = [j \in Jobs |-> IF attempts[j] > 0 THEN Older(token[j]) ELSE NoToken]
    /\ waited' = [j \in Jobs |-> IF attempts[j] > 0 /\ ~BeingExecuted(j)
                                 THEN waited[j] + 1 ELSE waited[j]]
    /\ ran' = [w \in Workers |-> IF exec[w].pc = "running" THEN ran[w] + 1 ELSE ran[w]]
    /\ UNCHANGED <<intakeVars, plan, stage, rolling, signer, kills>>

ExecutionStep(w) ==
    \/ StartAuthorized(w)
    \/ StartUnauthorized(w)
    \/ Work(w)
    \/ CompleteAuthorized(w)
    \/ CompleteUnauthorized(w)
    \/ CutOff(w)
    \/ Killed(w)

TaskStep(j) == RunUnauthorized(j) \/ \E w \in Workers : RunAuthorized(w, j)

DeliveryNext ==
    \/ Deploy
    \/ Retire
    \/ Intake
    \/ \E h \in Handlers : SignAndEnqueue(h)
    \/ \E j \in Jobs : TaskStep(j)
    \/ \E w \in Workers : ExecutionStep(w)
    \/ Watchdog
    \/ Elapse

DeliverySpec == DeliveryInit /\ [][DeliveryNext]_allVars

\* Cloud Tasks makes the attempts that are due, executions go on, Cloud Scheduler
\* calls the watchdog, time passes.  Deployments and kills need not happen.
DeliveryFairness ==
    /\ \A h \in Handlers : WF_allVars(SignAndEnqueue(h))
    /\ \A j \in Jobs : WF_allVars(TaskStep(j))
    /\ \A w \in Workers : WF_allVars(ExecutionStep(w))
    /\ WF_allVars(Watchdog)
    /\ WF_allVars(Elapse)

FairDeliverySpec == DeliverySpec /\ DeliveryFairness

-----------------------------------------------------------------------------
\* A rotation of the key that never lets a service sign with a key that an instance
\* of the other one may not accept yet, or no longer accepts: at each rollout, old
\* and new signers get along, and what an old one signed has expired by the next.
Sound ==
    /\ Settle > TTL
    /\ RequestTimeout <= TTL
    /\ \A n, m \in DOMAIN plan : n <= m + 1 /\ m <= n + 1 =>
           /\ Accepts(plan[n].worker, plan[m].api)
           /\ Accepts(plan[n].api, plan[m].worker)

\* "a grace period for in-flight jobs during rotation" (jobtoken.go): in a sound
\* rotation no worker instance refuses a task that has not expired, whenever it was
\* signed, and no API instance refuses a callback, whenever its execution began.
TokensHonoured ==
    Sound =>
        /\ \A j \in Jobs : attempts[j] > 0 /\ ~Expired(token[j]) =>
               \A s \in Serving("worker") : Authorized(s, token[j])
        /\ \A w \in Workers : exec[w].pc # "idle" =>
               \A s \in Serving("api") : Authorized(s, Sign(signer[w]))

\* The last attempt of a job that is still queued comes before its token expires.
Timely == Backlog + (MaxAttempts - 1) * Backoff <= TTL

\* However many of its attempts are killed before the start callback, short of all,
\* a queued job has a task with an attempt left that will be accepted.
NoJobStranded ==
    Sound /\ Timely /\ MaxKills < MaxAttempts =>
        \A j \in InStatus({"queued"}) :
            \/ \E h \in Handlers : push[h].pc = "enqueue" /\ push[h].job = j
            \/ attempts[j] > 0 /\ token[j].age <= TTL
            \/ \E w \in Workers : exec[w].pc = "starting" /\ exec[w].job = j

\* "the container is killed by Cloud Run before the watchdog fires"
\* (03-job-system.md): no job is failed while its first attempt executes it.  (A later
\* one may be overtaken: the age of the job counts from the first start callback.)
WatchdogSparesFirstAttempt ==
    [][\A j \in Jobs : BeingExecuted(j) /\ attempts[j] = MaxAttempts - 1
                           => ~(Watchdog /\ jobs'[j] # jobs[j])]_allVars

\* With tokens, deployments and timeouts the system is still a JobSystem, in which a
\* refused request is one that was lost and a request that is cut off is a worker
\* that died: what holds of JobSystem under these faults holds here.
ImplementsJobSystem == Spec

\* Under the same conditions every job that is queued ends.
JobsEnd ==
    \A j \in Jobs :
        Sound /\ Timely /\ MaxKills < MaxAttempts /\ jobs[j].status = "queued"
            ~> IsTerminal(jobs[j].status)
=============================================================================
