------------------------------ MODULE Dispatch ------------------------------
(***************************************************************************)
(* How a queued job reaches a worker.  With Cloud Tasks configured, the    *)
(* API enqueues one task per job (engine/orchestrator.go) and the queue    *)
(* delivers it to the worker's /run endpoint at least once, at most        *)
(* max_attempts times, until an attempt is answered with 200.  Without it, *)
(* the API's enqueuer does nothing (engine/noop.go) and the workers poll   *)
(* the jobs table.                                                         *)
(***************************************************************************)
EXTENDS JobStore

CONSTANTS
    MaxAttempts,  \* max_attempts of the queue
    PollMode,     \* TRUE: no Cloud Tasks, workers poll
    Faults        \* the kinds of fault that occur: "api", a webhook request fails or its
                  \* instance dies; "enqueue", the queue refuses a task; "network", a call
                  \* or a query of the worker, or its answer, is lost; "worker", it dies

ASSUME DispatchAssumption ==
    /\ MaxAttempts \in Nat \ {0}
    /\ PollMode \in BOOLEAN
    /\ Faults \subseteq {"api", "enqueue", "network", "worker"}

VARIABLE attempts  \* deliveries a job's task has left; 0: it has no task

DispatchTypeOK == attempts \in [Jobs -> 0 .. MaxAttempts]

DispatchInit == attempts = [j \in Jobs |-> 0]

\* TaskEnqueuer.Enqueue, both implementations.
Enqueue(j) ==
    attempts' = IF PollMode THEN attempts ELSE [attempts EXCEPT ![j] = MaxAttempts]

Bug_AttemptUnlimited(j) ==
    /\ ~PollMode
    /\ attempts' = [attempts EXCEPT ![j] = @ - 1]

\* An attempt begins, and overlaps with an earlier one when that exceeded the
\* dispatch deadline or its answer was lost.
Attempt(j) ==
    /\ ~PollMode
    /\ attempts[j] > 0
    /\ attempts' = [attempts EXCEPT ![j] = @ - 1]

\* An attempt ends.  200 deletes the task; if the worker dies before it answers,
\* the attempts that are left will be made.
Answer(j) ==
    \/ attempts' = [attempts EXCEPT ![j] = 0]
    \/ "worker" \in Faults /\ UNCHANGED attempts
=============================================================================
