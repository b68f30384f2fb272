---------------------------- MODULE JobLifecycle ----------------------------
(***************************************************************************)
(* What the job system promises of its jobs, whatever the number of        *)
(* webhook requests, workers and faults: each job goes through its states  *)
(* once; its commit can be replaced only while it is queued; it succeeds   *)
(* in the very step that publishes the snapshot of its commit, and no      *)
(* commit of a branch is published twice.                                  *)
(***************************************************************************)
CONSTANTS Job, Branch, Commit, None

VARIABLES
    state,     \* job -> where it is in its life
    target,    \* job -> the branch and commit it is to build, or None
    published  \* the targets that have a snapshot, each with the job that built it

vars == <<state, target, published>>

Init ==
    /\ state = [j \in Job |-> "none"]
    /\ target = [j \in Job |-> [branch |-> None, commit |-> None]]
    /\ published = {}

\* A push creates a job.
Create(j) ==
    /\ state[j] = "none"
    /\ state' = [state EXCEPT ![j] = "queued"]
    /\ \E b \in Branch, c \in Commit : target' = [target EXCEPT ![j] = [branch |-> b, commit |-> c]]
    /\ UNCHANGED published

\* A later push takes a queued job over.
Retarget(j) ==
    /\ state[j] = "queued"
    /\ \E c \in Commit : target' = [target EXCEPT ![j].commit = c]
    /\ UNCHANGED <<state, published>>

Begin(j) ==
    /\ state[j] = "queued"
    /\ state' = [state EXCEPT ![j] = "running"]
    /\ UNCHANGED <<target, published>>

Succeed(j) ==
    /\ state[j] = "running"
    /\ \A p \in published : p.target # target[j]
    /\ state' = [state EXCEPT ![j] = "succeeded"]
    /\ published' = published \cup {[job |-> j, target |-> target[j]]}
    /\ UNCHANGED target

\* One job, or by the watchdog several, fail.
Fail(S) ==
    /\ \A j \in S : state[j] \in {"queued", "running"}
    /\ state' = [j \in Job |-> IF j \in S THEN "failed" ELSE state[j]]
    /\ UNCHANGED <<target, published>>

Next ==
    \/ \E j \in Job : Create(j) \/ Retarget(j) \/ Begin(j) \/ Succeed(j)
    \/ \E S \in SUBSET Job : Fail(S)

Spec == Init /\ [][Next]_vars
=============================================================================
