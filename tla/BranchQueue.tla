----------------------------- MODULE BranchQueue ----------------------------
(***************************************************************************)
(* What HandlePush promises of a branch: it is a queue of one place.  A    *)
(* push that finds the place empty fills it with a new job, a push that    *)
(* finds it full makes the job build its commit instead, so that what is   *)
(* taken out builds the push before.  The one push that may get lost is    *)
(* one that overlaps with the taking of the job it meant to update: a job  *)
(* with the commit of the push before it has then been taken.              *)
(***************************************************************************)
CONSTANTS Branch, Commit, Job, None

VARIABLES
    slot,  \* branch -> the job that waits, or None
    last,  \* branch -> the commit pushed last, or None
    taken  \* the jobs taken out of the queue, each with its branch and commit

vars == <<slot, last, taken>>

Init ==
    /\ slot = [b \in Branch |-> None]
    /\ last = [b \in Branch |-> None]
    /\ taken = {}

\* A push creates a job.
Open(b, c, j) ==
    /\ slot[b] = None
    /\ \A q \in Branch : slot[q] # j
    /\ \A t \in taken : t.job # j
    /\ slot' = [slot EXCEPT ![b] = j]
    /\ last' = [last EXCEPT ![b] = c]
    /\ UNCHANGED taken

\* A push replaces the one that waits.
Replace(b, c) ==
    /\ slot[b] # None
    /\ last' = [last EXCEPT ![b] = c]
    /\ UNCHANGED <<slot, taken>>

\* A push comes too late for the job it found, which was taken with the push before.
Miss(b, c) ==
    /\ slot[b] = None
    /\ \E t \in taken : t.branch = b /\ t.commit = last[b]
    /\ last' = [last EXCEPT ![b] = c]
    /\ UNCHANGED <<slot, taken>>

\* The job that waits starts, or fails without having started.
Take(b) ==
    /\ slot[b] # None
    /\ slot' = [slot EXCEPT ![b] = None]
    /\ taken' = taken \cup {[job |-> slot[b], branch |-> b, commit |-> last[b]]}
    /\ UNCHANGED last

Next ==
    \E b \in Branch :
        \/ \E c \in Commit : Replace(b, c) \/ Miss(b, c) \/ \E j \in Job : Open(b, c, j)
        \/ Take(b)

Spec == Init /\ [][Next]_vars
=============================================================================
