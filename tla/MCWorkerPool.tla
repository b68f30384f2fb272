---------------------------- MODULE MCWorkerPool ----------------------------
(***************************************************************************)
(* Instances of WorkerPool for TLC: each job is of a commit of its own.    *)
(***************************************************************************)
EXTENDS WorkerPool

CONSTANTS j1, j2, j3, c1, c2, c3, c4

OwnCommit == [j \in Jobs |-> CASE j = j1 -> c1 [] j = j2 -> c2 [] OTHER -> c3]
FixedTips == [j \in Jobs |-> {OwnCommit[j]}]

\* The branch of j1 is pushed to, and back, while its job runs.
MovingTip == [FixedTips EXCEPT ![j1] = {c1, c4}]
=============================================================================
