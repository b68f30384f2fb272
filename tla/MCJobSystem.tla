---------------------------- MODULE MCJobSystem -----------------------------
(***************************************************************************)
(* Instances of JobSystem for TLC.  Three pushes, two of them to the same  *)
(* branch, or all three; commits are distinct unless a run says otherwise. *)
(***************************************************************************)
EXTENDS JobSystemClaims, TLC

CONSTANTS j1, j2, j3, main, dev, c1, c2, c3, d1, d2, d3, h1, h2, h3, w1, w2

\* Every delivery pushes to main.
MainOnly == [d \in Deliveries |-> main]

\* d3 pushes to dev, the others to main.
TwoBranches == [d \in Deliveries |-> IF d = d3 THEN dev ELSE main]

\* Each delivery pushes a commit of its own.
OwnCommit == [d \in Deliveries |-> CASE d = d1 -> c1 [] d = d2 -> c2 [] OTHER -> c3]

\* d3 pushes the commit of d1 again, as a forced push back to it does.
SameCommit == [d \in Deliveries |-> IF d = d2 THEN c2 ELSE c1]

\* The branch is pushed to the same commit twice.
OneCommit == [d \in Deliveries |-> c1]

\* Each branch has a lock of its own, or the hashes of all branches collide.
OwnLock == [b \in Branches |-> b]
OneLock == [b \in Branches |-> main]

Symmetry == Permutations(Jobs) \cup Permutations(Handlers) \cup Permutations(Workers)
=============================================================================
