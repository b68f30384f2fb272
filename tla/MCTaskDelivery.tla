--------------------------- MODULE MCTaskDelivery ---------------------------
(***************************************************************************)
(* An instance of TaskDelivery for TLC: ticks of five minutes, so that     *)
(* tokens live 6, requests 3 and the watchdog waits for more than 4; a     *)
(* rotation from k1 to k2 done in four ways.                                *)
(***************************************************************************)
EXTENDS TaskDelivery, TLC

CONSTANTS main, c1, k1, k2

MainOnly == [d \in Deliveries |-> main]
OneCommit == [d \in Deliveries |-> c1]
OwnLock == [b \in Branches |-> b]

Old == [key |-> k1, prev |-> NoKey]
Announced == [key |-> k1, prev |-> k2]
Rotated == [key |-> k2, prev |-> k1]
New == [key |-> k2, prev |-> NoKey]

Both(s) == [api |-> s, worker |-> s]

\* The new key is announced to both services as the "previous" one before either
\* signs with it, and the old one is dropped last.
AnnounceFirst == <<Both(Old), [api |-> Announced, worker |-> Old],
                   [api |-> Announced, worker |-> Rotated], Both(Rotated), Both(New)>>

\* Both services get the new key and the old one as the previous, in one rollout.
AtOnce == <<Both(Old), Both(Rotated)>>

\* ... or one after the other.
ApiFirst == <<Both(Old), [api |-> Rotated, worker |-> Old], Both(Rotated)>>
WorkerFirst == <<Both(Old), [api |-> Old, worker |-> Rotated], Both(Rotated)>>

MCPlans == {AnnounceFirst, AtOnce, ApiFirst, WorkerFirst}
=============================================================================
