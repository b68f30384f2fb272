------------------------------ MODULE SlotPool ------------------------------
(***************************************************************************)
(* What a polling worker promises, whatever it counts and whenever it      *)
(* looks: a job is accepted at most once and only while a slot is free; it *)
(* leaves its slot on its own; once the worker has closed it accepts       *)
(* nothing more, and it tells truly whether it left jobs behind.           *)
(***************************************************************************)
EXTENDS Integers

CONSTANTS Job, Limit  \* the possible numbers of slots

VARIABLES
    free,    \* the number of free slots
    fresh,   \* the jobs that were never taken from the queue
    active,  \* the jobs that occupy a slot
    phase    \* "open", "closed", or how the worker ended: "clean", "dirty"

vars == <<free, fresh, active, phase>>

Init == free \in Limit /\ fresh = Job /\ active = {} /\ phase = "open"

Accept(j) ==
    /\ phase = "open"
    /\ j \in fresh
    /\ free > 0
    /\ free' = free - 1
    /\ fresh' = fresh \ {j}
    /\ active' = active \cup {j}
    /\ UNCHANGED phase

\* A job is taken from the queue and turns out to be unusable.
Reject(j) ==
    /\ phase = "open"
    /\ j \in fresh
    /\ fresh' = fresh \ {j}
    /\ UNCHANGED <<free, active, phase>>

Leave(j) ==
    /\ phase \in {"open", "closed"}
    /\ j \in active
    /\ free' = free + 1
    /\ active' = active \ {j}
    /\ UNCHANGED <<fresh, phase>>

Close ==
    /\ phase = "open"
    /\ phase' = "closed"
    /\ UNCHANGED <<free, fresh, active>>

End ==
    /\ phase = "closed"
    /\ phase' = IF active = {} THEN "clean" ELSE "dirty"
    /\ UNCHANGED <<free, fresh, active>>

Next == Close \/ End \/ \E j \in Job : Accept(j) \/ Reject(j) \/ Leave(j)

Spec == Init /\ [][Next]_vars
=============================================================================
