----------------------------- MODULE RateLimit ------------------------------
(***************************************************************************)
(* The rate limit of one key: a sliding window kept as a sorted set in     *)
(* Redis.  A check sends four commands in a pipeline, which Redis does not *)
(* run as one: those of other checks may come in between.  Time is counted *)
(* in microseconds, the resolution of scores and members.  A member is its *)
(* own score, so the sorted set is a set of times.                         *)
(***************************************************************************)
EXTENDS Integers, FiniteSets

CONSTANTS
    Requests,
    MaxRequests,
    Window,
    Grace,      \* what EXPIRE adds to the window
    Latency,    \* bound of the time a check takes
    MaxTime     \* bound of the clock

ASSUME RateAssumption ==
    /\ {MaxRequests, Window, Grace, Latency, MaxTime} \subseteq Nat
    /\ MaxTime > 0
    /\ IsFiniteSet(Requests)

VARIABLES
    clock,
    zset,      \* the sorted set under the key
    expiry,    \* when Redis removes the key
    req,       \* request -> its check
    before,    \* request -> the requests whose checks had ended when it arrived
    broken     \* a pipeline has broken off between ZADD and EXPIRE

vars == <<clock, zset, expiry, req, before, broken>>
history == <<before, broken>>

Pipeline == {"trim", "count", "add", "expire", "decide"}
Outcomes == {"allowed", "rejected", "unchecked"}

Never == MaxTime + 1

Init ==
    /\ clock = 1
    /\ zset = {}
    /\ expiry = Never
    /\ req = [r \in Requests |-> [pc |-> "none", at |-> 0, count |-> 0]]
    /\ before = [r \in Requests |-> {}]
    /\ broken = FALSE

At(r, pc) == req[r].pc = pc
Goto(r, pc) == req' = [req EXCEPT ![r].pc = pc]

-----------------------------------------------------------------------------
\* checkRateLimit is called; its only look at the clock.
Arrive(r) ==
    /\ At(r, "none")
    /\ req' = [req EXCEPT ![r] = [pc |-> "trim", at |-> clock, count |-> 0]]
    /\ before' = [before EXCEPT ![r] = {q \in Requests : req[q].pc \in {"allowed", "rejected"}}]
    /\ UNCHANGED <<clock, zset, expiry, broken>>

Bug_TrimNothing(r) ==
    /\ At(r, "trim")
    /\ Goto(r, "count")
    /\ UNCHANGED <<clock, zset, expiry, history>>

\* ZREMRANGEBYSCORE key -inf windowStart.  A sorted set without members is no key, and
\* has no expiry.
Trim(r) ==
    /\ At(r, "trim")
    /\ zset' = {t \in zset : t > req[r].at - Window}
    /\ expiry' = IF zset' = {} THEN Never ELSE expiry
    /\ Goto(r, "count")
    /\ UNCHANGED <<clock, history>>

\* ZCARD key
Count(r) ==
    /\ At(r, "count")
    /\ req' = [req EXCEPT ![r].pc = "add", ![r].count = Cardinality(zset)]
    /\ UNCHANGED <<clock, zset, expiry, history>>

Bug_AddServerTime(r) ==
    /\ At(r, "add")
    /\ zset' = zset \cup {clock}
    /\ Goto(r, "expire")
    /\ UNCHANGED <<clock, expiry, history>>

\* ZADD key now now, whether or not the request will be allowed
Add(r) ==
    /\ At(r, "add")
    /\ zset' = zset \cup {req[r].at}
    /\ Goto(r, "expire")
    /\ UNCHANGED <<clock, expiry, history>>

\* EXPIRE key window+1s, which does nothing without a key
Expire(r) ==
    /\ At(r, "expire")
    /\ expiry' = IF zset = {} THEN expiry ELSE clock + Window + Grace
    /\ Goto(r, "decide")
    /\ UNCHANGED <<clock, zset, history>>

Bug_DecideOffByOne(r) ==
    /\ At(r, "decide")
    /\ clock > req[r].at
    /\ Goto(r, IF req[r].count > MaxRequests THEN "rejected" ELSE "allowed")
    /\ UNCHANGED <<clock, zset, expiry, history>>

\* The replies are back; the round trip took time.
Decide(r) ==
    /\ At(r, "decide")
    /\ clock > req[r].at
    /\ Goto(r, IF req[r].count >= MaxRequests THEN "rejected" ELSE "allowed")
    /\ UNCHANGED <<clock, zset, expiry, history>>

\* Exec returns an error: Redis was not reached, the pipeline broke off, or the replies
\* were lost.  The request is served unchecked.
PipelineFails(r) ==
    /\ req[r].pc \in Pipeline
    /\ clock > req[r].at
    /\ Goto(r, "unchecked")
    /\ broken' = (broken \/ At(r, "expire"))
    /\ UNCHANGED <<clock, zset, expiry, before>>

\* Time passes, and the key expires when its time has come.
Tick ==
    /\ clock < MaxTime
    /\ \A r \in Requests : req[r].pc \in Pipeline => clock < req[r].at + Latency
    /\ clock' = clock + 1
    /\ IF clock' >= expiry
       THEN zset' = {} /\ expiry' = Never
       ELSE UNCHANGED <<zset, expiry>>
    /\ UNCHANGED <<req, history>>

Check(r) ==
    \/ Arrive(r) \/ Trim(r) \/ Count(r) \/ Add(r) \/ Expire(r) \/ Decide(r)
    \/ PipelineFails(r)

Next == Tick \/ \E r \in Requests : Check(r)

Spec == Init /\ [][Next]_vars

-----------------------------------------------------------------------------
\* Every variable has its type; the sorted set holds times of requests only.
RateTypeOK ==
    /\ clock \in 1 .. MaxTime
    /\ zset \subseteq {req[r].at : r \in Requests}
    /\ expiry \in clock + 1 .. Never + Window + Grace
    /\ req \in [Requests -> [pc : {"none"} \cup Pipeline \cup Outcomes,
                             at : 0 .. MaxTime, count : 0 .. Cardinality(Requests)]]
    /\ before \in [Requests -> SUBSET Requests]
    /\ broken \in BOOLEAN

\* A request is allowed only if fewer than MaxRequests of the requests whose checks had
\* ended when it arrived lie in the window that ends with its own check
\* (RateLimitConfig: "max requests per window"; requests of one microsecond count once).
\* Checks that overlap do not see each other; one of them may trim what the other should
\* still count, hence the window that ends later; and a pipeline that breaks off before
\* EXPIRE leaves a key that may be removed too early.
AllowedBelowLimit ==
    ~broken =>
        \A r \in Requests : req[r].pc = "allowed" =>
            LET recent == {q \in before[r] : req[q].at > req[r].at + Latency - Window}
            IN  Cardinality({req[q].at : q \in recent}) < MaxRequests

\* A request is rejected only if MaxRequests others have arrived since the beginning of
\* its window: old requests never count, whatever pipelines interleave or break off.
\* It needs checks that are faster than the window is long.
RejectedOnlyWhenBusy ==
    \A r \in Requests : req[r].pc = "rejected" =>
        Cardinality({q \in Requests \ {r} : req[q].pc # "none"
                                            /\ req[q].at > req[r].at - Window}) >= MaxRequests
=============================================================================
