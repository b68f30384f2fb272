-------------------------- MODULE RateLimit_proofs ---------------------------
(***************************************************************************)
(* The rate limit, for any number of requests: whatever the pipelines of   *)
(* concurrent checks do in between, old requests never count, as long as   *)
(* checks are faster than the window is long.                              *)
(***************************************************************************)
EXTENDS RateLimit, FiniteSetTheorems, TLAPS

\* A time in the sorted set is that of a request whose check has added it.
Added == {"expire", "decide"} \cup Outcomes

Row == [pc : {"none"} \cup Pipeline \cup Outcomes, at : 0 .. MaxTime, count : 0 .. Cardinality(Requests)]

CheckTyped ==
    /\ clock \in 1 .. MaxTime
    /\ expiry \in clock + 1 .. Never + Window + Grace
    /\ req \in [Requests -> Row]
    /\ before \in [Requests -> SUBSET Requests]
    /\ broken \in BOOLEAN

\* Checks are under way for no longer than Latency.
Fast == \A r \in Requests : req[r].pc \in Pipeline => req[r].at <= clock /\ clock <= req[r].at + Latency

Provenance == \A t \in zset : \E q \in Requests : req[q].pc \in Added /\ req[q].at = t

\* Between a trim and the count that follows it only recent times are added.
Trimmed == \A r \in Requests : At(r, "count") => \A t \in zset : t > req[r].at - Window

\* The other requests that have arrived since the beginning of the window of r.
Busy(r) == {q \in Requests \ {r} : req[q].pc # "none" /\ req[q].at > req[r].at - Window}

CountRight ==
    \A r \in Requests :
        /\ req[r].pc \in {"add", "expire", "decide", "rejected"} => req[r].count <= Cardinality(Busy(r))
        /\ At(r, "rejected") => req[r].count >= MaxRequests

RateInv == CheckTyped /\ Fast /\ Provenance /\ Trimmed /\ CountRight

\* The constants are numbers.
LEMMA Numbers ==
    /\ MaxRequests \in Nat /\ Window \in Nat /\ Grace \in Nat /\ Latency \in Nat /\ MaxTime \in Nat
    /\ MaxTime > 0 /\ Cardinality(Requests) \in Nat
BY RateAssumption, FS_CardinalityType

\* So are the sizes of sets of requests.
LEMMA BusyFinite == ASSUME NEW r \in Requests PROVE IsFiniteSet(Busy(r)) /\ Cardinality(Busy(r)) \in Nat
<1>1. Busy(r) \subseteq Requests
  BY DEF Busy
<1> QED
  BY <1>1, RateAssumption, FS_Subset, FS_CardinalityType

\* A request once arrived stays so, at its time: what is busy remains busy.
LEMMA BusyGrows ==
    ASSUME NEW r \in Requests, req'[r].at = req[r].at,
           \A q \in Requests : req[q].pc # "none" => req'[q].pc # "none" /\ req'[q].at = req[q].at
    PROVE  Cardinality(Busy(r)) <= Cardinality(Busy(r)')
<1>1. Busy(r) \subseteq Busy(r)' /\ Busy(r)' \subseteq Requests
  BY DEF Busy
<1>2. IsFiniteSet(Busy(r)')
  BY <1>1, RateAssumption, FS_Subset
<1> QED
  BY <1>1, <1>2, FS_Subset

\* What ZCARD counts after the trim are times of other requests, all of them recent.
LEMMA Counted ==
    ASSUME RateInv, NEW r \in Requests, At(r, "count")
    PROVE  /\ Cardinality(zset) \in 0 .. Cardinality(Requests)
           /\ Cardinality(zset) <= Cardinality(Busy(r))
<1> DEFINE times == {req[q].at : q \in Busy(r)}
           f == [q \in Busy(r) |-> req[q].at]
<1>1. f \in Surjection(Busy(r), times)
  BY DEF Surjection
<1>2. IsFiniteSet(times) /\ Cardinality(times) <= Cardinality(Busy(r))
  <2> HIDE DEF times, f
  <2> QED
    BY <1>1, BusyFinite, FS_Surjection
<1>3. zset \subseteq times
  <2> SUFFICES ASSUME NEW t \in zset PROVE t \in times
    OBVIOUS
  <2>1. PICK q \in Requests : req[q].pc \in Added /\ req[q].at = t
    BY DEF RateInv, Provenance
  <2>2. q # r /\ req[q].pc # "none"
    BY <2>1 DEF At, Added, Outcomes
  <2>3. t > req[r].at - Window
    BY DEF RateInv, Trimmed
  <2> QED
    BY <2>1, <2>2, <2>3 DEF Busy
<1> HIDE DEF times
<1>4. Cardinality(zset) <= Cardinality(times) /\ IsFiniteSet(zset)
  BY <1>2, <1>3, FS_Subset
<1>5. Cardinality(Busy(r)) <= Cardinality(Requests)
  BY RateAssumption, FS_Subset DEF Busy
<1> QED
  BY <1>2, <1>4, <1>5, BusyFinite, Numbers, FS_CardinalityType

-----------------------------------------------------------------------------
(* The steps preserve the invariant.                                       *)

\* The initial state satisfies the invariant.
LEMMA RateInvInit == Init => RateInv
<1> SUFFICES ASSUME Init PROVE RateInv
  OBVIOUS
<1>1. /\ 1 \in 1 .. MaxTime /\ 0 \in 0 .. MaxTime /\ 0 \in 0 .. Cardinality(Requests)
      /\ Never \in 2 .. Never + Window + Grace
  BY Numbers DEF Never
<1>2. CheckTyped
  <2>1. clock \in 1 .. MaxTime /\ expiry \in clock + 1 .. Never + Window + Grace
    BY <1>1, Numbers DEF Init, Never
  <2>2. req \in [Requests -> Row]
    BY <1>1 DEF Init, Row
  <2> QED
    BY <2>1, <2>2 DEF Init, CheckTyped
<1>3. \A r \in Requests : req[r].pc = "none"
  BY DEF Init
<1>4. zset = {}
  BY DEF Init
<1> QED
  BY <1>2, <1>3, <1>4 DEF RateInv, Fast, Provenance, Trimmed, CountRight, At, Pipeline

\* A step of one check that keeps its time: what has to be shown of the others is that
\* the set has no times but those it had and those of checks that have added theirs.
LEMMA CheckMoves ==
    ASSUME RateInv, NEW r \in Requests, req[r].pc \in Pipeline,
           NEW c \in Row, req' = [req EXCEPT ![r] = c], c.at = req[r].at,
           c.pc # "none", req[r].pc \in Added => c.pc \in Added,
           expiry' \in clock + 1 .. Never + Window + Grace, broken' \in BOOLEAN,
           UNCHANGED <<clock, before>>,
           \A t \in zset' : t \in zset \/ (t = req[r].at /\ c.pc \in Added),
           \A q \in Requests \ {r} : At(q, "count") => \A t \in zset' : t > req[q].at - Window,
           c.pc = "count" => \A t \in zset' : t > req[r].at - Window,
           c.pc \in {"add", "expire", "decide", "rejected"} => c.count <= Cardinality(Busy(r)),
           c.pc = "rejected" => c.count >= MaxRequests
    PROVE  RateInv'
<1>1. req'[r] = c /\ \A q \in Requests \ {r} : req'[q] = req[q]
  BY DEF RateInv, CheckTyped
<1>2. req[r].pc # "none"
  BY DEF Pipeline
<1>3. \A q \in Requests : Cardinality(Busy(q)) <= Cardinality(Busy(q)')
  BY <1>1, <1>2, BusyGrows
<1>4. \A q \in Requests : Cardinality(Busy(q)') \in Nat
  <2> TAKE q \in Requests
  <2>1. Busy(q)' \subseteq Requests
    BY DEF Busy
  <2> QED
    BY <2>1, RateAssumption, FS_Subset, FS_CardinalityType
<1>5. CheckTyped'
  BY DEF RateInv, CheckTyped
<1>6. Fast'
  BY <1>1 DEF RateInv, Fast
<1>7. Provenance'
  BY <1>1 DEF RateInv, Provenance
<1>8. Trimmed'
  BY <1>1 DEF Trimmed, At
<1>9. CountRight'
  <2>1. \A q \in Requests : req'[q].count \in Nat /\ Cardinality(Busy(q)) \in Nat
    BY <1>5, BusyFinite, Numbers DEF CheckTyped, Row
  <2> QED
    BY <1>1, <1>3, <1>4, <2>1 DEF RateInv, CountRight, At
<1> QED
  BY <1>5, <1>6, <1>7, <1>8, <1>9 DEF RateInv

\* A check that begins has its time from the clock.
LEMMA ArriveKeeps == ASSUME RateInv, NEW r \in Requests, Arrive(r) PROVE RateInv'
<1>1. /\ At(r, "none")
      /\ req' = [req EXCEPT ![r] = [pc |-> "trim", at |-> clock, count |-> 0]]
      /\ UNCHANGED <<clock, zset, expiry, broken>>
      /\ clock \in 1 .. MaxTime
  BY DEF Arrive, RateInv, CheckTyped
<1>2. /\ req'[r].pc = "trim" /\ req'[r].at = clock
      /\ \A q \in Requests \ {r} : req'[q] = req[q]
  BY <1>1 DEF RateInv, CheckTyped
<1>3. CheckTyped'
  <2>1. clock \in 0 .. MaxTime /\ 0 \in 0 .. Cardinality(Requests) /\ "trim" \in Pipeline
    BY <1>1, Numbers DEF Pipeline
  <2>2. req' \in [Requests -> Row]
    BY <1>1, <2>1 DEF RateInv, CheckTyped, Row
  <2>3. before' \in [Requests -> SUBSET Requests]
    BY DEF Arrive, RateInv, CheckTyped
  <2> QED
    BY <1>1, <2>2, <2>3 DEF RateInv, CheckTyped
<1>4. Fast'
  BY <1>1, <1>2, Numbers DEF RateInv, Fast
<1>5. Provenance'
  BY <1>1, <1>2 DEF RateInv, Provenance, At, Added, Outcomes
<1>6. Trimmed'
  BY <1>1, <1>2 DEF RateInv, Trimmed, At
<1>7. CountRight'
  <2>1. ASSUME NEW q \in Requests \ {r}
        PROVE  /\ Cardinality(Busy(q)) <= Cardinality(Busy(q)')
               /\ Cardinality(Busy(q)) \in Nat /\ Cardinality(Busy(q)') \in Nat
    <3>1. Busy(q) \subseteq Busy(q)' /\ Busy(q)' \subseteq Requests
      BY <1>1, <1>2 DEF Busy, At
    <3> QED
      BY <3>1, BusyFinite, RateAssumption, FS_Subset, FS_CardinalityType
  <2>2. \A q \in Requests : req[q].count \in Nat
    BY Numbers DEF RateInv, CheckTyped, Row
  <2> QED
    BY <1>2, <2>1, <2>2 DEF RateInv, CountRight, At
<1> QED
  BY <1>3, <1>4, <1>5, <1>6, <1>7 DEF RateInv

\* The commands of the pipeline, its replies, and its failure.
LEMMA PipelineKeeps ==
    ASSUME Latency < Window, RateInv, NEW r \in Requests,
           Trim(r) \/ Count(r) \/ Add(r) \/ Expire(r) \/ Decide(r) \/ PipelineFails(r)
    PROVE  RateInv'
<1>0. /\ req \in [Requests -> Row] /\ req[r] \in Row
      /\ clock \in 1 .. MaxTime /\ Window + Grace \in Nat \ {0}
  BY Numbers DEF RateInv, CheckTyped
<1>1. UNCHANGED <<clock, before>> /\ req[r].pc \in Pipeline /\ broken' \in BOOLEAN
  BY DEF Trim, Count, Add, Expire, Decide, PipelineFails, At, Pipeline, history, RateInv, CheckTyped
<1>2. /\ expiry \in clock + 1 .. Never + Window + Grace
      /\ Never \in clock + 1 .. Never + Window + Grace
      /\ clock + Window + Grace \in clock + 1 .. Never + Window + Grace
  BY <1>0, Numbers DEF RateInv, CheckTyped, Never
<1>3. \A q \in Requests : At(q, "count") => \A t \in zset : t > req[q].at - Window
  BY DEF RateInv, Trimmed
<1>4. req[r].pc \in {"add", "expire", "decide"} => req[r].count <= Cardinality(Busy(r))
  BY DEF RateInv, CountRight
\* Where a check goes.
<1>5. ASSUME NEW pc \in (Pipeline \cup Outcomes), Goto(r, pc)
      PROVE  \E c \in Row : c.pc = pc /\ c.at = req[r].at /\ c.count = req[r].count
                            /\ req' = [req EXCEPT ![r] = c]
  <2> DEFINE c == [req[r] EXCEPT !.pc = pc]
  <2>1. c \in Row /\ c.pc = pc /\ c.at = req[r].at /\ c.count = req[r].count
    BY <1>0 DEF Row
  <2>2. req' = [req EXCEPT ![r] = c]
    BY <1>5 DEF Goto
  <2> QED
    BY <2>1, <2>2
<1>6. CASE Trim(r)
  <2>1. /\ At(r, "trim")
        /\ zset' = {t \in zset : t > req[r].at - Window}
        /\ expiry' \in clock + 1 .. Never + Window + Grace
    BY <1>6, <1>2 DEF Trim
  <2>2. PICK c \in Row : c.pc = "count" /\ c.at = req[r].at /\ req' = [req EXCEPT ![r] = c]
    BY <1>6, <1>5 DEF Trim, Pipeline
  <2>3. req[r].pc \notin Added
    BY <2>1 DEF At, Added, Outcomes
  <2> QED
    BY <1>1, <1>3, <2>1, <2>2, <2>3, CheckMoves
<1>7. CASE Count(r)
  <2> DEFINE c == [req[r] EXCEPT !.pc = "add", !.count = Cardinality(zset)]
  <2>1. /\ At(r, "count")
        /\ UNCHANGED <<zset, expiry>>
        /\ req' = [req EXCEPT ![r] = c]
    BY <1>0, <1>7 DEF Count
  <2>2. Cardinality(zset) \in 0 .. Cardinality(Requests) /\ Cardinality(zset) <= Cardinality(Busy(r))
    BY <2>1, Counted
  <2>3. c \in Row /\ c.pc = "add" /\ c.at = req[r].at /\ c.count = Cardinality(zset)
    BY <1>0, <2>2 DEF Row, Pipeline
  <2>4. req[r].pc \notin Added
    BY <2>1 DEF At, Added, Outcomes
  <2> HIDE DEF c
  <2> QED
    BY <1>1, <1>2, <1>3, <2>1, <2>2, <2>3, <2>4, CheckMoves
<1>8. CASE Add(r)
  <2>1. At(r, "add") /\ zset' = zset \cup {req[r].at} /\ UNCHANGED expiry
    BY <1>8 DEF Add
  <2>2. PICK c \in Row : /\ c.pc = "expire" /\ c.at = req[r].at /\ c.count = req[r].count
                         /\ req' = [req EXCEPT ![r] = c]
    BY <1>8, <1>5 DEF Add, Pipeline
  <2>3. \A q \in Requests : At(q, "count") => req[r].at > req[q].at - Window
    <3> SUFFICES ASSUME NEW q \in Requests, At(q, "count") PROVE req[r].at > req[q].at - Window
      OBVIOUS
    <3>1. req[q].at <= clock /\ clock <= req[r].at + Latency
      BY <1>1 DEF RateInv, Fast, At, Pipeline
    <3>2. req[q].at \in Nat /\ req[r].at \in Nat
      BY <1>0, Numbers DEF Row
    <3> QED
      BY <1>0, <3>1, <3>2, Numbers
  <2>4. req[r].count <= Cardinality(Busy(r)) /\ c.pc \in Added
    BY <1>4, <2>1, <2>2 DEF At, Added
  <2> QED
    BY <1>1, <1>2, <1>3, <2>1, <2>2, <2>3, <2>4, CheckMoves
<1>9. CASE Expire(r)
  <2>1. At(r, "expire") /\ UNCHANGED zset /\ expiry' \in clock + 1 .. Never + Window + Grace
    BY <1>9, <1>2 DEF Expire
  <2>2. PICK c \in Row : /\ c.pc = "decide" /\ c.at = req[r].at /\ c.count = req[r].count
                         /\ req' = [req EXCEPT ![r] = c]
    BY <1>9, <1>5 DEF Expire, Pipeline
  <2>3. req[r].count <= Cardinality(Busy(r)) /\ c.pc \in Added
    BY <1>4, <2>1, <2>2 DEF At, Added
  <2> QED
    BY <1>1, <1>3, <2>1, <2>2, <2>3, CheckMoves
<1>10. CASE Decide(r)
  <2> DEFINE outcome == IF req[r].count >= MaxRequests THEN "rejected" ELSE "allowed"
  <2>1. At(r, "decide") /\ UNCHANGED <<zset, expiry>> /\ Goto(r, outcome)
    BY <1>10 DEF Decide
  <2>2. outcome \in {"rejected", "allowed"} /\ (outcome = "rejected" => req[r].count >= MaxRequests)
    OBVIOUS
  <2> HIDE DEF outcome
  <2>3. PICK c \in Row : /\ c.pc = outcome /\ c.at = req[r].at /\ c.count = req[r].count
                         /\ req' = [req EXCEPT ![r] = c]
    BY <1>5, <2>1, <2>2 DEF Outcomes
  <2>4. req[r].count <= Cardinality(Busy(r)) /\ c.pc \in Added
    BY <1>4, <2>1, <2>2, <2>3 DEF At, Added, Outcomes
  <2> QED
    BY <1>1, <1>2, <1>3, <2>1, <2>2, <2>3, <2>4, CheckMoves
<1>11. CASE PipelineFails(r)
  <2>1. UNCHANGED <<zset, expiry>>
    BY <1>11 DEF PipelineFails
  <2>2. PICK c \in Row : /\ c.pc = "unchecked" /\ c.at = req[r].at
                         /\ req' = [req EXCEPT ![r] = c]
    BY <1>11, <1>5 DEF PipelineFails, Outcomes
  <2>3. c.pc \in Added
    BY <2>2 DEF Added, Outcomes
  <2> QED
    BY <1>1, <1>2, <1>3, <2>1, <2>2, <2>3, CheckMoves
<1> QED
  BY <1>6, <1>7, <1>8, <1>9, <1>10, <1>11

\* The clock waits for the checks under way; an expired key takes all times with it.
LEMMA TickKeeps == ASSUME RateInv, Tick PROVE RateInv'
<1>1. /\ clock' = clock + 1 /\ clock \in 1 .. MaxTime /\ clock < MaxTime
      /\ UNCHANGED <<req, before, broken>>
      /\ zset' \subseteq zset
      /\ \A r \in Requests : req[r].pc \in Pipeline => clock < req[r].at + Latency
  BY DEF Tick, history, RateInv, CheckTyped
<1>2. \A r \in Requests : req[r].at \in Nat /\ (Busy(r)' = Busy(r))
  BY <1>1, Numbers DEF Busy, RateInv, CheckTyped, Row
<1>3. expiry' \in clock' + 1 .. Never + Window + Grace
  <2>1. CASE clock' >= expiry
    BY <1>1, <2>1, Numbers DEF Tick, Never
  <2>2. CASE ~(clock' >= expiry)
    BY <1>1, <2>2, Numbers DEF Tick, Never, RateInv, CheckTyped
  <2> QED
    BY <2>1, <2>2
<1>4. CheckTyped'
  BY <1>1, <1>3, Numbers DEF RateInv, CheckTyped
<1>5. Fast'
  BY <1>1, <1>2, Numbers DEF RateInv, Fast
<1>6. Provenance' /\ Trimmed' /\ CountRight'
  BY <1>1, <1>2 DEF RateInv, Provenance, Trimmed, CountRight, At
<1> QED
  BY <1>4, <1>5, <1>6 DEF RateInv

\* The invariant holds in every state, if a check is faster than the window is long.
THEOREM RateCorrect == ASSUME Latency < Window PROVE Spec => []RateInv
<1>1. RateInv /\ [Next]_vars => RateInv'
  <2> SUFFICES ASSUME RateInv, [Next]_vars PROVE RateInv'
    OBVIOUS
  <2>1. CASE UNCHANGED vars
    BY <2>1 DEF vars, RateInv, CheckTyped, Fast, Provenance, Trimmed, CountRight, Busy, At
  <2> QED
    BY <2>1, ArriveKeeps, PipelineKeeps, TickKeeps DEF Next, Check
<1> QED
  BY <1>1, RateInvInit, PTL DEF Spec

\* The variables keep their types; the sorted set holds times of requests only.
THEOREM RateTypes == ASSUME Latency < Window PROVE Spec => []RateTypeOK
<1>1. RateInv => RateTypeOK
  BY DEF RateInv, CheckTyped, Row, Provenance, RateTypeOK
<1> QED
  BY <1>1, RateCorrect, PTL

\* A request is rejected only if MaxRequests others have arrived since the beginning of
\* its window.
THEOREM RejectionsJustified == ASSUME Latency < Window PROVE Spec => []RejectedOnlyWhenBusy
<1>1. RateInv => RejectedOnlyWhenBusy
  <2> SUFFICES ASSUME RateInv, NEW r \in Requests, req[r].pc = "rejected"
               PROVE  Cardinality(Busy(r)) >= MaxRequests
    BY DEF RejectedOnlyWhenBusy, Busy
  <2>1. req[r].count <= Cardinality(Busy(r)) /\ req[r].count >= MaxRequests /\ req[r].count \in Nat
    BY Numbers DEF RateInv, CheckTyped, Row, CountRight, At
  <2> QED
    BY <2>1, BusyFinite, Numbers
<1> QED
  BY <1>1, RateCorrect, PTL

-----------------------------------------------------------------------------
(* The limit.  As long as no pipeline breaks off after ZADD, a time that   *)
(* was added is in the sorted set until it is older than the window: the   *)
(* key does not expire before, since either its expiry was set after that  *)
(* time was taken, or a check is under way that will set it in time.  So   *)
(* a check counts all that lie in the window that ends with it.            *)

\* A check that will set the expiry before the present one has come.
Pending == \E p \in Requests : At(p, "expire") /\ req[p].at + Latency < expiry

SafeUntilOld(t) == expiry >= Never \/ t + Window + Grace <= expiry
EndsInTime(r) == expiry >= Never \/ req[r].at + Latency < expiry

NeverEarly ==
    /\ zset = {} => expiry >= Never
    /\ \A t \in zset : SafeUntilOld(t) \/ Pending
    /\ \A r \in Requests : req[r].pc \in {"count", "add"} => EndsInTime(r) \/ Pending

KeptWhileRecent ==
    \A q \in Requests : req[q].pc \in {"expire", "decide", "allowed", "rejected"} =>
        req[q].at \in zset \/ req[q].at + Window <= clock

Recent(r) == {q \in before[r] : req[q].at > req[r].at + Latency - Window}
RecentTimes(r) == {req[q].at : q \in Recent(r)}

RecentCounted ==
    \A r \in Requests :
        /\ req[r].pc \in {"add", "expire", "decide", "allowed"} =>
               Cardinality(RecentTimes(r)) <= req[r].count
        /\ At(r, "allowed") => req[r].count < MaxRequests

Arrived == \A r \in Requests : req[r].pc # "none" => req[r].at <= clock

EndedBefore == \A r \in Requests : \A q \in before[r] : req[q].pc \in {"allowed", "rejected"}

LimitInv == Arrived /\ EndedBefore /\ (~broken => NeverEarly /\ KeptWhileRecent /\ RecentCounted)

\* The initial state satisfies the invariant.
LEMMA LimitInvInit == Init => LimitInv
BY Numbers DEF Never, Init, LimitInv, Arrived, EndedBefore, NeverEarly, KeptWhileRecent, RecentCounted, At

\* Times are finitely many numbers.
LEMMA RecentFinite ==
    ASSUME RateInv, NEW r \in Requests
    PROVE  IsFiniteSet(RecentTimes(r)) /\ Cardinality(RecentTimes(r)) \in Nat
<1> DEFINE f == [q \in Recent(r) |-> req[q].at]
<1>1. IsFiniteSet(Recent(r))
  <2>1. Recent(r) \subseteq Requests
    BY DEF Recent, RateInv, CheckTyped
  <2> QED
    BY <2>1, RateAssumption, FS_Subset
<1>2. f \in Surjection(Recent(r), RecentTimes(r))
  BY DEF RecentTimes, Surjection
<1> HIDE DEF f
<1> QED
  BY <1>1, <1>2, FS_Surjection, FS_CardinalityType

\* The sorted set is finite.
LEMMA ZsetFinite == ASSUME RateInv PROVE IsFiniteSet(zset) /\ Cardinality(zset) \in Nat
<1> DEFINE times == {req[q].at : q \in Requests}
           f == [q \in Requests |-> req[q].at]
<1>1. f \in Surjection(Requests, times)
  BY DEF Surjection
<1>2. zset \subseteq times
  BY DEF RateInv, Provenance
<1> HIDE DEF f, times
<1> QED
  BY <1>1, <1>2, RateAssumption, FS_Surjection, FS_Subset, FS_CardinalityType

\* A step of one check that keeps its time leaves what is recent to anyone as it was.
LEMMA SameRecent ==
    ASSUME UNCHANGED before, \A q \in Requests : req'[q].at = req[q].at,
           before \in [Requests -> SUBSET Requests]
    PROVE  \A r \in Requests : RecentTimes(r)' = RecentTimes(r)
<1> TAKE r \in Requests
<1>1. before[r] \subseteq Requests
  OBVIOUS
<1>2. Recent(r)' = Recent(r)
  BY <1>1 DEF Recent
<1> QED
  BY <1>1, <1>2 DEF RecentTimes, Recent

\* When a check counts, all that is recent to it is there.
LEMMA RecentThere ==
    ASSUME RateInv, LimitInv, ~broken, NEW r \in Requests, At(r, "count")
    PROVE  Cardinality(RecentTimes(r)) <= Cardinality(zset)
<1>1. RecentTimes(r) \subseteq zset
  <2> SUFFICES ASSUME NEW q \in Recent(r) PROVE req[q].at \in zset
    BY DEF RecentTimes
  <2>1. q \in Requests /\ q \in before[r] /\ req[q].at > req[r].at + Latency - Window
    BY DEF Recent, RateInv, CheckTyped
  <2>2. req[q].pc \in {"allowed", "rejected"}
    BY <2>1 DEF LimitInv, EndedBefore
  <2>3. clock <= req[r].at + Latency
    BY DEF RateInv, Fast, At, Pipeline
  <2>4. req[q].at \in Nat /\ req[r].at \in Nat /\ clock \in Nat
    BY <2>1, Numbers DEF RateInv, CheckTyped, Row
  <2>5. ~(req[q].at + Window <= clock)
    BY <2>1, <2>3, <2>4, Numbers
  <2> QED
    BY <2>1, <2>2, <2>5 DEF LimitInv, KeptWhileRecent
<1> QED
  BY <1>1, ZsetFinite, FS_Subset

\* A check that begins knows who has ended.
LEMMA ArriveLimits == ASSUME RateInv, LimitInv, NEW r \in Requests, Arrive(r) PROVE LimitInv'
<1>1. /\ At(r, "none")
      /\ req'[r].pc = "trim" /\ req'[r].at = clock
      /\ \A q \in Requests \ {r} : req'[q] = req[q]
      /\ before'[r] = {q \in Requests : req[q].pc \in {"allowed", "rejected"}}
      /\ \A q \in Requests \ {r} : before'[q] = before[q]
      /\ UNCHANGED <<clock, zset, expiry, broken>>
      /\ clock \in Nat
  BY Numbers DEF Arrive, RateInv, CheckTyped
<1>2. Arrived'
  BY <1>1 DEF LimitInv, Arrived
<1>3. \A s \in Requests : r \notin before[s] /\ before[s] \subseteq Requests
  BY <1>1 DEF LimitInv, EndedBefore, At, RateInv, CheckTyped
<1>4. EndedBefore'
  <2> SUFFICES ASSUME NEW s \in Requests, NEW q \in before'[s] PROVE req'[q].pc \in {"allowed", "rejected"}
    BY DEF EndedBefore
  <2>1. q \in Requests /\ req[q].pc \in {"allowed", "rejected"}
    BY <1>1, <1>3 DEF LimitInv, EndedBefore
  <2> QED
    BY <1>1, <2>1 DEF At
<1>5. ASSUME ~broken PROVE NeverEarly' /\ KeptWhileRecent' /\ RecentCounted'
  <2>1. NeverEarly /\ KeptWhileRecent /\ RecentCounted
    BY <1>5 DEF LimitInv
  <2>2. Pending => Pending'
    BY <1>1 DEF Pending, At
  <2>3. NeverEarly'
    BY <1>1, <2>1, <2>2 DEF NeverEarly, SafeUntilOld, EndsInTime, Never
  <2>4. KeptWhileRecent'
    BY <1>1, <2>1 DEF KeptWhileRecent
  <2>5. \A s \in Requests \ {r} : RecentTimes(s)' = RecentTimes(s)
    <3> TAKE s \in Requests \ {r}
    <3>1. Recent(s)' = Recent(s)
      BY <1>1, <1>3 DEF Recent
    <3> QED
      BY <1>1, <1>3, <3>1 DEF RecentTimes, Recent
  <2>6. RecentCounted'
    BY <1>1, <2>1, <2>5 DEF RecentCounted, At
  <2> QED
    BY <2>3, <2>4, <2>6
<1> QED
  BY <1>1, <1>2, <1>4, <1>5 DEF LimitInv

Command(r) == Trim(r) \/ Count(r) \/ Add(r) \/ Expire(r) \/ Decide(r) \/ PipelineFails(r)

\* Commands move one check, and no time changes.
LEMMA CommandFrame ==
    ASSUME RateInv, NEW r \in Requests, Command(r)
    PROVE  /\ req[r].pc \in Pipeline
           /\ UNCHANGED <<clock, before>>
           /\ \A q \in Requests \ {r} : req'[q] = req[q]
           /\ \A q \in Requests : req'[q].at = req[q].at
           /\ Trim(r) => req[r].pc = "trim" /\ req'[r].pc = "count"
           /\ Count(r) => req[r].pc = "count" /\ req'[r].pc = "add" /\ req'[r].count = Cardinality(zset)
           /\ ~Count(r) => req'[r].count = req[r].count
           /\ Add(r) => req[r].pc = "add" /\ req'[r].pc = "expire"
           /\ Expire(r) => req[r].pc = "expire" /\ req'[r].pc = "decide"
           /\ Decide(r) => /\ req[r].pc = "decide"
                           /\ req'[r].pc \in {"allowed", "rejected"}
                           /\ req'[r].pc = "allowed" => ~(req[r].count >= MaxRequests)
           /\ PipelineFails(r) => req'[r].pc = "unchecked"
<1>1. req \in [Requests -> Row]
  BY DEF RateInv, CheckTyped
<1> USE <1>1 DEF Row, At, Goto, Pipeline, history
<1>2. CASE Trim(r)
  BY <1>2 DEF Trim, Count, Add, Expire, Decide, PipelineFails
<1>3. CASE Count(r)
  BY <1>3 DEF Trim, Count, Add, Expire, Decide, PipelineFails
<1>4. CASE Add(r)
  BY <1>4 DEF Trim, Count, Add, Expire, Decide, PipelineFails
<1>5. CASE Expire(r)
  BY <1>5 DEF Trim, Count, Add, Expire, Decide, PipelineFails
<1>6. CASE Decide(r)
  BY <1>6 DEF Trim, Count, Add, Expire, Decide, PipelineFails
<1>7. CASE PipelineFails(r)
  BY <1>7 DEF Trim, Count, Add, Expire, Decide, PipelineFails
<1> QED
  BY <1>2, <1>3, <1>4, <1>5, <1>6, <1>7 DEF Command

\* The key does not expire under a time that counts: EXPIRE adds at least what a check
\* takes, so whoever finds a recent time in the set is done before the key expires.
LEMMA CommandNeverEarly ==
    ASSUME Latency < Window, Latency <= Grace, RateInv, Arrived, NeverEarly,
           NEW r \in Requests, Command(r), PipelineFails(r) => req[r].pc # "expire"
    PROVE  NeverEarly'
<1>1. /\ req[r].pc \in Pipeline /\ clock' = clock
      /\ \A q \in Requests \ {r} : req'[q] = req[q]
      /\ \A q \in Requests : req'[q].at = req[q].at
  BY CommandFrame
<1>2. \A q \in Requests : req[q].at \in Nat
  BY Numbers DEF RateInv, CheckTyped, Row
<1>3. /\ clock \in Nat /\ expiry \in Nat /\ Never \in Nat
      /\ \A t \in zset : t \in Nat /\ t <= clock
  <2>1. \A t \in zset : \E q \in Requests : req[q].at = t /\ req[q].pc # "none"
    BY DEF RateInv, Provenance, Added, Outcomes
  <2> QED
    BY <1>2, <2>1, Numbers DEF RateInv, CheckTyped, Arrived, Never
<1>4. CASE Trim(r)
  <2>1. /\ zset' = {t \in zset : t > req[r].at - Window}
        /\ expiry' = IF zset' = {} THEN Never ELSE expiry
        /\ req[r].pc = "trim" /\ req'[r].pc = "count"
    BY <1>4, CommandFrame DEF Trim
  <2>2. CASE zset' = {}
    BY <2>1, <2>2, <1>3 DEF NeverEarly, EndsInTime
  <2>3. CASE zset' # {}
    <3>1. expiry' = expiry /\ (Pending => Pending')
      BY <1>1, <2>1, <2>3 DEF Pending, At
    <3>2. PICK t \in zset : t > req[r].at - Window
      BY <2>1, <2>3
    <3>3. EndsInTime(r)' \/ Pending'
      <4>1. CASE SafeUntilOld(t)
        <5>1. expiry >= Never \/ req[r].at + Latency < expiry
          BY <1>2, <1>3, <3>2, <4>1, Numbers DEF SafeUntilOld
        <5> QED
          BY <1>1, <3>1, <5>1 DEF EndsInTime, Never
      <4> QED
        BY <3>1, <4>1 DEF NeverEarly
    <3> QED
      BY <1>1, <2>1, <2>3, <3>1, <3>3 DEF NeverEarly, SafeUntilOld, EndsInTime, Never
  <2> QED
    BY <2>2, <2>3
<1>5. CASE Expire(r)
  <2>1. /\ UNCHANGED zset
        /\ expiry' = IF zset = {} THEN expiry ELSE clock + Window + Grace
        /\ req'[r].pc = "decide"
    BY <1>5, CommandFrame DEF Expire
  <2>2. CASE zset = {}
    BY <2>1, <2>2 DEF NeverEarly, EndsInTime, Never
  <2>3. CASE zset # {}
    <3>1. \A t \in zset : SafeUntilOld(t)'
      BY <1>3, <2>1, <2>3, Numbers DEF SafeUntilOld
    <3>2. \A q \in Requests : req[q].pc \in {"count", "add"} => EndsInTime(q)'
      <4> SUFFICES ASSUME NEW q \in Requests, req[q].pc \in {"count", "add"}
                   PROVE  req'[q].at + Latency < expiry'
        BY DEF EndsInTime
      <4>1. req[q].at <= clock
        BY DEF Arrived
      <4> QED
        BY <1>1, <1>2, <1>3, <2>1, <2>3, <4>1, Numbers
    <3> QED
      BY <1>1, <2>1, <2>3, <3>1, <3>2 DEF NeverEarly
  <2> QED
    BY <2>2, <2>3
<1>6. CASE Add(r)
  <2>1. /\ zset' = zset \cup {req[r].at} /\ expiry' = expiry
        /\ req[r].pc = "add" /\ req'[r].pc = "expire"
    BY <1>6, CommandFrame DEF Add
  <2>2. Pending => Pending'
    BY <1>1, <2>1 DEF Pending, At
  <2>3. SafeUntilOld(req[r].at)' \/ Pending'
    <3>1. EndsInTime(r) => expiry >= Never \/ Pending'
      BY <1>1, <2>1 DEF EndsInTime, Pending, At
    <3>2. expiry >= Never => SafeUntilOld(req[r].at)'
      BY <2>1 DEF SafeUntilOld, Never
    <3> QED
      BY <2>1, <2>2, <3>1, <3>2 DEF NeverEarly
  <2>4. \A t \in zset : SafeUntilOld(t)' \/ Pending'
    BY <2>1, <2>2 DEF NeverEarly, SafeUntilOld, Never
  <2>5. \A q \in Requests \ {r} : req[q].pc \in {"count", "add"} => EndsInTime(q)' \/ Pending'
    BY <1>1, <2>1, <2>2 DEF NeverEarly, EndsInTime, Never
  <2>6. req'[r].at = req[r].at /\ zset' # {}
    BY <1>1, <2>1
  <2> QED
    <3>1. \A t \in zset' : SafeUntilOld(t)' \/ Pending'
      <4> TAKE t \in zset'
      <4>1. CASE t \in zset
        BY <2>4, <4>1
      <4>2. CASE t = req[r].at
        <5>1. SafeUntilOld(t)' <=> SafeUntilOld(req[r].at)'
          BY <2>6, <4>2 DEF SafeUntilOld
        <5> QED
          BY <2>3, <5>1
      <4> QED
        BY <2>1, <4>1, <4>2
    <3> QED
      BY <1>1, <2>1, <2>5, <2>6, <3>1 DEF NeverEarly
<1>7. CASE Count(r) \/ Decide(r) \/ PipelineFails(r)
  <2>1. /\ UNCHANGED <<zset, expiry>>
        /\ req[r].pc # "expire"
        /\ req'[r].pc = "add" => req[r].pc = "count"
        /\ req'[r].pc # "count"
    BY <1>7, CommandFrame DEF Count, Decide, PipelineFails
  <2>2. Pending => Pending'
    BY <1>1, <2>1 DEF Pending, At
  <2> QED
    BY <1>1, <2>1, <2>2 DEF NeverEarly, SafeUntilOld, EndsInTime, Never
<1> QED
  BY <1>4, <1>5, <1>6, <1>7 DEF Command

\* Commands keep the invariant.
LEMMA CommandLimits ==
    ASSUME Latency < Window, Latency <= Grace, RateInv, LimitInv, NEW r \in Requests, Command(r)
    PROVE  LimitInv'
<1>1. /\ req[r].pc \in Pipeline /\ clock' = clock /\ before' = before
      /\ \A q \in Requests \ {r} : req'[q] = req[q]
      /\ \A q \in Requests : req'[q].at = req[q].at
  BY CommandFrame
<1>2. \A q \in Requests : req[q].at \in Nat /\ req[q].count \in Nat
  BY Numbers DEF RateInv, CheckTyped, Row
<1>3. before \in [Requests -> SUBSET Requests] /\ clock \in Nat
  BY Numbers DEF RateInv, CheckTyped
<1>4. Arrived'
  BY <1>1 DEF LimitInv, Arrived, Pipeline
<1>5. EndedBefore'
  <2>1. \A s \in Requests : \A q \in before[s] : q \in Requests \ {r}
    BY <1>1, <1>3 DEF LimitInv, EndedBefore, Pipeline
  <2> QED
    BY <1>1, <2>1 DEF LimitInv, EndedBefore
<1> SUFFICES ASSUME ~broken' PROVE NeverEarly' /\ KeptWhileRecent' /\ RecentCounted'
  BY <1>4, <1>5 DEF LimitInv
<1>6. ~broken /\ (PipelineFails(r) => req[r].pc # "expire")
  BY DEF Command, Trim, Count, Add, Expire, Decide, PipelineFails, history, At, RateInv, CheckTyped
<1>7. NeverEarly'
  BY <1>6, CommandNeverEarly DEF LimitInv
<1>8. KeptWhileRecent'
  <2>1. CASE Trim(r)
    <3>1. zset' = {t \in zset : t > req[r].at - Window} /\ req'[r].pc = "count" /\ req[r].at <= clock
      BY <1>1, <2>1, CommandFrame DEF Trim, LimitInv, Arrived, Pipeline
    <3> QED
      BY <1>1, <1>2, <1>3, <1>6, <3>1, Numbers DEF LimitInv, KeptWhileRecent
  <2>2. CASE Add(r)
    <3>1. zset' = zset \cup {req[r].at}
      BY <2>2 DEF Add
    <3> QED
      BY <1>1, <1>6, <3>1 DEF LimitInv, KeptWhileRecent
  <2>3. CASE Count(r) \/ Expire(r) \/ Decide(r) \/ PipelineFails(r)
    <3>1. /\ UNCHANGED zset
          /\ req'[r].pc \in {"expire", "decide", "allowed", "rejected"} =>
                 req[r].pc \in {"expire", "decide"}
      BY <2>3, CommandFrame DEF Count, Expire, Decide, PipelineFails
    <3> QED
      BY <1>1, <1>6, <3>1 DEF LimitInv, KeptWhileRecent
  <2> QED
    BY <2>1, <2>2, <2>3 DEF Command
<1>9. RecentCounted'
  <2>1. \A s \in Requests : RecentTimes(s)' = RecentTimes(s)
    BY <1>1, <1>3, SameRecent
  <2>2. \A s \in Requests \ {r} :
            /\ req'[s].pc \in {"add", "expire", "decide", "allowed"} =>
                   Cardinality(RecentTimes(s)') <= req'[s].count
            /\ req'[s].pc = "allowed" => req'[s].count < MaxRequests
    BY <1>1, <1>6, <2>1 DEF LimitInv, RecentCounted, At
  <2>3. /\ req'[r].pc \in {"add", "expire", "decide", "allowed"} =>
               Cardinality(RecentTimes(r)) <= req'[r].count
        /\ req'[r].pc = "allowed" => req'[r].count < MaxRequests
    <3>1. CASE Count(r)
      BY <1>6, <3>1, CommandFrame, RecentThere DEF At
    <3>2. CASE ~Count(r)
      <4>1. /\ req'[r].count = req[r].count
            /\ req'[r].pc \in {"add", "expire", "decide", "allowed"} =>
                   req[r].pc \in {"add", "expire", "decide"}
            /\ req'[r].pc = "allowed" => ~(req[r].count >= MaxRequests)
        BY <3>2, CommandFrame DEF Command
      <4> QED
        BY <1>2, <1>6, <4>1, Numbers DEF LimitInv, RecentCounted
    <3> QED
      BY <3>1, <3>2
  <2> QED
    BY <2>1, <2>2, <2>3 DEF RecentCounted, At
<1> QED
  BY <1>7, <1>8, <1>9

\* When the key expires, all its times are old.
LEMMA TickLimits == ASSUME RateInv, LimitInv, Tick PROVE LimitInv'
<1>1. /\ clock' = clock + 1 /\ clock < MaxTime
      /\ UNCHANGED <<req, before, broken>>
      /\ \A r \in Requests : req[r].pc \in Pipeline => clock < req[r].at + Latency
      /\ \/ clock' >= expiry /\ zset' = {} /\ expiry' = Never
         \/ UNCHANGED <<zset, expiry>>
  BY DEF Tick, history
<1>2. /\ clock \in Nat /\ expiry \in Nat /\ Never \in Nat /\ Never = MaxTime + 1
      /\ \A q \in Requests : req[q].at \in Nat
  BY Numbers DEF RateInv, CheckTyped, Row, Never
<1>3. Arrived' /\ EndedBefore'
  BY <1>1, <1>2 DEF LimitInv, Arrived, EndedBefore
<1> SUFFICES ASSUME ~broken PROVE NeverEarly' /\ KeptWhileRecent' /\ RecentCounted'
  BY <1>1, <1>3 DEF LimitInv
<1>4. NeverEarly /\ KeptWhileRecent /\ RecentCounted
  BY DEF LimitInv
<1>5. RecentCounted'
  <2>1. \A s \in Requests : RecentTimes(s)' = RecentTimes(s)
    BY <1>1, SameRecent DEF RateInv, CheckTyped
  <2> QED
    BY <1>1, <1>4, <2>1 DEF RecentCounted, At
<1>6. CASE UNCHANGED <<zset, expiry>>
  <2>1. NeverEarly'
    <3>1. Pending' <=> Pending
      BY <1>1, <1>6 DEF Pending, At
    <3> QED
      BY <1>1, <1>4, <1>6, <3>1 DEF NeverEarly, SafeUntilOld, EndsInTime, Never
  <2>2. KeptWhileRecent'
    BY <1>1, <1>2, <1>4, <1>6, Numbers DEF KeptWhileRecent
  <2> QED
    BY <1>5, <2>1, <2>2
<1>7. CASE clock' >= expiry /\ zset' = {} /\ expiry' = Never
  <2>1. NeverEarly'
    BY <1>2, <1>7 DEF NeverEarly, EndsInTime, Never
  <2>2. ~Pending
    BY <1>1, <1>2, <1>7, Numbers DEF Pending, At, Pipeline
  <2>3. \A t \in zset : t + Window + Grace <= expiry
    BY <1>1, <1>2, <1>4, <1>7, <2>2, Numbers DEF NeverEarly, SafeUntilOld
  <2>4. KeptWhileRecent'
    BY <1>1, <1>2, <1>4, <1>7, <2>3, Numbers DEF KeptWhileRecent
  <2> QED
    BY <1>5, <2>1, <2>4
<1> QED
  BY <1>1, <1>6, <1>7

\* A request is allowed only if fewer than MaxRequests of those that had ended before it
\* arrived lie in the window that ends with its check.
THEOREM LimitKept ==
    ASSUME Latency < Window, Latency <= Grace PROVE Spec => []AllowedBelowLimit
<1>1. RateInv /\ LimitInv /\ [Next]_vars => LimitInv'
  <2> SUFFICES ASSUME RateInv, LimitInv, [Next]_vars PROVE LimitInv'
    OBVIOUS
  <2>1. CASE UNCHANGED vars
    BY <2>1 DEF vars, LimitInv, Arrived, EndedBefore, NeverEarly, KeptWhileRecent, RecentCounted,
        RecentTimes, Recent, SafeUntilOld, EndsInTime, Pending, Never, At
  <2> QED
    BY <2>1, ArriveLimits, CommandLimits, TickLimits DEF Next, Check, Command
<1>2. RateInv /\ LimitInv => AllowedBelowLimit
  <2> SUFFICES ASSUME RateInv, LimitInv, ~broken, NEW r \in Requests, req[r].pc = "allowed"
               PROVE  Cardinality(RecentTimes(r)) < MaxRequests
    BY DEF AllowedBelowLimit, RecentTimes, Recent
  <2>1. Cardinality(RecentTimes(r)) <= req[r].count /\ req[r].count < MaxRequests /\ req[r].count \in Nat
    BY Numbers DEF LimitInv, RecentCounted, At, RateInv, CheckTyped, Row
  <2> QED
    BY <2>1, RecentFinite, Numbers
<1> QED
  BY <1>1, <1>2, RateCorrect, LimitInvInit, PTL DEF Spec
=============================================================================
