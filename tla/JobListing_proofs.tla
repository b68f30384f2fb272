-------------------------- MODULE JobListing_proofs --------------------------
(***************************************************************************)
(* The walk through the jobs of a repository, for any number of jobs and   *)
(* any page limit.                                                         *)
(***************************************************************************)
EXTENDS JobListing, FiniteSetTheorems, TLAPS

\* The constants are positive numbers.
LEMMA Numbers == Limit \in Nat /\ Limit > 0 /\ MaxTime \in Nat /\ MaxTime > 0
BY ListingAssumption

-----------------------------------------------------------------------------
(* The invariant.  What has been seen is at the cursor or newer, what is   *)
(* still to come is older, or of the very time of a cursor.                *)

Listed ==
    /\ clock \in 1 .. MaxTime
    /\ row \in [Jobs -> [state : {"none", "inserting", "visible"}, created : 0 .. clock]]
    /\ \A j \in Jobs : row[j].state # "none" => row[j].created > 0
    /\ walk \in [pc : {"idle", "listing", "done"}, cursor : 0 .. clock]
    /\ cursors \subseteq 1 .. clock
    /\ initial \cup seen \subseteq Visible

\* A set of times has a first one.  (Induction on the clock shows it.)
TimesOrdered ==
    \A S \in SUBSET (1 .. clock) : S # {} => \E first \in S : \A t \in S : first <= t

Behind == \A j \in seen : row[j].created >= walk.cursor

Ahead == \A j \in initial \ seen : row[j].created < walk.cursor \/ row[j].created \in cursors

Progress ==
    /\ walk.pc = "idle" => seen = {}
    /\ walk.pc = "listing" => Behind /\ Ahead

ListInv == Listed /\ TimesOrdered /\ Progress /\ NoJobTwice /\ MissesOnlyTies

\* The initial state satisfies it.
LEMMA ListInvInit == Init => ListInv
<1> SUFFICES ASSUME Init PROVE ListInv
  OBVIOUS
<1>1. 1 \in 1 .. MaxTime /\ 0 \in 0 .. clock
  BY Numbers DEF Init
<1>2. Listed
  BY <1>1 DEF Init, Listed
<1>3. TimesOrdered
  <2>1. \A t \in 1 .. clock : t = 1
    BY DEF Init
  <2> SUFFICES ASSUME NEW S \in SUBSET (1 .. clock), NEW first \in S
               PROVE  \E f \in S : \A t \in S : f <= t
    BY DEF TimesOrdered
  <2>2. \A t \in S : first <= t
    BY <2>1
  <2> QED
    BY <2>2
<1> QED
  BY <1>2, <1>3 DEF Init, ListInv, Progress, NoJobTwice, MissesOnlyTies

\* A page is of older jobs, its last time is that of the next cursor, and it passes over
\* no job that is newer; a page that is not full passes over none.
LEMMA Page ==
    ASSUME Listed, TimesOrdered, NEW page \in ListJobsByRepo(walk.cursor)
    PROVE  /\ page \subseteq Older(walk.cursor)
           /\ ~IsFull(page) => page = Older(walk.cursor)
           /\ IsFull(page) =>
                 /\ NextCursor(page) \in 1 .. clock
                 /\ NextCursor(page) < walk.cursor
                 /\ \A j \in page : row[j].created >= NextCursor(page)
                 /\ \A j \in Older(walk.cursor) \ page : row[j].created <= NextCursor(page)
<1> DEFINE older == Older(walk.cursor)
           times == {row[j].created : j \in page}
<1>1. page \subseteq older /\ older \subseteq Jobs
  BY DEF ListJobsByRepo, kSubset, Older, Visible
<1>2. IsFiniteSet(older) /\ Cardinality(older) \in Nat
  BY <1>1, ListingAssumption, FS_Subset, FS_CardinalityType
<1>3. ASSUME ~IsFull(page) PROVE page = older
  <2>1. Cardinality(page) = Cardinality(older)
    BY <1>3 DEF IsFull, ListJobsByRepo, kSubset
  <2> QED
    BY <1>1, <1>2, <2>1, FS_Subset
<1>4. ASSUME IsFull(page)
      PROVE  /\ NextCursor(page) \in times
             /\ \A t \in times : NextCursor(page) <= t
             /\ times \subseteq 1 .. clock
  <2>1. page # {}
    BY <1>4, FS_EmptySet, Numbers DEF IsFull
  <2>2. times \subseteq 1 .. clock
    <3>1. \A j \in page : row[j].created \in 0 .. clock /\ row[j].created > 0
      BY <1>1 DEF Listed, Older, Visible
    <3>2. clock \in Nat
      BY Numbers DEF Listed
    <3> QED
      BY <3>1, <3>2
  <2>3. times # {}
    BY <2>1
  <2> HIDE DEF times
  <2>4. \E first \in times : \A t \in times : first <= t
    BY <2>2, <2>3 DEF TimesOrdered
  <2> QED
    BY <2>2, <2>4 DEF NextCursor, Min, times
<1>5. ASSUME IsFull(page)
      PROVE  /\ NextCursor(page) < walk.cursor
             /\ \A j \in older \ page : row[j].created <= NextCursor(page)
  <2>1. PICK k \in page : row[k].created = NextCursor(page)
    BY <1>4, <1>5
  <2>2. row[k].created < walk.cursor
    BY <1>1, <2>1 DEF Older
  <2>3. \A j \in older \ page : row[k].created >= row[j].created
    BY <2>1 DEF ListJobsByRepo
  <2> QED
    BY <1>1, <2>1, <2>2, <2>3, Numbers DEF Listed
<1>6. ASSUME IsFull(page) PROVE \A j \in page : row[j].created >= NextCursor(page)
  <2>1. NextCursor(page) \in 1 .. clock
    BY <1>4, <1>6
  <2> QED
    BY <1>4, <1>6, <2>1, Numbers DEF Listed
<1> QED
  BY <1>1, <1>3, <1>4, <1>5, <1>6

-----------------------------------------------------------------------------
(* The steps preserve the invariant.                                       *)

\* A transaction begins or commits: no row that has a time gets another one, and no
\* job on a page or there from the beginning disappears.
LEMMA InsertKeeps == ASSUME ListInv, NEW j \in Jobs, Begin(j) \/ Commit(j) PROVE ListInv'
<1>1. UNCHANGED <<clock, walk, seen, again, initial, cursors>> /\ clock \in 1 .. MaxTime
  BY DEF Begin, Commit, ListInv, Listed
<1>2. \A k \in Jobs \ {j} : row'[k] = row[k]
  BY DEF Begin, Commit, ListInv, Listed
<1>3. /\ row'[j] \in [state : {"none", "inserting", "visible"}, created : 0 .. clock]
      /\ row'[j].created > 0
      /\ row[j].state # "none" => row'[j].created = row[j].created
      /\ row[j].state = "visible" => row'[j].state = "visible"
  <2>1. row[j] \in [state : {"none", "inserting", "visible"}, created : 0 .. clock]
        /\ row \in [Jobs -> [state : {"none", "inserting", "visible"}, created : 0 .. clock]]
    BY DEF ListInv, Listed
  <2>2. CASE Begin(j)
    <3>1. row'[j] = [state |-> "inserting", created |-> clock]
      BY <2>1, <2>2 DEF Begin
    <3> QED
      BY <1>1, <2>2, <3>1, Numbers DEF Begin
  <2>3. CASE Commit(j)
    <3>1. row'[j] = [row[j] EXCEPT !.state = "visible"] /\ row[j].state = "inserting"
      BY <2>1, <2>3 DEF Commit
    <3> QED
      BY <2>1, <3>1 DEF ListInv, Listed
  <2> QED
    BY <2>2, <2>3
<1>4. row' \in [Jobs -> [state : {"none", "inserting", "visible"}, created : 0 .. clock]]
  <2>1. row' = [k \in Jobs |-> row'[k]]
    BY DEF Begin, Commit, ListInv, Listed
  <2> QED
    BY <1>2, <1>3, <2>1 DEF ListInv, Listed
<1>5. Visible \subseteq Visible' /\ \A k \in initial \cup seen : row'[k].created = row[k].created
  BY <1>2, <1>3 DEF Visible, ListInv, Listed
<1>6. Listed'
  BY <1>1, <1>2, <1>3, <1>4, <1>5 DEF ListInv, Listed
<1> QED
  BY <1>1, <1>5, <1>6 DEF ListInv, TimesOrdered, Progress, Behind, Ahead, NoJobTwice, MissesOnlyTies

\* The clock advances: a set of times with the new one still has a first one.
LEMMA TickKeeps == ASSUME ListInv, Tick PROVE ListInv'
<1>1. /\ clock' = clock + 1 /\ clock \in 1 .. MaxTime /\ clock < MaxTime
      /\ UNCHANGED <<row, walk, seen, again, initial, cursors>>
  BY DEF Tick, ListInv, Listed
<1>2. clock' \in 1 .. MaxTime /\ 0 .. clock \subseteq 0 .. clock' /\ 1 .. clock \subseteq 1 .. clock'
  BY <1>1, Numbers
<1>3. Listed'
  <2>1. /\ row' \in [Jobs -> [state : {"none", "inserting", "visible"}, created : 0 .. clock']]
        /\ walk' \in [pc : {"idle", "listing", "done"}, cursor : 0 .. clock']
        /\ cursors' \subseteq 1 .. clock'
    BY <1>1, <1>2 DEF ListInv, Listed
  <2> QED
    BY <1>1, <1>2, <2>1 DEF ListInv, Listed, Visible
<1>4. TimesOrdered'
  <2> SUFFICES ASSUME NEW S \in SUBSET (1 .. clock + 1), S # {}
               PROVE  \E first \in S : \A t \in S : first <= t
    BY <1>1 DEF TimesOrdered
  <2> DEFINE R == S \ {clock + 1}
  <2>1. \A t \in R : t \in 1 .. clock
    BY <1>1
  <2>2. CASE R = {}
    <3>1. \A t \in S : t = clock + 1
      BY <2>2
    <3>2. clock + 1 \in S
      BY <3>1
    <3>3. clock + 1 <= clock + 1
      BY <1>1, Numbers
    <3> QED
      BY <3>1, <3>2, <3>3
  <2>3. CASE R # {}
    <3>1. R \in SUBSET (1 .. clock)
      BY <2>1
    <3> HIDE DEF R
    <3>2. PICK first \in R : \A t \in R : first <= t
      BY <2>3, <3>1 DEF ListInv, TimesOrdered
    <3>3. first \in S /\ first <= clock + 1
      BY <1>1, <2>1, <3>2, Numbers DEF R
    <3> QED
      BY <3>2, <3>3 DEF R
  <2> QED
    BY <2>2, <2>3
<1> QED
  BY <1>1, <1>3, <1>4 DEF ListInv, Progress, Behind, Ahead, NoJobTwice, MissesOnlyTies

\* The walk begins: every job that is there is older than now, or of this very time.
LEMMA FirstKeeps == ASSUME ListInv, FirstRequest PROVE ListInv'
<1>1. /\ walk' = [pc |-> "listing", cursor |-> clock]
      /\ initial' = Visible /\ cursors' = {clock} /\ seen = {}
      /\ UNCHANGED <<clock, row, seen, again>>
      /\ clock \in 1 .. MaxTime /\ clock \in 0 .. clock /\ clock \in 1 .. clock
  BY Numbers DEF FirstRequest, ListInv, Listed, Progress
<1>2. Listed'
  BY <1>1 DEF ListInv, Listed, Visible
<1>3. Progress'
  <2>1. \A j \in Visible : row[j].created < clock \/ row[j].created = clock
    BY <1>1, Numbers DEF ListInv, Listed, Visible
  <2> QED
    BY <1>1, <2>1 DEF Progress, Behind, Ahead
<1> QED
  BY <1>1, <1>2, <1>3 DEF ListInv, TimesOrdered, NoJobTwice, MissesOnlyTies

\* A page is answered: it lies between what has been seen and what is to come.
LEMMA ListKeeps == ASSUME ListInv, ListJobs PROVE ListInv'
<1>0. /\ walk.pc = "listing" /\ UNCHANGED <<clock, row, initial>>
      /\ Listed /\ TimesOrdered /\ Behind /\ Ahead
      /\ walk.cursor \in 0 .. clock /\ clock \in Nat
  BY Numbers DEF ListJobs, ListInv, Progress, Listed
<1>1. PICK page \in ListJobsByRepo(walk.cursor) :
          /\ seen' = seen \cup page
          /\ again' = again \cup (page \cap seen)
          /\ IF IsFull(page)
             THEN /\ walk' = [walk EXCEPT !.cursor = NextCursor(page)]
                  /\ cursors' = cursors \cup {NextCursor(page)}
             ELSE /\ walk' = [walk EXCEPT !.pc = "done"]
                  /\ UNCHANGED cursors
  BY DEF ListJobs
<1>2. page \subseteq Visible /\ \A j \in page : row[j].created < walk.cursor
  BY <1>0, <1>1, Page DEF Older
<1>3. \A j \in Visible : row[j].created \in Nat
  BY <1>0 DEF Listed, Visible
<1>4. NoJobTwice'
  <2>1. page \cap seen = {}
    BY <1>0, <1>2, <1>3 DEF Behind, Listed
  <2> QED
    BY <1>1, <2>1 DEF ListInv, NoJobTwice
<1>5. TimesOrdered'
  BY <1>0 DEF TimesOrdered
<1>6. seen' \cup initial' \subseteq Visible'
  BY <1>0, <1>1, <1>2 DEF Listed, Visible
<1>7. CASE IsFull(page)
  <2> DEFINE next == NextCursor(page)
  <2>1. /\ next \in 1 .. clock /\ next < walk.cursor
        /\ \A j \in page : row[j].created >= next
        /\ \A j \in Older(walk.cursor) \ page : row[j].created <= next
    BY <1>0, <1>1, <1>7, Page
  <2>2. walk' = [walk EXCEPT !.cursor = next] /\ cursors' = cursors \cup {next}
    BY <1>1, <1>7
  <2> HIDE DEF next
  <2>3. /\ walk' \in [pc : {"idle", "listing", "done"}, cursor : 0 .. clock]
        /\ walk'.pc = "listing" /\ walk'.cursor = next
    BY <1>0, <2>1, <2>2 DEF Listed
  <2>4. Listed'
    BY <1>0, <1>6, <2>1, <2>2, <2>3 DEF Listed
  <2>5. \A j \in seen' : row'[j].created >= walk'.cursor
    <3>1. \A j \in seen : row[j].created >= next
      BY <1>0, <1>3, <2>1 DEF Behind, Listed
    <3> QED
      BY <1>0, <1>1, <2>1, <2>3, <3>1
  <2>6. \A j \in initial' \ seen' : row'[j].created < walk'.cursor \/ row'[j].created \in cursors'
    <3> SUFFICES ASSUME NEW j \in initial \ seen, j \notin page, row[j].created \notin cursors'
                 PROVE  row[j].created < next
      BY <1>0, <1>1, <2>3
    <3>1. j \in Visible /\ row[j].created < walk.cursor /\ row[j].created # next
      BY <1>0, <2>2 DEF Ahead, Listed
    <3>2. row[j].created <= next
      BY <2>1, <3>1 DEF Older
    <3> QED
      BY <1>3, <2>1, <3>1, <3>2
  <2> QED
    BY <1>4, <1>5, <2>3, <2>4, <2>5, <2>6 DEF ListInv, Progress, Behind, Ahead, MissesOnlyTies
<1>8. CASE ~IsFull(page)
  <2>1. page = Older(walk.cursor)
    BY <1>0, <1>1, <1>8, Page
  <2>2. walk' = [walk EXCEPT !.pc = "done"] /\ UNCHANGED cursors
    BY <1>1, <1>8
  <2>3. walk' \in [pc : {"idle", "listing", "done"}, cursor : 0 .. clock] /\ walk'.pc = "done"
    BY <1>0, <2>2 DEF Listed
  <2>4. Listed'
    BY <1>0, <1>6, <2>2, <2>3 DEF Listed
  <2>5. MissesOnlyTies'
    BY <1>0, <1>1, <2>1, <2>2 DEF Ahead, Listed, Older, MissesOnlyTies
  <2> QED
    BY <1>4, <1>5, <2>3, <2>4, <2>5 DEF ListInv, Progress
<1> QED
  BY <1>7, <1>8

\* The invariant holds in every state, however many jobs are created during the walk.
THEOREM ListCorrect == Spec => []ListInv
<1>1. ListInv /\ [Next]_vars => ListInv'
  <2> SUFFICES ASSUME ListInv, [Next]_vars PROVE ListInv'
    OBVIOUS
  <2>1. CASE UNCHANGED vars
    BY <2>1 DEF vars, ListInv, Listed, TimesOrdered, Progress, Behind, Ahead, NoJobTwice,
      MissesOnlyTies, Visible
  <2> QED
    BY <2>1, InsertKeeps, TickKeeps, FirstKeeps, ListKeeps DEF Next
<1> QED
  BY <1>1, ListInvInit, PTL DEF Spec

\* The variables keep their types; no row and no cursor is from the future.
THEOREM ListTypes == Spec => []ListingTypeOK
<1>1. ListInv => ListingTypeOK
  BY DEF ListInv, Listed, NoJobTwice, ListingTypeOK
<1> QED
  BY <1>1, ListCorrect, PTL

\* No job is on two pages.
THEOREM PagesDisjoint == Spec => []NoJobTwice
<1>1. ListInv => NoJobTwice
  BY DEF ListInv
<1> QED
  BY <1>1, ListCorrect, PTL

\* A walk to the end misses at most jobs of the very time of a cursor.
THEOREM OnlyTiesMissed == Spec => []MissesOnlyTies
<1>1. ListInv => MissesOnlyTies
  BY DEF ListInv
<1> QED
  BY <1>1, ListCorrect, PTL
=============================================================================
