----------------------------- MODULE JobListing -----------------------------
(***************************************************************************)
(* A client pages through the jobs of a repository, newest first, while    *)
(* jobs are created.  created_at is the time at which the inserting        *)
(* transaction began; its row is visible when it commits, so rows may      *)
(* appear behind the cursor.  The cursor of a page is the time of its last *)
(* row, and several rows may have the same time.                           *)
(***************************************************************************)
EXTENDS Integers, FiniteSetsExt

CONSTANTS
    Jobs,
    Limit,     \* the page limit, after ParseLimit
    MaxTime    \* bound of the clock

ASSUME ListingAssumption ==
    {Limit, MaxTime} \subseteq Nat \ {0} /\ IsFiniteSet(Jobs)

VARIABLES
    clock,
    row,      \* job -> its row
    walk,     \* the client: its next request
    seen,     \* the jobs that were on a page
    again,    \* the jobs that were on a page and had been seen before
    initial,  \* the jobs that were visible when the walk began
    cursors   \* the cursors used so far

vars == <<clock, row, walk, seen, again, initial, cursors>>

Init ==
    /\ clock = 1
    /\ row = [j \in Jobs |-> [state |-> "none", created |-> 0]]
    /\ walk = [pc |-> "idle", cursor |-> 0]
    /\ seen = {} /\ again = {}
    /\ initial = {}
    /\ cursors = {}

Visible == {j \in Jobs : row[j].state = "visible"}

-----------------------------------------------------------------------------
Bug_BeginAhead(j) ==
    /\ row[j].state = "none"
    /\ row' = [row EXCEPT ![j] = [state |-> "inserting", created |-> clock + 1]]
    /\ UNCHANGED <<clock, walk, seen, again, initial, cursors>>

\* The transaction that inserts the job begins: created_at is now().
Begin(j) ==
    /\ row[j].state = "none"
    /\ row' = [row EXCEPT ![j] = [state |-> "inserting", created |-> clock]]
    /\ UNCHANGED <<clock, walk, seen, again, initial, cursors>>

Commit(j) ==
    /\ row[j].state = "inserting"
    /\ row' = [row EXCEPT ![j].state = "visible"]
    /\ UNCHANGED <<clock, walk, seen, again, initial, cursors>>

Tick ==
    /\ clock < MaxTime
    /\ clock' = clock + 1
    /\ UNCHANGED <<row, walk, seen, again, initial, cursors>>

\* The client asks for the first page: ParseCursor takes the current time.
FirstRequest ==
    /\ walk.pc = "idle"
    /\ walk' = [pc |-> "listing", cursor |-> clock]
    /\ initial' = Visible
    /\ cursors' = {clock}
    /\ UNCHANGED <<clock, row, seen, again>>

Bug_OlderInclusive(cursor) == {j \in Visible : row[j].created <= cursor}

Older(cursor) == {j \in Visible : row[j].created < cursor}

\* ORDER BY created_at DESC LIMIT $3; rows of the same time come in any order.
ListJobsByRepo(cursor) ==
    LET size == IF Cardinality(Older(cursor)) < Limit THEN Cardinality(Older(cursor)) ELSE Limit
    IN  {page \in kSubset(size, Older(cursor)) :
            \A j \in page, k \in Older(cursor) \ page : row[j].created >= row[k].created}

Bug_IsFullOffByOne(page) == Cardinality(page) > Limit

IsFull(page) == Cardinality(page) = Limit

Bug_NextCursorOfFirst(page) == Max({row[j].created : j \in page})

\* The time of the last row of the page.
NextCursor(page) == Min({row[j].created : j \in page})

\* ListJobs answers.  A full page has a cursor, with which the client asks for the next;
\* a shorter one is the last.
ListJobs ==
    /\ walk.pc = "listing"
    /\ \E page \in ListJobsByRepo(walk.cursor) :
        /\ seen' = seen \cup page
        /\ again' = again \cup (page \cap seen)
        /\ IF IsFull(page)
           THEN /\ walk' = [walk EXCEPT !.cursor = NextCursor(page)]
                /\ cursors' = cursors \cup {NextCursor(page)}
           ELSE /\ walk' = [walk EXCEPT !.pc = "done"]
                /\ UNCHANGED cursors
    /\ UNCHANGED <<clock, row, initial>>

Next == FirstRequest \/ ListJobs \/ Tick \/ \E j \in Jobs : Begin(j) \/ Commit(j)

Spec == Init /\ [][Next]_vars

\* The client goes on as long as it gets a cursor, and every request is answered.
FairSpec == Spec /\ WF_vars(ListJobs)

-----------------------------------------------------------------------------
\* Every variable has its type; no row and no cursor is from the future, and a job that
\* has been seen stays visible.
ListingTypeOK ==
    /\ clock \in 1 .. MaxTime
    /\ row \in [Jobs -> [state : {"none", "inserting", "visible"}, created : 0 .. clock]]
    /\ walk \in [pc : {"idle", "listing", "done"}, cursor : 0 .. clock]
    /\ again \subseteq seen
    /\ initial \cup seen \subseteq Visible
    /\ cursors \subseteq 1 .. clock

\* No job is on two pages, although jobs appear in front of and behind the cursor.
NoJobTwice == again = {}

\* A walk to the end misses no job that was there when it began, except jobs that were
\* created at the very time that became a cursor.
MissesOnlyTies ==
    walk.pc = "done" =>
        \A j \in initial \ seen : row[j].created \in cursors

\* The walk ends, however many jobs are created meanwhile.
WalkEnds == walk.pc = "listing" ~> walk.pc = "done"
=============================================================================
