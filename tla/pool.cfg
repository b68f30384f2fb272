SPECIFICATION FairSpec
CONSTANTS
    j1 = j1  j2 = j2  j3 = j3
    c1 = c1  c2 = c2  c3 = c3  c4 = c4
    Null = Null
    Jobs = {j1, j2, j3}
    Commits = {c1, c2, c3, c4}
    CommitOf <- OwnCommit
    Tips <- MovingTip
    Limits = {1, 2}
INVARIANTS PoolTypeOK ConcurrencyBounded DrainedMeansDone AbandonsOnlyUnfinished 
PROPERTIES WorkerStops ImplementsPool
CHECK_DEADLOCK FALSE
