SPECIFICATION Spec
CONSTANTS
    j1 = j1  j2 = j2  j3 = j3
    main = main  dev = dev
    c1 = c1  c2 = c2  c3 = c3
    d1 = d1  d2 = d2  d3 = d3
    h1 = h1  h2 = h2  h3 = h3
    w1 = w1  w2 = w2
    Null = Null
    Jobs = {j1, j2, j3}
    Branches = {main, dev}
    LockKeys = {main, dev}
    LockOf <- OwnLock
    Commits = {c1, c2, c3}
    Deliveries = {d1, d2, d3}
    Anonymous = {d2}
    Handlers = {h1, h2, h3}
    Workers = {w1}
    BranchOf <- TwoBranches
    CommitOf <- OwnCommit
    TimeoutAge = 0
    MaxAttempts = 1
    MaxRequests = 3
    PollMode = FALSE
    Faults = {}
SYMMETRY Symmetry
INVARIANTS TypeOK AtMostOneQueued QueuedCarriesLatest QueuedJobsHaveTasks
PROPERTIES CommitFixedAfterQueue 
CHECK_DEADLOCK FALSE
