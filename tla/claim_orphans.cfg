SPECIFICATION FairSpec
CONSTANTS
    j1 = j1  j2 = j2  j3 = j3
    main = main  dev = dev
    c1 = c1  c2 = c2  c3 = c3
    d1 = d1  d2 = d2  d3 = d3
    h1 = h1  h2 = h2  h3 = h3
    w1 = w1  w2 = w2
    Null = Null
    Jobs = {j1, j2}
    Branches = {main}
    LockKeys = {main}
    LockOf <- OwnLock
    Commits = {c1, c2}
    Deliveries = {d1, d2}
    Anonymous = {}
    Handlers = {h1, h2}
    Workers = {w1}
    BranchOf <- MainOnly
    CommitOf <- OwnCommit
    TimeoutAge = 1
    MaxAttempts = 1
    MaxRequests = 2
    PollMode = FALSE
    Faults = {"enqueue"}
PROPERTIES OrphansAreCaught
CHECK_DEADLOCK FALSE
