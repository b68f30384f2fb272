SPECIFICATION FairDeliverySpec
CONSTANTS
    main = main
    c1 = c1
    k1 = k1  k2 = k2
    Null = Null
    NoKey = NoKey
    Jobs = {j}
    Branches = {main}
    LockKeys = {main}
    LockOf <- OwnLock
    Commits = {c1}
    Deliveries = {d}
    Anonymous = {}
    Handlers = {h}
    Workers = {w}
    BranchOf <- MainOnly
    CommitOf <- OneCommit
    TimeoutAge = 4
    MaxAttempts = 3
    MaxRequests = 1
    PollMode = FALSE
    Faults = {"network", "worker"}
    Keys = {k1, k2}
    TTL = 6
    Plans <- MCPlans
    Settle = 7
    RequestTimeout = 3
    Backlog = 4
    Backoff = 1
    MaxKills = 2
INVARIANTS DeliveryTypeOK TokensHonoured 
PROPERTIES WatchdogSparesFirstAttempt ImplementsJobSystem 
