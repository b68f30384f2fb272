SPECIFICATION Spec
CONSTANTS
    j1 = j1  j2 = j2  j3 = j3
    c1 = c1  c2 = c2  c3 = c3  c4 = c4
    Null = Null
    Jobs = {j1, j2}
    Commits = {c1, c2, c3, c4}
    CommitOf <- OwnCommit
    Tips <- FixedTips
    Limits = {2}
INVARIANTS SnapshotIsOfItsCommit
CHECK_DEADLOCK FALSE
