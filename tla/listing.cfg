SPECIFICATION FairSpec
CONSTANTS
    j1 = j1  j2 = j2  j3 = j3  j4 = j4
    Jobs = {j1, j2, j3, j4}
    Limit = 2
    MaxTime = 4
INVARIANTS ListingTypeOK NoJobTwice MissesOnlyTies
PROPERTIES WalkEnds
CHECK_DEADLOCK FALSE
