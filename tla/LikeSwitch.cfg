SPECIFICATION FairSpec
CONSTANTS
    User = {u1, u2}
    Req = {r1, r2}
    Worker = {w1, w2}
    MaxSwitch = 2
    MaxFaults = 1
INVARIANTS
    TypeOK
    RowsFollowSet
    CountFollowsSet
    CleanupIsComplete
PROPERTY TablesConverge
CHECK_DEADLOCK FALSE
