SPECIFICATION Spec
CONSTANTS
    Reader = {r1, r2}
    Op = {o1, o2}
    Worker = {w1}
    TTL = 1
    MaxStale = 1
    MissTTL = 1
    Delay = 1
    MaxVer = 1
    MaxFaults = 0
SYMMETRY Symmetry
INVARIANT JoinersShareTheResult
CHECK_DEADLOCK FALSE
