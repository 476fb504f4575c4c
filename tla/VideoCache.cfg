SPECIFICATION Spec
CONSTANTS
    Reader = {r1}
    Op = {o1, o2}
    Worker = {w1}
    TTL = 1
    MaxStale = 0
    MissTTL = 1
    Delay = 1
    MaxVer = 1
    MaxFaults = 1
SYMMETRY Symmetry
INVARIANTS
    TypeOK
    BoundedExposure
    BoundedMiss
    HitIsCurrent
CHECK_DEADLOCK FALSE
