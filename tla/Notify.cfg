SPECIFICATION Spec
CONSTANTS
    Actor = {a1, a2}
    Bucket = {b1, b2}
    Worker = {w1, w2}
    MaxEvents = 3
    MaxFaults = 1
SYMMETRY Symmetry
INVARIANTS
    TypeOK
    ActorCountedOnce
    DetailIsShown
    DetailsGoWithThreads
CHECK_DEADLOCK FALSE
