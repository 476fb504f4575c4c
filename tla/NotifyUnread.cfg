SPECIFICATION Spec
CONSTANTS
    Actor = {a1, a2}
    Bucket = {b1}
    Worker = {w1}
    MaxEvents = 2
    MaxFaults = 0
SYMMETRY Symmetry
INVARIANT CleanupKeepsUnread
CHECK_DEADLOCK FALSE
