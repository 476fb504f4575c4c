SPECIFICATION Spec
CONSTANTS
    Source = {s1, s2}
    Worker = {w1, w2}
    Minutes = 2
    M = 2
    Delay = 1
    Skew = 1
    MaxTime = 5
    MaxEvents = 2
SYMMETRY Symmetry
INVARIANTS
    TypeOK
    CountsOncePerWindow
    KeptForTheWindow
    MarkEndsWithWindow
    PageLagsAMinute
CHECK_DEADLOCK FALSE
