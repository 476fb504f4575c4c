SPECIFICATION Spec
CONSTANTS
    User = {u1, u2}
    Video = {v1}
    Req = {r1, r2}
    Worker = {w1, w2}
    Big = 2
    MaxSwitch = 3
    MaxFaults = 1
SYMMETRY Symmetry
INVARIANTS
    TypeOK
    IndexComplete
CHECK_DEADLOCK FALSE
