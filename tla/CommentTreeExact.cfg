SPECIFICATION Spec
CONSTANTS
    Comment = {c1, c2, c3}
    Req = {r1, r2}
    MaxLikes = 1
    MaxFaults = 0
SYMMETRY Symmetry
INVARIANT CommentCountIsExact
CHECK_DEADLOCK FALSE
