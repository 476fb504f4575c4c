SPECIFICATION Spec
CONSTANTS
    Comment = {c1, c2, c3}
    Req = {r1, r2}
    MaxLikes = 2
    MaxFaults = 1
SYMMETRY Symmetry
INVARIANTS
    TypeOK
    CountsDriftDown
    RepliesKeepTheirThread
    LikesGoWithComments
CHECK_DEADLOCK FALSE
