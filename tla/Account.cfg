SPECIFICATION AccountSpec
CONSTANTS
    User = {u1}
    Author = author
    Req = {r1, r2}
    Worker = {w1}
    MaxSwitch = 2
    MaxFaults = 1
    MaxRuns = 1
    Tab = {t1, t2}
    MaxToken = 3
    MaxEdits = 2
    Listener = {l1, l2}
    MaxAsks = 2
    MaxTries = 2
SYMMETRY Symmetry
INVARIANTS
    TypeOK
    DirectionsAgree
    WishKept
    RowsFollowWish
    CountsFollowSets
    PartsTypeOK
    SessionEnds
    StoredIsLive
    CopiesSettle
    AvatarIsStored
    FilesFollowRow
    CountFollowsVideo
    DoneIsPublished
CHECK_DEADLOCK FALSE
