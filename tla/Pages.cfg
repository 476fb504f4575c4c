SPECIFICATION Spec
CONSTANTS
    Item = {1, 2, 3, 4}
    Author = {a1, a2}
    MaxTime = 2
    Limit = 1
    Extra = 1
    MaxLen = 3
    MaxChange <- MCMaxChange
INVARIANTS
    TypeOK
    NothingSkipped
PROPERTY Implements
CHECK_DEADLOCK FALSE
