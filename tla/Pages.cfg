SPECIFICATION Spec
CONSTANTS
    Ids = {1, 2, 3, 4}
    Users = {u1, u2}
    Limits = {0, 1, 9}
    DefaultPageSize = 2
    MaxPageSize = 3
INVARIANTS
    TypeOK
    WalkComplete
    ListedInOrder
PROPERTY
    WalkAdvances
