SPECIFICATION Spec
CONSTANTS
    Rows = {r1, r2, r3, r4, r5}
    Times = {1, 2, 3, 4}
    MaxPageSize = 2
    DefaultPageSize = 1
    MaxListLimit = 4
    Limits = {NoLimit, 0, 1, 2, 3}
    NoLimit = NoLimit
    PerRequest = 2
SYMMETRY RowSymmetry
INVARIANTS NothingTwice WalkIsComplete
