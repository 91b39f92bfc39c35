SPECIFICATION Spec
CONSTANTS
    Requests = {r1, r2}
    Hashes = {k1, k2, x1}
    Issued = {k1, k2}
    TTL = 2
    Capacity = 2
    TouchInterval = 3
    LookupTimeout = 1
    Never = Never
    MaxTime = 3
SYMMETRY RequestAndKeySymmetry
INVARIANTS RevocationPropagates RejectionsAreTrue CacheIsBounded
PROPERTIES TouchesAreSpaced
