SPECIFICATION Spec
CONSTANTS
    Jobs = {j1, j2, j3}
    Workers = {w1, w2}
    Handled = {j1, j3}
    BadPayloads = {j3}
    Ladder <- OneRung
    MaxAttempts <- AttemptsOfLadder
    Delays = {0}
    BatchSize = 2
    LeaseTimeout = 1
    HandlerTime = 2
    Overdue = 0
    MaxFaults = 1
SYMMETRY WorkerSymmetry
INVARIANTS ClaimsAreExclusive RunsAreCounted
PROPERTIES EndedIsFinal
CHECK_DEADLOCK FALSE
