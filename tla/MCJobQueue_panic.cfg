SPECIFICATION FairSpec
CONSTANTS
    Jobs = {j1, j2}
    Workers = {w1}
    Handled = {j1, j2}
    BadPayloads = {j1}
    Ladder <- OneRung
    MaxAttempts <- AttemptsOfLadder
    Delays = {0}
    BatchSize = 2
    LeaseTimeout = 2
    HandlerTime = 1
    Overdue = 1
    MaxFaults = 0
PROPERTIES GoodJobsSettle
CHECK_DEADLOCK FALSE
