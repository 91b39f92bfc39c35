SPECIFICATION FairDeliverySpec
CONSTANTS
    j1 = j1
    j2 = j2
    e1 = e1
    e2 = e2
    Jobs = {j1, j2}
    Workers = {w1}
    Endpoints = {e1, e2}
    EndpointOf <- OwnEndpoint
    Handled = {j1, j2}
    BadPayloads = {}
    Ladder <- OneRung
    MaxAttempts <- AttemptsOfLadder
    Delays = {0}
    BatchSize = 2
    LeaseTimeout = 2
    HandlerTime = 1
    Overdue = 1
    MaxFaults = 1
INVARIANTS CompletedMeansAccepted DuplicatesAreExplained LockstepWithoutFaults PendingCanBeClaimed
PROPERTIES DeliveriesSettle
CHECK_DEADLOCK FALSE
