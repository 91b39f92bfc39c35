SPECIFICATION FairSpec
CONSTANTS
    r1 = r1
    r2 = r2
    r3 = r3
    r4 = r4
    r5 = r5
    k1 = k1
    k2 = k2
    p1 = p1
    p2 = p2
    Requests <- Sent
    Keys = {k1, k2}
    Prints = {p1, p2}
    KeyOf <- SentKey
    PrintOf <- SentPrint
    Large = {r4, r5}
    None = None
    MaxFaults = 2
INVARIANTS KeyHasOneHolder ChargesAreExplained AnswersAreTrue
PROPERTIES KeysSettle
CHECK_DEADLOCK FALSE
