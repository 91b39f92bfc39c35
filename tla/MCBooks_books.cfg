SPECIFICATION Spec
CONSTANTS
    m1 = m1
    p1 = p1
    p2 = p2
    Nil = Nil
    Payments = {p1, p2}
    Owner <- TwoOwners
    Price <- TwoPrices
    RefundOf <- TwoRefunds
    Hands = {x1, x2}
    HandLines <- Scribbles
    Currencies = {"INR", "USD"}
    MaxMinor = 10000
    MaxFaults = 1
SYMMETRY HandSymmetry
INVARIANTS TrialBalance PostingsSucceed AccountsAreShared BooksMatchPostings
CHECK_DEADLOCK FALSE
