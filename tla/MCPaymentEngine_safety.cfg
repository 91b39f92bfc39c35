SPECIFICATION Spec
CONSTANTS
    Merchants = {m1}
    Orders = {o1, o2}
    Payments = {p1, p2}
    Endpoints = {}
    Tasks = {t1, t2}
    Currencies = {"INR"}
    Amounts = {99, 105, 150}
    RefundAmounts = {0, 70}
    Wants <- WantsAllOrRefunds
    Owner <- OneOwner
    Nil = Nil
SYMMETRY TaskAndPaymentSymmetry
INVARIANTS ViewsAreCurrent OneCapturePerOrder RefundsWithinPayment LedgerReconciles
    OutboxMatchesTables RowsSatisfySchema NoDeadlock
PROPERTIES ImplementsCollection RowsMoveForward
