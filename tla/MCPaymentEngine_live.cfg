SPECIFICATION FairSpec
CONSTANTS
    Merchants = {m1, m2}
    Orders = {o1}
    Payments = {p1, p2}
    Endpoints = {e1}
    Tasks = {t1, t2}
    Currencies = {"INR"}
    Amounts = {100}
    RefundAmounts = {}
    Wants <- WantsPaid
    Owner <- OneOwner
    Nil = Nil
INVARIANTS TenantsIsolated
PROPERTIES RequestsFinish
