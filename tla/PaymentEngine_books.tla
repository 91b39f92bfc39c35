------------------------ MODULE PaymentEngine_books -------------------------
(***************************************************************************)
(* What the steps of the engine do, for every number of orders, payments   *)
(* and requests: what one step may do to the rows (RowsMoveForward), that  *)
(* the rows it leaves pass the checks of the schema (RowsSatisfySchema),   *)
(* and that it is a step of Collection or a stutter                        *)
(* (ImplementsCollection).                                                 *)
(*                                                                         *)
(* Then that the books follow from the rows (LedgerReconciles), for every  *)
(* amount and every way of slicing a refund: the fee that goes back is the *)
(* difference of two rounded shares, so the slices telescope.  And that    *)
(* the outbox announces what the tables say (OutboxMatchesTables) and      *)
(* nothing crosses a tenant (TenantsIsolated): both rest on what a commit  *)
(* tells of the payment it writes (Tells).                                 *)
(***************************************************************************)
EXTENDS PaymentEngine_proofs

-----------------------------------------------------------------------------
(* The money of an order changes in four ways. *)

Places(o, row) ==
    /\ orders[o] = Nil /\ row \in OrderRow /\ row.amount \in Amounts /\ row.amount >= 100
    /\ row.status = "created" /\ row.amount_paid = 0
    /\ orders' = [orders EXCEPT ![o] = row]
    /\ UNCHANGED <<payments, refundTotal, ledger>>

\* The terms of a new payment are those of its order.
HasTermsOf(row, o) ==
    /\ row.order = o /\ row.merchant = orders[o].merchant
    /\ row.amount = orders[o].amount /\ row.currency = orders[o].currency

Attempts(o, p, row) ==
    /\ orders[o] # Nil /\ orders[o].status # "paid" /\ payments[p] = Nil
    /\ row \in PaymentRow /\ HasTermsOf(row, o)
    /\ row.status \notin {"captured", "refunded"} /\ row.amount_refunded = 0 /\ ~row.captured_at
    /\ row.status = "failed" => row.error_code
    /\ orders' = [orders EXCEPT ![o] = [@ EXCEPT !.status = "attempted"]]
    /\ payments' = [payments EXCEPT ![p] = row]
    /\ UNCHANGED <<refundTotal, ledger>>

Collects(o, p, row) ==
    /\ orders[o] # Nil /\ orders[o].status # "paid"
    /\ row \in PaymentRow /\ row.status = "captured" /\ row.order = o
    /\ row.amount_refunded = 0 /\ row.captured_at /\ refundTotal[p] = 0
    /\ \/ payments[p] = Nil /\ HasTermsOf(row, o)
       \/ /\ payments[p] # Nil /\ payments[p].status = "authorized"
          /\ row = MarkCaptured(payments[p])
    /\ orders' = [orders EXCEPT ![o] = MarkPaid(@, row.amount)]
    /\ payments' = [payments EXCEPT ![p] = row]
    /\ ledger' = [ledger EXCEPT ![p] = Captured(@, row)]
    /\ UNCHANGED refundTotal

Returns(p, new_total) ==
    /\ payments[p] # Nil /\ payments[p].status = "captured" /\ new_total \in Nat
    /\ refundTotal[p] < new_total /\ new_total <= payments[p].amount
    /\ payments' = [payments EXCEPT ![p] = Refunded(@, new_total)]
    /\ refundTotal' = [refundTotal EXCEPT ![p] = new_total]
    /\ ledger' = [ledger EXCEPT ![p] = PostRefund(@, payments[p].merchant, new_total - refundTotal[p],
          FeeRefund(payments[p].amount, payments[p].currency, refundTotal[p], new_total))]
    /\ UNCHANGED orders

MoneyMoves ==
    \/ UNCHANGED <<orders, payments, refundTotal, ledger>>
    \/ \E o \in Orders, row \in OrderRow : Places(o, row)
    \/ \E o \in Orders, p \in Payments, row \in PaymentRow : Attempts(o, p, row) \/ Collects(o, p, row)
    \/ \E p \in Payments, new_total \in Nat : Returns(p, new_total)

\* A new order.
LEMMA CreateOrderMoves ==
    ASSUME Inv, NEW o \in Orders, NEW m \in Merchants, NEW amount \in Amounts,
           NEW currency \in Currencies, CreateOrder(o, m, amount, currency)
    PROVE  MoneyMoves
<1> DEFINE row == [status |-> "created", merchant |-> m, amount |-> amount,
                   currency |-> currency, amount_paid |-> 0]
<1>1. amount >= 100 /\ amount \in Nat
  BY ConstantsAssumption DEF CreateOrder, MIN_AMOUNT_MINOR
<1>2. row \in OrderRow
  BY <1>1 DEF OrderRow, OrderStatus
<1>3. Places(o, row)
  BY <1>1, <1>2 DEF CreateOrder, InsertOrder, Places
<1> QED BY <1>2, <1>3 DEF MoneyMoves

\* The COMMIT of a create is an attempt that collects or one that does not.
LEMMA CommitCreateMoves ==
    ASSUME Inv, NEW t \in Tasks, NEW p \in Payments, CommitCreate(t, p)
    PROVE  MoneyMoves
<1> DEFINE r == req[t]
           o == r.order
           order == view[t].order
           row == Attempted(NewAttempt(o, order), r.outcome)
<1>1. pc[t] = "commit" /\ r.op = "create" /\ TypeOK /\ ViewsAreCurrent
  BY DEF CommitCreate, InsertPayment, UpdateOrder, InsertEvents, Inv
<1>2. r \in CreateRequest /\ order \in OrderRow /\ o \in Orders /\ r.outcome \in Outcomes
  BY <1>1, RowsInView DEF Idle, Reached, CreateRequest
<1>3. orders[o] = order /\ order # Nil /\ order.status # "paid"
  BY <1>1 DEF ViewsAreCurrent, ViewIsCurrent, CreateView, HoldsOrder, TargetOrder, Fetched,
              CreateMayProceed, IsTerminal, Idle, Reached
<1>4. row \in PaymentRow
  BY <1>2, AttemptedType
<1>5. /\ HasTermsOf(row, o) /\ row.amount_refunded = 0
      /\ Settles(r.outcome) => row.status = "captured" /\ row.captured_at
      /\ ~Settles(r.outcome) => /\ row.status \notin {"captured", "refunded"} /\ ~row.captured_at
                                /\ row.status = "failed" => row.error_code
  BY <1>2, <1>3 DEF Attempted, NewAttempt, MarkCaptured, Settles, Outcomes, HasTermsOf
<1>6. /\ payments[p] = Nil /\ refundTotal' = refundTotal
      /\ payments' = [payments EXCEPT ![p] = row]
      /\ orders' = [orders EXCEPT ![o] =
            IF Settles(r.outcome) THEN MarkPaid([order EXCEPT !.status = "attempted"], row.amount)
                                  ELSE [order EXCEPT !.status = "attempted"]]
      /\ ledger' = IF Settles(r.outcome) THEN [ledger EXCEPT ![p] = Captured(@, row)] ELSE ledger
  BY DEF CommitCreate, InsertPayment, UpdateOrder, InsertEvents
<1> HIDE DEF row
<1>7. MarkPaid([order EXCEPT !.status = "attempted"], row.amount) = MarkPaid(order, row.amount)
  BY <1>2 DEF MarkPaid, OrderRow
<1>8. refundTotal[p] = 0 /\ row.order = o
  BY <1>5, <1>6 DEF Inv, MoneySafe, RowsSound, HasTermsOf
<1>9. CASE Settles(r.outcome)
  <2>1. orders' = [orders EXCEPT ![o] = MarkPaid(@, row.amount)]
    BY <1>3, <1>6, <1>7, <1>9
  <2>2. Collects(o, p, row)
    BY <1>3, <1>4, <1>5, <1>6, <1>8, <1>9, <2>1 DEF Collects
  <2> QED BY <1>2, <1>4, <2>2 DEF MoneyMoves
<1>10. CASE ~Settles(r.outcome)
  <2>1. orders' = [orders EXCEPT ![o] = [@ EXCEPT !.status = "attempted"]]
    BY <1>3, <1>6, <1>10
  <2>2. Attempts(o, p, row)
    BY <1>3, <1>4, <1>5, <1>6, <1>10, <2>1 DEF Attempts
  <2> QED BY <1>2, <1>4, <2>2 DEF MoneyMoves
<1> QED BY <1>9, <1>10

\* The COMMIT of a capture collects with the payment that was authorized.
LEMMA CommitCaptureMoves ==
    ASSUME Inv, NEW t \in Tasks, CommitCapture(t)
    PROVE  MoneyMoves
<1> DEFINE p == req[t].payment
           before == view[t].payment
           row == MarkCaptured(before)
           o == before.order
<1>1. pc[t] = "commit" /\ req[t].op = "capture" /\ TypeOK /\ ViewsAreCurrent
  BY DEF CommitCapture, UpdatePayment, UpdateOrder, InsertEvents, Inv
<1>2. /\ p \in Payments /\ before \in PaymentRow /\ view[t].order \in OrderRow
      /\ o \in Orders
  BY <1>1, RowsInView DEF Idle, Reached, CaptureRequest, PaymentRow
<1>3. CaptureView(t) /\ TargetOrder(t) = o
  BY <1>1 DEF ViewsAreCurrent, ViewIsCurrent, Idle, TargetOrder
<1>4. payments[p] = before /\ before # Nil /\ before.status = "authorized"
  BY <1>1, <1>3 DEF CaptureView, Reached, HoldsPayment, CaptureMayProceed, Fetched, IsCapturable
<1>5. orders[o] = view[t].order /\ orders[o] # Nil /\ orders[o].status # "paid"
  BY <1>1, <1>3 DEF CaptureView, Reached, HoldsOrder, CanSettle, OrderMoves, Fetched
<1>6. refundTotal[p] = 0 /\ before.amount_refunded = 0
  <2>1. /\ refundTotal[p] = before.amount_refunded /\ refundTotal[p] \in Nat
        /\ refundTotal[p] > 0 => Settled(p)
    BY <1>2, <1>4 DEF Inv, MoneySafe, RefundsWithinPayment, TypeOK, TablesTyped
  <2> QED BY <1>4, <2>1 DEF Settled
<1>7. /\ row \in PaymentRow /\ row.status = "captured" /\ row.order = o
      /\ row.captured_at /\ row.amount_refunded = 0
  BY <1>2, <1>6 DEF MarkCaptured, PaymentRow, PaymentStatus
<1>8. /\ payments' = [payments EXCEPT ![p] = row] /\ refundTotal' = refundTotal
      /\ orders' = [orders EXCEPT ![o] = MarkPaid(view[t].order, row.amount)]
      /\ ledger' = [ledger EXCEPT ![p] = Captured(@, row)]
  BY <1>7 DEF CommitCapture, UpdatePayment, UpdateOrder, InsertEvents
<1>9. row = MarkCaptured(payments[p])
  BY <1>4
<1> HIDE DEF row, before, o, p
<1>10. orders' = [orders EXCEPT ![o] = MarkPaid(@, row.amount)]
  BY <1>5, <1>8
<1>11. Collects(o, p, row)
  BY <1>4, <1>5, <1>6, <1>7, <1>8, <1>9, <1>10 DEF Collects
<1> QED BY <1>2, <1>7, <1>11 DEF MoneyMoves

\* The COMMIT of a refund returns money of a captured payment.
LEMMA CommitRefundMoves ==
    ASSUME Inv, NEW t \in Tasks, CommitRefund(t)
    PROVE  MoneyMoves
<1> DEFINE p == req[t].payment
           before == view[t].payment
           amount == view[t].amount
           new_total == view[t].refunded + amount
<1>1. pc[t] = "commit" /\ req[t].op = "refund" /\ TypeOK /\ ViewsAreCurrent
  BY DEF CommitRefund, InsertRefund, UpdatePayment, InsertEvents, Inv
<1>2. p \in Payments /\ before \in PaymentRow /\ before.amount \in Nat
  BY <1>1, RowsInView DEF Idle, Reached, RefundRequest, PaymentRow
<1>3. /\ payments[p] = before /\ before # Nil /\ before.status \in {"captured", "refunded"}
      /\ view[t].refunded = refundTotal[p]
      /\ RefundAllowed(amount, before.amount - view[t].refunded)
      /\ before.merchant = req[t].merchant
  BY <1>1 DEF ViewsAreCurrent, ViewIsCurrent, RefundView, HoldsPayment,
              Fetched, RefundMayProceed, Idle, Reached
<1>4. /\ amount \in Nat /\ refundTotal[p] \in Nat /\ new_total \in Nat
      /\ refundTotal[p] < new_total /\ new_total <= before.amount
      /\ new_total - refundTotal[p] = amount
  <2>1. amount \in Nat /\ refundTotal[p] \in Nat
    BY <1>2 DEF Inv, TypeOK, TablesTyped, RequestsTyped, View
  <2> HIDE DEF amount
  <2> QED BY <1>2, <1>3, <2>1 DEF RefundAllowed
<1>5. before.status = "captured"
  BY <1>2, <1>3, <1>4 DEF Inv, MoneySafe, RefundsWithinPayment
<1>6. /\ payments' = [payments EXCEPT ![p] = Refunded(@, new_total)]
      /\ refundTotal' = [refundTotal EXCEPT ![p] = new_total]
      /\ orders' = orders
      /\ ledger' = [ledger EXCEPT ![p] = PostRefund(@, payments[p].merchant, amount,
            FeeRefund(payments[p].amount, payments[p].currency, refundTotal[p], new_total))]
  BY <1>3 DEF CommitRefund, InsertRefund, UpdatePayment, InsertEvents
<1> HIDE DEF new_total, before, amount, p
<1>7. Returns(p, new_total)
  BY <1>3, <1>4, <1>5, <1>6 DEF Returns
<1> QED BY <1>2, <1>4, <1>7 DEF MoneyMoves

\* Every step of the engine is one of the four, or leaves the money alone.
LEMMA StepMovesMoney ==
    ASSUME Inv, [Next]_vars
    PROVE  MoneyMoves
<1>1. ASSUME NEW t \in Tasks, Arrive(t) \/ LockPayment(t) \/ LockOrder(t) \/ SumRefunds(t)
                              \/ FindOrCreateAccount(t) \/ Abort(t)
      PROVE  MoneyMoves
  BY <1>1 DEF Arrive, BeginCreate, BeginCapture, BeginRefund, Begin, LockPayment, LockOrder,
              SumRefunds, FindOrCreateAccount, Abort, Rollback, tables, MoneyMoves
<1>2. ASSUME NEW e \in Endpoints, RegisterEndpoint(e) \/ DisableEndpoint(e)
      PROVE  MoneyMoves
  BY <1>2 DEF RegisterEndpoint, DisableEndpoint, tables, MoneyMoves
<1>3. CASE UNCHANGED vars
  BY <1>3 DEF vars, tables, MoneyMoves
<1> QED BY <1>1, <1>2, <1>3, CreateOrderMoves, CommitCreateMoves, CommitCaptureMoves,
           CommitRefundMoves DEF Next, Step
-----------------------------------------------------------------------------
(* Rows. *)

\* What one step leaves of an order, and of a payment.
OrderKept(o) ==
    /\ orders'[o] # Nil /\ orders'[o].amount = orders[o].amount
    /\ orders'[o].merchant = orders[o].merchant /\ orders'[o].currency = orders[o].currency
    /\ orders[o].status = "paid" => orders'[o] = orders[o]
PaymentKept(p) ==
    /\ payments'[p] # Nil /\ payments'[p].order = payments[p].order
    /\ payments'[p].merchant = payments[p].merchant
    /\ payments'[p].amount = payments[p].amount /\ payments'[p].currency = payments[p].currency
    /\ Follows(PaymentMoves, payments[p].status, payments'[p].status)
    /\ payments'[p].amount_refunded >= payments[p].amount_refunded

\* Rows are never lost, and change only forward.
LEMMA MovesKeepRows ==
    ASSUME Inv, MoneyMoves
    PROVE  /\ \A o \in Orders : orders[o] # Nil => OrderKept(o)
           /\ \A p \in Payments : payments[p] # Nil => PaymentKept(p)
<1> USE DEF Follows
<1>1. /\ \A o \in Orders : orders[o] # Nil => orders[o] \in OrderRow
      /\ \A p \in Payments : payments[p] # Nil => payments[p] \in PaymentRow
      /\ orders \in [Orders -> OrderRow \cup {Nil}]
      /\ payments \in [Payments -> PaymentRow \cup {Nil}]
      /\ Nil \notin OrderRow /\ Nil \notin PaymentRow
  BY ConstantsAssumption DEF Inv, TypeOK, TablesTyped
<1>2. \A row \in PaymentRow : row.amount_refunded >= row.amount_refunded
  BY DEF PaymentRow
<1>3. CASE UNCHANGED <<orders, payments, refundTotal, ledger>>
  BY <1>1, <1>2, <1>3 DEF OrderKept, PaymentKept
<1>4. ASSUME NEW o \in Orders, NEW row \in OrderRow, Places(o, row)
      PROVE  /\ \A x \in Orders : orders[x] # Nil => OrderKept(x)
             /\ \A p \in Payments : payments[p] # Nil => PaymentKept(p)
  BY <1>1, <1>2, <1>4 DEF Places, OrderKept, PaymentKept
<1>5. ASSUME NEW o \in Orders, NEW p \in Payments, NEW row \in PaymentRow, Attempts(o, p, row)
      PROVE  /\ \A x \in Orders : orders[x] # Nil => OrderKept(x)
             /\ \A q \in Payments : payments[q] # Nil => PaymentKept(q)
  <2>1. [orders[o] EXCEPT !.status = "attempted"] \in OrderRow
    BY <1>1, <1>5 DEF Attempts, OrderRow, OrderStatus
  <2>2. \A x \in Orders : orders[x] # Nil => OrderKept(x)
    BY <1>1, <1>5, <2>1 DEF Attempts, OrderKept, OrderRow
  <2>3. \A q \in Payments : payments[q] # Nil => PaymentKept(q)
    BY <1>1, <1>2, <1>5 DEF Attempts, PaymentKept
  <2> QED BY <2>2, <2>3
<1>6. ASSUME NEW o \in Orders, NEW p \in Payments, NEW row \in PaymentRow, Collects(o, p, row)
      PROVE  /\ \A x \in Orders : orders[x] # Nil => OrderKept(x)
             /\ \A q \in Payments : payments[q] # Nil => PaymentKept(q)
  <2>1. MarkPaid(orders[o], row.amount) \in OrderRow
    <3>1. orders[o] \in OrderRow
      BY <1>1, <1>6 DEF Collects
    <3>2. row.amount \in Nat
      BY DEF PaymentRow
    <3>3. "paid" \in OrderStatus
      BY DEF OrderStatus
    <3> QED BY <3>1, <3>2, <3>3 DEF MarkPaid, OrderRow
  <2>2. /\ orders'[o] = MarkPaid(orders[o], row.amount) /\ orders[o] \in OrderRow
        /\ orders[o].status # "paid" /\ \A x \in Orders : x # o => orders'[x] = orders[x]
    BY <1>1, <1>6 DEF Collects
  <2>3. OrderKept(o)
    BY <1>1, <2>1, <2>2 DEF MarkPaid, OrderKept, OrderRow
  <2>4. \A x \in Orders : orders[x] # Nil => OrderKept(x)
    BY <2>2, <2>3 DEF OrderKept
  <2>5. ASSUME payments[p] # Nil
        PROVE  PaymentKept(p)
    <3>1. /\ payments[p] \in PaymentRow /\ payments[p].status = "authorized"
          /\ payments'[p] = row /\ row = MarkCaptured(payments[p]) /\ row # Nil
      BY <1>1, <1>6, <2>5 DEF Collects
    <3>2. row.order = payments[p].order /\ row.merchant = payments[p].merchant
          /\ row.amount = payments[p].amount /\ row.currency = payments[p].currency
          /\ row.amount_refunded = payments[p].amount_refunded /\ row.status = "captured"
      BY <3>1 DEF MarkCaptured, PaymentRow
    <3>3. <<"authorized", "captured">> \in PaymentMoves
      BY DEF PaymentMoves
    <3> QED BY <1>2, <3>1, <3>2, <3>3 DEF PaymentKept
  <2>6. \A q \in Payments : q # p => payments'[q] = payments[q]
    BY <1>1, <1>6 DEF Collects
  <2>7. ASSUME NEW q \in Payments, payments[q] # Nil, q # p
        PROVE  PaymentKept(q)
    BY <1>1, <1>2, <2>6, <2>7 DEF PaymentKept
  <2> QED BY <2>4, <2>5, <2>7
<1>7. ASSUME NEW p \in Payments, NEW new_total \in Nat, Returns(p, new_total)
      PROVE  /\ \A x \in Orders : orders[x] # Nil => OrderKept(x)
             /\ \A q \in Payments : payments[q] # Nil => PaymentKept(q)
  <2>1. /\ payments[p] \in PaymentRow /\ payments'[p] = Refunded(payments[p], new_total)
        /\ orders' = orders /\ payments[p].status = "captured"
        /\ \A q \in Payments : q # p => payments'[q] = payments[q]
    BY <1>1, <1>7 DEF Returns
  <2>2. payments'[p] \in PaymentRow
    BY <2>1 DEF Refunded, PaymentRow, PaymentStatus
  <2>3. payments[p].amount_refunded = refundTotal[p] /\ refundTotal[p] \in Nat
    BY <1>1, <1>7 DEF Returns, Inv, MoneySafe, RefundsWithinPayment, TypeOK, TablesTyped
  <2>4. /\ payments'[p].order = payments[p].order /\ payments'[p].merchant = payments[p].merchant
        /\ payments'[p].amount = payments[p].amount
        /\ payments'[p].currency = payments[p].currency
        /\ payments'[p].amount_refunded = new_total
        /\ payments'[p].status \in {"captured", "refunded"}
    BY <2>1 DEF Refunded, PaymentRow
  <2>5. <<"captured", "refunded">> \in PaymentMoves
    BY DEF PaymentMoves
  <2>6. new_total >= refundTotal[p]
    BY <1>7, <2>3 DEF Returns
  <2>7. PaymentKept(p)
    BY <1>1, <2>1, <2>2, <2>3, <2>4, <2>5, <2>6 DEF PaymentKept
  <2>8. \A q \in Payments : payments[q] # Nil /\ q # p => PaymentKept(q)
    BY <1>1, <1>2, <2>1 DEF PaymentKept
  <2> QED BY <2>1, <2>7, <2>8 DEF OrderKept
<1> QED BY <1>3, <1>4, <1>5, <1>6, <1>7 DEF MoneyMoves

\* A committed payment only moves along the published state machine, its
\* identity never changes and its refunds only grow; a paid order never changes.
THEOREM RowsMove == Spec => RowsMoveForward
<1>1. ASSUME Inv, [Next]_vars
      PROVE  /\ \A p \in Payments : payments[p] # Nil =>
                   /\ payments'[p] # Nil
                   /\ Follows(PaymentMoves, payments[p].status, payments'[p].status)
                   /\ payments'[p].order = payments[p].order
                   /\ payments'[p].amount = payments[p].amount
                   /\ payments'[p].amount_refunded >= payments[p].amount_refunded
             /\ \A o \in Orders : orders[o] # Nil /\ orders[o].status = "paid"
                   => orders'[o] = orders[o]
  BY <1>1, StepMovesMoney, MovesKeepRows DEF OrderKept, PaymentKept
<1> QED BY <1>1, Invariance, PTL DEF Spec, RowsMoveForward
-----------------------------------------------------------------------------
(* Terms and constraints. *)

\* A payment has the merchant, amount and currency of its order.
PaymentTerms == \A p \in Payments : payments[p] # Nil =>
    orders[payments[p].order] # Nil /\ HasTermsOf(payments[p], payments[p].order)

MoneyInv == Inv /\ PaymentTerms /\ RowsSatisfySchema

\* A step keeps the terms: the new payments have them and no row changes its own.
LEMMA TermsStep ==
    ASSUME Inv, PaymentTerms, MoneyMoves
    PROVE  PaymentTerms'
<1>1. /\ \A o \in Orders : orders[o] # Nil => OrderKept(o)
      /\ \A p \in Payments : payments[p] # Nil => PaymentKept(p)
  BY MovesKeepRows
<1>2. \A p \in Payments : payments[p] # Nil => payments[p].order \in Orders
  BY DEF Inv, TypeOK, TablesTyped, PaymentRow
<1>3. payments \in [Payments -> PaymentRow \cup {Nil}]
  BY DEF Inv, TypeOK, TablesTyped
<1> SUFFICES ASSUME NEW p \in Payments, payments'[p] # Nil
             PROVE  /\ orders'[payments'[p].order] # Nil
                    /\ HasTermsOf(payments[p], payments[p].order)'
  BY DEF PaymentTerms
<1>4. CASE payments[p] # Nil
  BY <1>1, <1>2, <1>4 DEF PaymentTerms, OrderKept, PaymentKept, HasTermsOf
<1>5. CASE payments[p] = Nil
  <2>1. PICK o \in Orders, row \in PaymentRow :
           /\ payments'[p] = row /\ HasTermsOf(row, o) /\ orders[o] # Nil
    BY <1>3, <1>5 DEF MoneyMoves, Places, Attempts, Collects, Returns
  <2> QED BY <1>1, <2>1 DEF HasTermsOf, OrderKept
<1> QED BY <1>4, <1>5

\* A step keeps the CHECK constraints of orders.
LEMMA OrdersSchemaStep ==
    ASSUME MoneyInv, MoneyMoves, NEW x \in Orders, orders'[x] # Nil
    PROVE  orders'[x].amount >= 100 /\ orders'[x].amount_paid \in 0..orders'[x].amount
<1>1. /\ orders \in [Orders -> OrderRow \cup {Nil}]
      /\ payments \in [Payments -> PaymentRow \cup {Nil}]
      /\ \A o \in Orders : orders[o] # Nil =>
            /\ orders[o] \in OrderRow
            /\ orders[o].amount >= 100 /\ orders[o].amount_paid \in 0..orders[o].amount
  BY DEF MoneyInv, Inv, TypeOK, TablesTyped, RowsSatisfySchema
<1>2. CASE UNCHANGED <<orders, payments, refundTotal, ledger>>
  BY <1>1, <1>2
<1>3. ASSUME NEW o \in Orders, NEW row \in OrderRow, Places(o, row)
      PROVE  orders'[x].amount >= 100 /\ orders'[x].amount_paid \in 0..orders'[x].amount
  <2>1. row.amount \in Nat
    BY DEF OrderRow
  <2> QED BY <1>1, <1>3, <2>1 DEF Places
<1>4. ASSUME NEW o \in Orders, NEW p \in Payments, NEW row \in PaymentRow, Attempts(o, p, row)
      PROVE  orders'[x].amount >= 100 /\ orders'[x].amount_paid \in 0..orders'[x].amount
  BY <1>1, <1>4 DEF Attempts, OrderRow
<1>5. ASSUME NEW o \in Orders, NEW p \in Payments, NEW row \in PaymentRow, Collects(o, p, row)
      PROVE  orders'[x].amount >= 100 /\ orders'[x].amount_paid \in 0..orders'[x].amount
  <2>1. row.amount = orders[o].amount /\ row.amount \in Nat
    <3>1. CASE payments[p] = Nil
      BY <1>5, <3>1 DEF Collects, HasTermsOf, PaymentRow
    <3>2. CASE payments[p] # Nil
      <4>1. payments[p] \in PaymentRow /\ row = MarkCaptured(payments[p])
        BY <1>1, <1>5, <3>2 DEF Collects
      <4>2. row.amount = payments[p].amount /\ row.order = payments[p].order
        BY <4>1 DEF MarkCaptured, PaymentRow
      <4> QED BY <1>5, <3>2, <4>2 DEF MoneyInv, PaymentTerms, HasTermsOf, Collects, PaymentRow
    <3> QED BY <3>1, <3>2
  <2>2. /\ orders[o] \in OrderRow /\ orders[o].amount >= 100
        /\ orders'[o] = MarkPaid(orders[o], row.amount)
        /\ \A y \in Orders : y # o => orders'[y] = orders[y]
    BY <1>1, <1>5 DEF Collects
  <2>3. orders'[o].amount = orders[o].amount /\ orders'[o].amount_paid = row.amount
    BY <2>2 DEF MarkPaid, OrderRow
  <2> QED BY <1>1, <2>1, <2>2, <2>3
<1>6. ASSUME NEW p \in Payments, NEW new_total \in Nat, Returns(p, new_total)
      PROVE  orders'[x].amount >= 100 /\ orders'[x].amount_paid \in 0..orders'[x].amount
  BY <1>1, <1>6 DEF Returns
<1> QED BY <1>2, <1>3, <1>4, <1>5, <1>6 DEF MoneyMoves

PaymentFits(row) ==
    /\ row.amount_refunded \in 0..row.amount
    /\ row.captured_at <=> row.status \in {"captured", "refunded"}
    /\ row.status = "failed" => row.error_code

\* A step keeps the CHECK constraints of payments.
LEMMA PaymentsSchemaStep ==
    ASSUME MoneyInv, MoneyMoves, NEW x \in Payments, payments'[x] # Nil
    PROVE  PaymentFits(payments'[x])
<1>1. /\ payments \in [Payments -> PaymentRow \cup {Nil}]
      /\ \A p \in Payments : payments[p] # Nil =>
            payments[p] \in PaymentRow /\ PaymentFits(payments[p])
  BY DEF MoneyInv, Inv, TypeOK, TablesTyped, RowsSatisfySchema, PaymentFits
<1>2. CASE payments' = payments
  BY <1>1, <1>2
<1>3. ASSUME NEW o \in Orders, NEW p \in Payments, NEW row \in PaymentRow,
             Attempts(o, p, row) \/ Collects(o, p, row)
      PROVE  PaymentFits(payments'[x])
  <2>1. payments'[p] = row /\ \A q \in Payments : q # p => payments'[q] = payments[q]
    BY <1>1, <1>3 DEF Attempts, Collects
  <2>2. row.amount \in Nat /\ row.amount_refunded = 0
    BY <1>3 DEF Attempts, Collects, PaymentRow
  <2>3. /\ row.captured_at <=> row.status \in {"captured", "refunded"}
        /\ row.status = "failed" => row.error_code
    BY <1>3 DEF Attempts, Collects
  <2>4. PaymentFits(row)
    BY <2>2, <2>3 DEF PaymentFits
  <2> QED BY <1>1, <2>1, <2>4
<1>4. ASSUME NEW p \in Payments, NEW new_total \in Nat, Returns(p, new_total)
      PROVE  PaymentFits(payments'[x])
  <2>1. /\ payments'[p] = Refunded(payments[p], new_total) /\ payments[p] \in PaymentRow
        /\ PaymentFits(payments[p]) /\ payments[p].status = "captured"
        /\ new_total <= payments[p].amount
        /\ \A q \in Payments : q # p => payments'[q] = payments[q]
    BY <1>1, <1>4 DEF Returns
  <2>2. /\ payments'[p].amount = payments[p].amount /\ payments[p].amount \in Nat
        /\ payments'[p].amount_refunded = new_total
        /\ payments'[p].captured_at = payments[p].captured_at
        /\ payments'[p].status \in {"captured", "refunded"}
    BY <2>1 DEF Refunded, PaymentRow
  <2>3. PaymentFits(payments'[p])
    BY <2>1, <2>2 DEF PaymentFits
  <2> QED BY <1>1, <2>1, <2>3
<1> QED BY <1>2, <1>3, <1>4 DEF MoneyMoves, Places

\* The money of the engine with the terms and the constraints of its rows.
THEOREM MoneyInvariance == Spec => []MoneyInv
<1>1. Init => MoneyInv
  BY InitTyped, InitMoney DEF Init, Inv, MoneyInv, PaymentTerms, RowsSatisfySchema
<1>2. ASSUME MoneyInv, [Next]_vars
      PROVE  MoneyInv'
  <2>1. Inv /\ PaymentTerms /\ MoneyMoves
    BY <1>2, StepMovesMoney DEF MoneyInv
  <2>2. Inv' /\ PaymentTerms'
    BY <1>2, <2>1, TypeStep, ViewsStep, MoneyStep, TermsStep DEF Inv
  <2>3. RowsSatisfySchema'
    BY <1>2, <2>1, OrdersSchemaStep, PaymentsSchemaStep DEF RowsSatisfySchema, PaymentFits
  <2> QED BY <2>2, <2>3 DEF MoneyInv
<1> QED BY <1>1, <1>2, PTL DEF Spec

\* The rows the code writes satisfy the CHECK constraints of their tables, so no
\* commit fails on one.
THEOREM SchemaHolds == Spec => []RowsSatisfySchema
<1>1. MoneyInv => RowsSatisfySchema
  BY DEF MoneyInv
<1> QED BY <1>1, MoneyInvariance, PTL
-----------------------------------------------------------------------------
(* The engine implements Collection. *)

\* An order is collected by one payment at most, and what it gave back is what
\* that payment refunded.
LEMMA CollectedBy ==
    ASSUME MoneySafe, NEW o \in Orders, NEW p \in Payments, Settled(p), payments[p].order = o
    PROVE  PaymentsOf(o) = {p} /\ Returned[o] = refundTotal[p]
<1>1. PaymentsOf(o) = {p}
  BY DEF MoneySafe, OneCapturePerOrder, PaymentsOf
<1>2. (CHOOSE q \in PaymentsOf(o) : TRUE) = p
  BY <1>1
<1> QED BY <1>1, <1>2 DEF Returned

\* Who has collected an order, and what went back, follow from two tables.
LEMMA CollectedFrame ==
    ASSUME NEW o \in Orders,
           \A p \in Payments : (Settled(p) /\ payments[p].order = o)
                                 <=> (Settled(p)' /\ payments'[p].order = o),
           \A p \in Payments : Settled(p) /\ payments[p].order = o => refundTotal'[p] = refundTotal[p]
    PROVE  Collected'[o] = Collected[o] /\ Returned'[o] = Returned[o]
<1>1. PaymentsOf(o)' = PaymentsOf(o)
  BY DEF PaymentsOf
<1>2. PaymentsOf(o) # {} => (CHOOSE p \in PaymentsOf(o) : TRUE) \in PaymentsOf(o)
  OBVIOUS
<1>3. \A p \in PaymentsOf(o) : refundTotal'[p] = refundTotal[p]
  BY DEF PaymentsOf
<1> QED BY <1>1, <1>2, <1>3 DEF Collected, Returned

\* A new order is placed.
LEMMA PlacesIsPlace ==
    ASSUME MoneyInv, NEW o \in Orders, NEW row \in OrderRow, Places(o, row)
    PROVE  Promise!Next
<1>1. /\ orders \in [Orders -> OrderRow \cup {Nil}] /\ row # Nil
      /\ orders' = [orders EXCEPT ![o] = row] /\ orders[o] = Nil
      /\ payments' = payments /\ refundTotal' = refundTotal
      /\ row.amount \in Amounts /\ row.amount > 0
  <2>1. row.amount \in Nat
    BY DEF OrderRow
  <2> QED BY <2>1, ConstantsAssumption DEF Places, MoneyInv, Inv, TypeOK, TablesTyped
<1>2. Due[o] = 0 /\ Due' = [Due EXCEPT ![o] = row.amount]
  BY <1>1 DEF Due
<1>3. Collected' = Collected /\ Returned' = Returned
  BY <1>1 DEF Collected, Returned, PaymentsOf, Settled
<1>4. Promise!Place(o, row.amount)
  BY <1>1, <1>2, <1>3 DEF Promise!Place
<1> QED BY <1>1, <1>4 DEF Promise!Next

\* An attempt that does not collect changes nothing that Collection shows.
LEMMA AttemptsIsStutter ==
    ASSUME MoneyInv, NEW o \in Orders, NEW p \in Payments, NEW row \in PaymentRow,
           Attempts(o, p, row)
    PROVE  UNCHANGED <<Due, Collected, Returned>>
<1>1. /\ \A q \in Payments : q # p => payments'[q] = payments[q]
      /\ payments[p] = Nil /\ payments'[p] = row /\ row.status \notin {"captured", "refunded"}
      /\ refundTotal' = refundTotal
  BY DEF Attempts, MoneyInv, Inv, TypeOK, TablesTyped
<1>2. \A q \in Payments : (Settled(q)' <=> Settled(q))
                          /\ (Settled(q) => payments'[q] = payments[q])
  BY <1>1 DEF Settled
<1>3. \A x \in Orders : Collected'[x] = Collected[x] /\ Returned'[x] = Returned[x]
  BY <1>1, <1>2, CollectedFrame
<1>4. Collected' = Collected /\ Returned' = Returned
  BY <1>3 DEF Collected, Returned
<1>5. Due' = Due
  <2>1. /\ orders[o] \in OrderRow /\ orders[o] # Nil
        /\ orders' = [orders EXCEPT ![o] = [@ EXCEPT !.status = "attempted"]]
        /\ orders \in [Orders -> OrderRow \cup {Nil}]
    BY DEF Attempts, MoneyInv, Inv, TypeOK, TablesTyped
  <2>2. orders'[o].amount = orders[o].amount /\ orders'[o] \in OrderRow
    BY <2>1 DEF OrderRow, OrderStatus
  <2>3. Nil \notin OrderRow
    BY ConstantsAssumption
  <2> QED BY <2>1, <2>2, <2>3 DEF Due
<1> QED BY <1>4, <1>5

\* A capture collects the order.
LEMMA CollectsIsCollect ==
    ASSUME MoneyInv, MoneyInv', NEW o \in Orders, NEW p \in Payments, NEW row \in PaymentRow,
           Collects(o, p, row)
    PROVE  Promise!Next
<1>1. /\ \A q \in Payments : q # p => payments'[q] = payments[q]
      /\ payments'[p] = row /\ row.status = "captured" /\ row.order = o /\ row # Nil
      /\ payments[p] # Nil => payments[p].status = "authorized"
      /\ orders[o] # Nil /\ orders[o].status # "paid"
      /\ refundTotal' = refundTotal /\ refundTotal[p] = 0
  BY ConstantsAssumption DEF Collects, MoneyInv, Inv, TypeOK, TablesTyped
<1>2. ~Settled(p) /\ Settled(p)'
  BY <1>1 DEF Settled
<1>3. \A q \in Payments : q # p => /\ Settled(q)' <=> Settled(q)
                                   /\ payments'[q] = payments[q]
  BY <1>1 DEF Settled
<1>4. PaymentsOf(o) = {} /\ \A x \in Orders : p \notin PaymentsOf(x)
  BY <1>1, <1>2 DEF PaymentsOf, MoneyInv, Inv, MoneySafe, OneCapturePerOrder
<1>5. PaymentsOf(o)' = {p} /\ Returned'[o] = refundTotal'[p]
  <2>1. MoneySafe' /\ payments'[p].order = o
    BY <1>1 DEF MoneyInv, Inv
  <2>2. PaymentsOf(o)' = {p}
    BY <1>2, <2>1 DEF MoneySafe, OneCapturePerOrder, PaymentsOf
  <2>3. (CHOOSE q \in PaymentsOf(o)' : TRUE) = p
    BY <2>2
  <2> QED BY <2>2, <2>3 DEF Returned
<1>6. \A x \in Orders : x # o => Collected'[x] = Collected[x] /\ Returned'[x] = Returned[x]
  BY <1>1, <1>2, <1>3, CollectedFrame
<1>7. Collected[o] = {} /\ Collected'[o] = {p} /\ Returned[o] = 0 /\ Returned'[o] = 0
  BY <1>1, <1>4, <1>5 DEF Collected, Returned
<1>8. Collected' = [Collected EXCEPT ![o] = {p}] /\ Returned' = Returned
  BY <1>6, <1>7 DEF Collected, Returned
<1>9. Due[o] > 0 /\ Due' = Due
  <2>1. /\ orders[o] \in OrderRow /\ orders[o].amount > 0
        /\ orders' = [orders EXCEPT ![o] = MarkPaid(@, row.amount)]
        /\ orders \in [Orders -> OrderRow \cup {Nil}]
    BY <1>1 DEF Collects, MoneyInv, Inv, MoneySafe, RowsSound, TypeOK, TablesTyped
  <2>2. orders'[o].amount = orders[o].amount /\ orders'[o] # Nil
    <3>1. \A x \in Orders : orders[x] # Nil => OrderKept(x)
      BY MovesKeepRows DEF MoneyInv, MoneyMoves
    <3> QED BY <1>1, <3>1 DEF OrderKept
  <2> QED BY <1>1, <2>1, <2>2 DEF Due
<1>10. \A x \in Orders : p \notin Collected[x]
  BY <1>4 DEF Collected
<1>11. Promise!Collect(o, p)
  BY <1>7, <1>8, <1>9, <1>10 DEF Promise!Collect
<1> QED BY <1>11 DEF Promise!Next

\* A refund returns money of the order.
LEMMA ReturnsIsReturn ==
    ASSUME MoneyInv, MoneyInv', NEW p \in Payments, NEW new_total \in Nat, Returns(p, new_total)
    PROVE  Promise!Next
<1>1. /\ payments[p] \in PaymentRow /\ payments[p] # Nil /\ payments[p].status = "captured"
      /\ payments'[p] = Refunded(payments[p], new_total)
      /\ \A q \in Payments : q # p => payments'[q] = payments[q]
      /\ refundTotal[p] < new_total /\ new_total <= payments[p].amount
      /\ refundTotal'[p] = new_total /\ orders' = orders
      /\ \A q \in Payments : q # p => refundTotal'[q] = refundTotal[q]
  BY DEF Returns, MoneyInv, Inv, TypeOK, TablesTyped
<1>2. PICK o \in Orders : o = payments[p].order
  BY <1>1 DEF PaymentRow
<1>3. orders[o] # Nil /\ orders[o].amount = payments[p].amount
  BY <1>2, <1>1 DEF MoneyInv, PaymentTerms, HasTermsOf
<1>4. /\ Settled(p) /\ Settled(p)' /\ payments'[p].order = o
      /\ \A q \in Payments : q # p => (Settled(q)' <=> Settled(q))
  <2>1. PaymentKept(p)
    BY <1>1, MovesKeepRows DEF MoneyInv, MoneyMoves
  <2>2. payments'[p].status \in {"captured", "refunded"}
    BY <1>1 DEF Refunded, PaymentRow
  <2> QED BY <1>2, <1>1, <2>1, <2>2 DEF Settled, PaymentKept
<1>5. PaymentsOf(o) = {p} /\ Returned[o] = refundTotal[p]
  BY <1>2, <1>4, CollectedBy DEF MoneyInv, Inv
<1>6. PaymentsOf(o)' = {p} /\ Returned'[o] = new_total
  <2>1. PaymentsOf(o)' = {p}
    BY <1>3, <1>4 DEF MoneyInv, Inv, MoneySafe, OneCapturePerOrder, PaymentsOf
  <2>2. (CHOOSE q \in PaymentsOf(o)' : TRUE) = p
    BY <2>1
  <2>3. Returned'[o] = IF PaymentsOf(o)' = {} THEN 0
                       ELSE refundTotal'[CHOOSE q \in PaymentsOf(o)' : TRUE]
    BY <1>3 DEF Returned
  <2> QED BY <1>1, <2>1, <2>2, <2>3
<1>7. \A x \in Orders : x # o => Collected'[x] = Collected[x] /\ Returned'[x] = Returned[x]
  BY <1>2, <1>1, <1>4, CollectedFrame
<1>8. Collected' = Collected /\ Collected[o] # {}
  <2>1. Collected[o] = {p} /\ Collected'[o] = {p}
    BY <1>3, <1>5, <1>6 DEF Collected
  <2>2. /\ Collected = [x \in Orders |-> Collected[x]]
        /\ Collected' = [x \in Orders |-> Collected'[x]]
    BY DEF Collected
  <2> QED BY <1>7, <2>1, <2>2
<1>9. Returned' = [Returned EXCEPT ![o] = Returned'[o]]
  <2>1. /\ DOMAIN Returned = Orders
        /\ Returned = [x \in Orders |-> Returned[x]]
        /\ Returned' = [x \in Orders |-> Returned'[x]]
    BY DEF Returned
  <2> QED BY <1>3, <1>7, <2>1
<1>10. Due' = Due /\ Due[o] = payments[p].amount
  BY <1>1, <1>3 DEF Due
<1>11. Returned'[o] > Returned[o] /\ Returned'[o] <= Due[o]
  <2>1. refundTotal[p] \in Nat
    BY DEF MoneyInv, Inv, TypeOK, TablesTyped
  <2> QED BY <1>1, <1>5, <1>6, <1>10, <2>1
<1>12. Promise!Return(o)
  BY <1>8, <1>9, <1>10, <1>11 DEF Promise!Return
<1> QED BY <1>3, <1>12 DEF Promise!Next

\* What a merchant sees of an order's money is what Collection allows: placed,
\* collected once by one payment, and returned at most to the amount due.
THEOREM KeepsPromise == Spec => ImplementsCollection
<1>1. Init => Promise!Init
  <2> SUFFICES ASSUME Init PROVE Promise!Init
    OBVIOUS
  <2>1. \A o \in Orders : PaymentsOf(o) = {} /\ orders[o] = Nil
    BY DEF Init, PaymentsOf, Settled
  <2> QED BY <2>1 DEF Promise!Init, Due, Collected, Returned
<1>2. ASSUME MoneyInv, MoneyInv', [Next]_vars
      PROVE  [Promise!Next]_<<Due, Collected, Returned>>
  <2>1. MoneyMoves
    BY <1>2, StepMovesMoney DEF MoneyInv
  <2>2. CASE UNCHANGED <<orders, payments, refundTotal, ledger>>
    BY <2>2 DEF Due, Collected, Returned, PaymentsOf, Settled
  <2>3. ASSUME NEW o \in Orders, NEW p \in Payments, NEW row \in PaymentRow, Attempts(o, p, row)
        PROVE  UNCHANGED <<Due, Collected, Returned>>
    BY <1>2, <2>3, AttemptsIsStutter
  <2>4. ASSUME NEW o \in Orders, NEW p \in Payments, NEW row \in PaymentRow, Collects(o, p, row)
        PROVE  Promise!Next
    BY <1>2, <2>4, CollectsIsCollect
  <2>5. ASSUME NEW o \in Orders, NEW row \in OrderRow, Places(o, row)
        PROVE  Promise!Next
    BY <1>2, <2>5, PlacesIsPlace
  <2>6. ASSUME NEW p \in Payments, NEW new_total \in Nat, Returns(p, new_total)
        PROVE  Promise!Next
    BY <1>2, <2>6, ReturnsIsReturn
  <2> QED BY <2>1, <2>2, <2>3, <2>4, <2>5, <2>6 DEF MoneyMoves
<1> QED BY <1>1, <1>2, MoneyInvariance, PTL DEF Spec, ImplementsCollection, Promise!Spec

-----------------------------------------------------------------------------
(* The arithmetic of a share. *)

\* Division by a positive number: what is below it vanishes, multiples come
\* back, and the order stays.
LEMMA DivFacts ==
    ASSUME NEW d \in Nat, d > 0
    PROVE  /\ \A x \in 0..(d - 1) : x \div d = 0
           /\ \A c \in Int, x \in 0..(d - 1) : (c * d + x) \div d = c
           /\ \A x, y \in Int : x <= y => x \div d <= y \div d
<1>1. ASSUME NEW c \in Int, NEW x \in 0..(d - 1)
      PROVE  (c * d + x) \div d = c
  OBVIOUS
<1>2. ASSUME NEW x \in 0..(d - 1)
      PROVE  x \div d = 0
  OBVIOUS
<1>3. ASSUME NEW x \in Int, NEW y \in Int, x <= y
      PROVE  x \div d <= y \div d
  <2> DEFINE q == x \div d
             p == y \div d
  <2>1. q \in Int /\ p \in Int /\ d * q <= x /\ y < d * (p + 1)
    OBVIOUS
  <2> HIDE DEF q, p
  <2>2. ASSUME q > p PROVE FALSE
    <3>1. q - (p + 1) \in Nat
      BY <2>1, <2>2
    <3>2. d * (q - (p + 1)) \in Nat
      BY <3>1
    <3>3. d * q = d * (p + 1) + d * (q - (p + 1))
      BY <2>1
    <3>4. d * (p + 1) \in Int /\ d * q \in Int
      BY <2>1
    <3> QED BY <1>3, <2>1, <3>2, <3>3, <3>4
  <2> QED BY <2>1, <2>2 DEF q, p
<1> QED BY <1>1, <1>2, <1>3

\* Half of a positive number is below it.
LEMMA HalfFits == ASSUME NEW a \in Nat, a > 0 PROVE a \div 2 \in 0..(a - 1)
OBVIOUS

\* Nothing is owed at first, everything at last, and never less than before.
LEMMA OwedFacts ==
    ASSUME NEW c \in Nat, NEW a \in Nat, a > 0
    PROVE  /\ Owed(c, 0, a) = 0
           /\ Owed(c, a, a) = c
           /\ \A g \in Nat : Owed(c, g, a) \in Int
           /\ \A g, h \in Nat : g <= h => Owed(c, g, a) <= Owed(c, h, a)
<1> DEFINE half == a \div 2
<1>1. half \in 0..(a - 1)
  BY HalfFits
<1> HIDE DEF half
<1>2. \A g \in Nat : c * g \in Nat /\ Owed(c, g, a) = (c * g + half) \div a
  <2> TAKE g \in Nat
  <2>1. c * g \in Nat
    OBVIOUS
  <2> QED BY <2>1 DEF Owed, Percent, half
<1>3. Owed(c, 0, a) = 0
  BY <1>1, <1>2, DivFacts
<1>4. Owed(c, a, a) = c
  <2>1. (c * a + half) \div a = c
    BY <1>1, DivFacts
  <2> QED BY <1>2, <2>1
<1>5. \A g \in Nat : Owed(c, g, a) \in Int
  BY <1>1, <1>2
<1>6. ASSUME NEW g \in Nat, NEW h \in Nat, g <= h
      PROVE  Owed(c, g, a) <= Owed(c, h, a)
  <2>1. c * g <= c * h
    <3>1. h - g \in Nat /\ c * (h - g) \in Nat
      BY <1>6
    <3>2. c * h = c * g + c * (h - g)
      OBVIOUS
    <3> QED BY <1>2, <3>1, <3>2
  <2>2. c * g + half <= c * h + half
    BY <1>1, <1>2, <2>1
  <2>3. c * g + half \in Int /\ c * h + half \in Int
    BY <1>1, <1>2
  <2>4. (c * g + half) \div a <= (c * h + half) \div a
    BY <2>2, <2>3, DivFacts
  <2> QED BY <1>2, <2>4
<1> QED BY <1>3, <1>4, <1>5, <1>6
\* A fee is positive and its tax is not negative.
LEMMA FeeFacts ==
    ASSUME NEW amount \in Nat, NEW currency
    PROVE  FeeBase(amount, currency) \in Nat \ {0} /\ FeeTax(amount, currency) \in Nat
<1>1. ASSUME NEW m \in Nat, NEW n \in Nat, NEW d \in Nat, d > 0
      PROVE  Percent(m, n, d) \in Nat
  <2> DEFINE half == d \div 2
  <2>1. m * n \in Nat /\ half \in Nat
    BY <1>1
  <2>2. Percent(m, n, d) = (m * n + half) \div d
    BY <2>1 DEF Percent
  <2> HIDE DEF half
  <2>3. 0 <= m * n + half /\ m * n + half \in Int
    BY <2>1
  <2>4. 0 \div d = 0 /\ 0 \div d <= (m * n + half) \div d
    BY <1>1, <2>3, DivFacts
  <2>5. (m * n + half) \div d \in Int
    BY <1>1, <2>3
  <2> QED BY <2>2, <2>4, <2>5
<1> DEFINE schedule == ForCurrency(currency)
<1>2. /\ schedule.percent_bps \in Nat /\ schedule.fixed_minor \in Nat \ {0}
      /\ schedule.tax_percent \in Nat
  BY DEF ForCurrency
<1>3. FeeBase(amount, currency) \in Nat \ {0}
  <2>1. Percent(amount, schedule.percent_bps, 10000) \in Nat
    BY <1>1, <1>2
  <2> QED BY <1>2, <2>1 DEF FeeBase
<1>4. FeeTax(amount, currency) \in Nat
  BY <1>1, <1>2, <1>3 DEF FeeTax
<1> QED BY <1>3, <1>4

-----------------------------------------------------------------------------
(* Postings into the books of one merchant. *)

\* A position of merchant m: the four sums.
PositionOf(m, clearing, pending, revenue, tax) ==
    [clearing |-> clearing, pending |-> [k \in Merchants |-> IF k = m THEN pending ELSE 0],
     revenue |-> revenue, tax |-> tax]

\* A transaction adds its entries, account by account.
LEMMA PostAdds ==
    ASSUME NEW m \in Merchants, NEW c \in Int, NEW x \in Int, NEW r \in Int, NEW t \in Int,
           NEW e \in [clearing : Int, pending : Int, revenue : Int, tax : Int]
    PROVE  Post(PositionOf(m, c, x, r, t), m, e)
             = PositionOf(m, c + e.clearing, x + e.pending, r + e.revenue, t + e.tax)
<1> DEFINE pending == [k \in Merchants |-> IF k = m THEN x ELSE 0]
<1>1. [pending EXCEPT ![m] = @ + e.pending]
        = [k \in Merchants |-> IF k = m THEN x + e.pending ELSE 0]
  OBVIOUS
<1> QED BY <1>1 DEF Post, PositionOf

\* The books of a payment row once gone of its amount went back.
BooksAt(row, gone) ==
    LET kept(c) == c - Owed(c, gone, row.amount)
        revenue == kept(FeeBase(row.amount, row.currency))
        tax == kept(FeeTax(row.amount, row.currency))
    IN  PositionOf(row.merchant, gone - row.amount, row.amount - gone - revenue - tax, revenue, tax)

\* A capture opens the books of its payment.
LEMMA CaptureOpens ==
    ASSUME NEW row \in PaymentRow, row.amount > 0
    PROVE  Captured(NoPosition, row) = BooksAt(row, 0)
<1> DEFINE base == FeeBase(row.amount, row.currency)
           tax == FeeTax(row.amount, row.currency)
           m == row.merchant
<1>1. m \in Merchants /\ row.amount \in Nat
  BY DEF PaymentRow
<1>2. base \in Nat \ {0} /\ tax \in Nat
  BY <1>1, FeeFacts
<1>3. Captured(NoPosition, row) = PostCapture(NoPosition, m, row.amount, base, tax)
  BY DEF Captured
<1>4. BooksAt(row, 0) = PositionOf(m, -row.amount, row.amount - base - tax, base, tax)
  <2>1. Owed(base, 0, row.amount) = 0 /\ Owed(tax, 0, row.amount) = 0
    BY <1>1, <1>2, OwedFacts
  <2> HIDE DEF base, tax
  <2>2. /\ 0 - row.amount = -row.amount /\ base - 0 = base /\ tax - 0 = tax
        /\ row.amount - 0 - base - tax = row.amount - base - tax
    BY <1>1, <1>2
  <2> QED BY <2>1, <2>2 DEF BooksAt, base, tax
<1> HIDE DEF base, tax, m
<1>5. NoPosition = PositionOf(m, 0, 0, 0, 0)
  BY DEF NoPosition, PositionOf
<1>6. Post(NoPosition, m, CaptureEntries(row.amount)) = PositionOf(m, -row.amount, row.amount, 0, 0)
  <2>1. CaptureEntries(row.amount) \in [clearing : Int, pending : Int, revenue : Int, tax : Int]
    BY <1>1 DEF CaptureEntries
  <2>2. Post(NoPosition, m, CaptureEntries(row.amount))
          = PositionOf(m, 0 + -row.amount, 0 + row.amount, 0 + 0, 0 + 0)
    BY <1>1, <1>5, <2>1, PostAdds DEF CaptureEntries
  <2> QED BY <1>1, <2>2
<1>7. Post(PositionOf(m, -row.amount, row.amount, 0, 0), m, FeeChargedEntries(base, tax))
        = PositionOf(m, -row.amount, row.amount - base - tax, base, tax)
  <2>1. FeeChargedEntries(base, tax)
          = [clearing |-> 0, pending |-> -(base + tax), revenue |-> base, tax |-> tax]
    BY <1>2 DEF FeeChargedEntries, Posted
  <2>2. Post(PositionOf(m, -row.amount, row.amount, 0, 0), m, FeeChargedEntries(base, tax))
          = PositionOf(m, -row.amount + 0, row.amount + -(base + tax), 0 + base, 0 + tax)
    BY <1>1, <1>2, <2>1, PostAdds
  <2>3. /\ -row.amount + 0 = -row.amount /\ row.amount + -(base + tax) = row.amount - base - tax
        /\ 0 + base = base /\ 0 + tax = tax
    BY <1>1, <1>2
  <2> QED BY <2>2, <2>3
<1>8. base + tax > 0
  BY <1>2
<1> QED BY <1>3, <1>4, <1>6, <1>7, <1>8 DEF PostCapture

\* A refund takes the books from one running total to the next.
LEMMA RefundMovesOn ==
    ASSUME NEW row \in PaymentRow, row.amount > 0, NEW old \in Nat, NEW new \in Nat, old < new
    PROVE  PostRefund(BooksAt(row, old), row.merchant, new - old,
                      FeeRefund(row.amount, row.currency, old, new))
             = BooksAt(row, new)
<1> DEFINE base == FeeBase(row.amount, row.currency)
           tax == FeeTax(row.amount, row.currency)
           m == row.merchant
           owed(c, g) == Owed(c, g, row.amount)
           fee == FeeRefund(row.amount, row.currency, old, new)
           b == owed(base, new) - owed(base, old)
           x == owed(tax, new) - owed(tax, old)
<1>1. m \in Merchants /\ row.amount \in Nat
  BY DEF PaymentRow
<1>2. base \in Nat /\ tax \in Nat
  BY <1>1, FeeFacts
<1>3. /\ owed(base, old) \in Int /\ owed(base, new) \in Int /\ owed(base, old) <= owed(base, new)
      /\ owed(tax, old) \in Int /\ owed(tax, new) \in Int /\ owed(tax, old) <= owed(tax, new)
  <2> HIDE DEF base, tax
  <2>1. ASSUME NEW c \in Nat
        PROVE  owed(c, old) \in Int /\ owed(c, new) \in Int /\ owed(c, old) <= owed(c, new)
    BY <1>1, OwedFacts
  <2> QED BY <1>2, <2>1
<1>4. fee = [base |-> b, tax |-> x]
  BY DEF FeeRefund
<1>5. \A g \in {old, new} :
         BooksAt(row, g) = PositionOf(m, g - row.amount,
            row.amount - g - (base - owed(base, g)) - (tax - owed(tax, g)),
            base - owed(base, g), tax - owed(tax, g))
  BY DEF BooksAt
<1> HIDE DEF base, tax, m, owed, fee
<1>6. b \in Nat /\ x \in Nat
  BY <1>3
<1> DEFINE r == base - owed(base, old)
           t == tax - owed(tax, old)
<1>7. r \in Int /\ t \in Int /\ base - owed(base, new) = r - b /\ tax - owed(tax, new) = t - x
  BY <1>2, <1>3
<1>8. /\ BooksAt(row, old) = PositionOf(m, old - row.amount, row.amount - old - r - t, r, t)
      /\ BooksAt(row, new) = PositionOf(m, new - row.amount, row.amount - new - (r - b) - (t - x),
                                        r - b, t - x)
  BY <1>5, <1>7
<1> HIDE DEF r, t, b, x
<1> DEFINE refunded == PositionOf(m, new - row.amount, row.amount - new - r - t, r, t)
<1>9. Post(BooksAt(row, old), m, RefundEntries(new - old)) = refunded
  <2>1. RefundEntries(new - old) \in [clearing : Int, pending : Int, revenue : Int, tax : Int]
    BY DEF RefundEntries
  <2>2. Post(BooksAt(row, old), m, RefundEntries(new - old))
          = PositionOf(m, old - row.amount + (new - old),
                       row.amount - old - r - t + -(new - old), r + 0, t + 0)
    BY <1>1, <1>7, <1>8, <2>1, PostAdds DEF RefundEntries
  <2>3. /\ old - row.amount + (new - old) = new - row.amount
        /\ row.amount - old - r - t + -(new - old) = row.amount - new - r - t
        /\ r + 0 = r /\ t + 0 = t
    BY <1>1, <1>7
  <2> QED BY <2>2, <2>3
<1>10. Post(refunded, m, FeeRefundedEntries(fee)) = BooksAt(row, new)
  <2>1. FeeRefundedEntries(fee)
          = [clearing |-> 0, pending |-> b + x, revenue |-> -b, tax |-> -x]
    BY <1>4, <1>6 DEF FeeRefundedEntries, Posted
  <2>2. Post(refunded, m, FeeRefundedEntries(fee))
          = PositionOf(m, new - row.amount + 0, row.amount - new - r - t + (b + x), r + -b, t + -x)
    BY <1>1, <1>6, <1>7, <2>1, PostAdds
  <2>3. /\ new - row.amount + 0 = new - row.amount
        /\ row.amount - new - r - t + (b + x) = row.amount - new - (r - b) - (t - x)
        /\ r + -b = r - b /\ t + -x = t - x
    BY <1>1, <1>6, <1>7
  <2> QED BY <1>8, <2>2, <2>3
<1>11. CASE b = 0 /\ x = 0
  <2>1. refunded = BooksAt(row, new)
    <3>1. r - b = r /\ t - x = t /\ row.amount - new - (r - b) - (t - x) = row.amount - new - r - t
      BY <1>1, <1>7, <1>11
    <3> QED BY <1>8, <3>1
  <2>2. PostRefund(BooksAt(row, old), m, new - old, fee) = refunded
    BY <1>4, <1>9, <1>11 DEF PostRefund
  <2> QED BY <2>1, <2>2 DEF m, fee
<1>12. CASE ~(b = 0 /\ x = 0)
  <2>1. PostRefund(BooksAt(row, old), m, new - old, fee)
          = Post(refunded, m, FeeRefundedEntries(fee))
    BY <1>4, <1>9, <1>12 DEF PostRefund
  <2> QED BY <1>10, <2>1 DEF m, fee
<1> QED BY <1>11, <1>12

\* When everything went back, nothing is left in the books.
LEMMA RefundCloses ==
    ASSUME NEW row \in PaymentRow, row.amount > 0
    PROVE  BooksAt(row, row.amount) = NoPosition
<1> DEFINE base == FeeBase(row.amount, row.currency)
           tax == FeeTax(row.amount, row.currency)
<1>1. row.amount \in Nat
  BY DEF PaymentRow
<1>2. base \in Nat /\ tax \in Nat
  BY <1>1, FeeFacts
<1>3. Owed(base, row.amount, row.amount) = base /\ Owed(tax, row.amount, row.amount) = tax
  BY <1>1, <1>2, OwedFacts
<1> HIDE DEF base, tax
<1>4. /\ row.amount - row.amount = 0 /\ base - base = 0 /\ tax - tax = 0
      /\ row.amount - row.amount - 0 - 0 = 0
  BY <1>1, <1>2
<1>5. BooksAt(row, row.amount) = PositionOf(row.merchant, 0, 0, 0, 0)
  BY <1>3, <1>4 DEF BooksAt, base, tax
<1> QED BY <1>5 DEF PositionOf, NoPosition
-----------------------------------------------------------------------------
(* The invariant. *)

BooksInv == MoneyInv /\ LedgerReconciles

\* The books of a payment that has settled are those of its row.
LEMMA BooksFollowRow ==
    ASSUME NEW p \in Payments
    PROVE  BooksOf(p) = BooksAt(payments[p], refundTotal[p])
BY DEF BooksOf, BooksAt, PositionOf

BooksAreRows ==
    \A p \in Payments : ledger[p] = IF Settled(p) THEN BooksOf(p) ELSE NoPosition

\* So the second half of LedgerReconciles is a consequence of the first.
LEMMA ReconcilesIfBooks == MoneyInv /\ BooksAreRows => LedgerReconciles
<1> SUFFICES ASSUME MoneyInv, BooksAreRows,
                    NEW p \in Payments, Settled(p), payments[p].status = "refunded"
             PROVE  ledger[p] = NoPosition
  BY DEF LedgerReconciles, BooksAreRows
<1>1. payments[p] \in PaymentRow /\ payments[p].amount > 0 /\ refundTotal[p] = payments[p].amount
  BY DEF Settled, MoneyInv, Inv, TypeOK, TablesTyped, MoneySafe, RowsSound, RefundsWithinPayment
<1> QED BY <1>1, BooksFollowRow, RefundCloses DEF BooksAreRows

\* Every move keeps the books.
LEMMA BooksStep ==
    ASSUME BooksInv, MoneyMoves
    PROVE  \A q \in Payments :
              ledger'[q] = IF Settled(q)' THEN BooksAt(payments'[q], refundTotal'[q]) ELSE NoPosition
<1>1. /\ \A q \in Payments :
            ledger[q] = IF Settled(q) THEN BooksAt(payments[q], refundTotal[q]) ELSE NoPosition
      /\ payments \in [Payments -> PaymentRow \cup {Nil}] /\ refundTotal \in [Payments -> Nat]
      /\ ledger \in [Payments -> Position] /\ Nil \notin PaymentRow
  BY BooksFollowRow, ConstantsAssumption
     DEF BooksInv, LedgerReconciles, MoneyInv, Inv, TypeOK, TablesTyped
<1> SUFFICES ASSUME NEW q \in Payments
             PROVE  ledger'[q] = IF Settled(q)' THEN BooksAt(payments'[q], refundTotal'[q])
                                 ELSE NoPosition
  OBVIOUS
<1>2. ASSUME payments'[q] = payments[q], refundTotal'[q] = refundTotal[q], ledger'[q] = ledger[q]
      PROVE  ledger'[q] = IF Settled(q)' THEN BooksAt(payments'[q], refundTotal'[q]) ELSE NoPosition
  BY <1>1, <1>2 DEF Settled
<1>3. CASE UNCHANGED <<payments, refundTotal, ledger>>
  BY <1>2, <1>3
<1>4. ASSUME NEW o \in Orders, NEW p \in Payments, NEW row \in PaymentRow, Attempts(o, p, row)
      PROVE  ledger'[q] = IF Settled(q)' THEN BooksAt(payments'[q], refundTotal'[q]) ELSE NoPosition
  <2>1. CASE q # p
    BY <1>1, <1>2, <1>4, <2>1 DEF Attempts
  <2>2. CASE q = p
    BY <1>1, <1>4, <2>2 DEF Attempts, Settled
  <2> QED BY <2>1, <2>2
<1>5. ASSUME NEW o \in Orders, NEW p \in Payments, NEW row \in PaymentRow, Collects(o, p, row)
      PROVE  ledger'[q] = IF Settled(q)' THEN BooksAt(payments'[q], refundTotal'[q]) ELSE NoPosition
  <2>1. CASE q # p
    BY <1>1, <1>2, <1>5, <2>1 DEF Collects
  <2>2. CASE q = p
    <3>1. ~Settled(p) /\ Settled(p)' /\ payments'[p] = row /\ refundTotal'[p] = 0
      BY <1>1, <1>5 DEF Collects, Settled
    <3>2. ledger[p] = NoPosition /\ ledger'[p] = Captured(ledger[p], row)
      BY <1>1, <1>5, <3>1 DEF Collects
    <3>3. row.amount > 0
      <4>1. CASE payments[p] = Nil
        BY <1>5, <4>1 DEF Collects, HasTermsOf, BooksInv, MoneyInv, Inv, MoneySafe, RowsSound
      <4>2. CASE payments[p] # Nil
        <5>1. payments[p] \in PaymentRow /\ payments[p].amount > 0 /\ row = MarkCaptured(payments[p])
          BY <1>1, <1>5, <4>2 DEF Collects, BooksInv, MoneyInv, Inv, MoneySafe, RowsSound
        <5> QED BY <5>1 DEF MarkCaptured, PaymentRow
      <4> QED BY <4>1, <4>2
    <3> QED BY <2>2, <3>1, <3>2, <3>3, CaptureOpens
  <2> QED BY <2>1, <2>2
<1>6. ASSUME NEW p \in Payments, NEW new_total \in Nat, Returns(p, new_total)
      PROVE  ledger'[q] = IF Settled(q)' THEN BooksAt(payments'[q], refundTotal'[q]) ELSE NoPosition
  <2>1. CASE q # p
    BY <1>1, <1>2, <1>6, <2>1 DEF Returns
  <2>2. CASE q = p
    <3> DEFINE row == payments[p]
               old == refundTotal[p]
    <3>1. /\ row \in PaymentRow /\ row # Nil /\ row.amount > 0 /\ old \in Nat /\ old < new_total
          /\ row.status = "captured" /\ payments'[p] = Refunded(row, new_total)
          /\ refundTotal'[p] = new_total
          /\ ledger'[p] = PostRefund(ledger[p], row.merchant, new_total - old,
                                     FeeRefund(row.amount, row.currency, old, new_total))
      BY <1>1, <1>6 DEF Returns, BooksInv, MoneyInv, Inv, MoneySafe, RowsSound
    <3>2. ledger[p] = BooksAt(row, old)
      BY <1>1, <3>1 DEF Settled
    <3>3. Settled(p)' /\ payments'[p].amount = row.amount /\ payments'[p].merchant = row.merchant
          /\ payments'[p].currency = row.currency
      <4>1. PaymentKept(p)
        BY <1>6, <3>1, MovesKeepRows DEF BooksInv, MoneyInv, MoneyMoves
      <4>2. payments'[p].status \in {"captured", "refunded"}
        BY <3>1 DEF Refunded, PaymentRow
      <4> QED BY <4>1, <4>2 DEF PaymentKept, Settled
    <3>4. BooksAt(payments'[p], new_total) = BooksAt(row, new_total)
      BY <3>3 DEF BooksAt
    <3> HIDE DEF row, old
    <3>5. ledger'[p] = BooksAt(row, new_total)
      BY <3>1, <3>2, RefundMovesOn
    <3> QED BY <2>2, <3>1, <3>3, <3>4, <3>5
  <2> QED BY <2>1, <2>2
<1> QED BY <1>3, <1>4, <1>5, <1>6 DEF MoneyMoves, Places

\* What a payment contributed to the books is a function of its row alone, and a
\* fully refunded payment has left every account at zero.
THEOREM BooksFollow == Spec => []LedgerReconciles
<1>1. Init => BooksInv
  <2> SUFFICES ASSUME Init PROVE BooksInv
    OBVIOUS
  <2>1. MoneyInv
    BY InitTyped, InitMoney DEF Init, Inv, MoneyInv, PaymentTerms, RowsSatisfySchema
  <2> QED BY <2>1 DEF Init, BooksInv, LedgerReconciles, Settled
<1>2. MoneyInv /\ BooksInv /\ [Next]_vars => BooksAreRows'
  BY StepMovesMoney, BooksStep
     DEF BooksInv, MoneyInv, BooksAreRows, BooksOf, BooksAt, PositionOf
<1>3. BooksInv <=> MoneyInv /\ LedgerReconciles
  BY DEF BooksInv
<1> QED BY <1>1, <1>2, <1>3, ReconcilesIfBooks, MoneyInvariance, PTL DEF Spec
-----------------------------------------------------------------------------
(* The outbox. *)

\* A step tells of one payment at most: of an attempt, a capture or a refund.
Types(emitted) == {e.type : e \in emitted}
UsesAccount(p) == accounts' = accounts \cup {<<payments'[p].merchant, payments'[p].currency>>}

TellsAttempt(p, emitted) ==
    /\ payments[p] = Nil /\ payments'[p].status \notin {"captured", "refunded"}
    /\ Types(emitted) \subseteq {"payment.authorized", "payment.failed"}
    /\ "payment.failed" \in Types(emitted) <=> payments'[p].status = "failed"
    /\ payments'[p].status = "authorized" => "payment.authorized" \in Types(emitted)
    /\ UNCHANGED <<refundTotal, accounts>>
TellsCapture(p, emitted) ==
    /\ payments[p] = Nil \/ payments[p].status = "authorized"
    /\ payments'[p].status = "captured"
    /\ Types(emitted) = {"payment.captured", "order.paid"}
    /\ UNCHANGED refundTotal /\ UsesAccount(p)
TellsRefund(p, emitted) ==
    /\ payments[p] # Nil /\ payments[p].status = "captured"
    /\ payments'[p].status \in {"captured", "refunded"}
    /\ refundTotal'[p] \in Nat /\ refundTotal[p] < refundTotal'[p]
    /\ \A q \in Payments : q # p => refundTotal'[q] = refundTotal[q]
    /\ Types(emitted) = {"refund.processed"}
    /\ \A e \in emitted : e.total = refundTotal'[p]
    /\ UsesAccount(p)

\* The fan-out of the request is that of the payment's merchant.
Addressed(p, emitted, fanout) ==
    \A e \in emitted : e.payment = p /\ e.to = {x \in fanout : e.type \in Wants[x]}

Tells(t, p, emitted) ==
    /\ payments'[p] \in PaymentRow /\ ~Idle(t)
    /\ payments'[p].merchant = req[t].merchant /\ req[t].fanout \in SUBSET Endpoints
    /\ \A q \in Payments : q # p => payments'[q] = payments[q]
    /\ events' = events \cup emitted /\ Addressed(p, emitted, req[t].fanout)
    /\ TellsAttempt(p, emitted) \/ TellsCapture(p, emitted) \/ TellsRefund(p, emitted)
    /\ UNCHANGED endpoints

OutboxMoves ==
    \/ UNCHANGED <<payments, refundTotal, events, accounts>>
    \/ \E t \in Tasks, p \in Payments, emitted \in SUBSET events' : Tells(t, p, emitted)

\* What a settlement announces.
LEMMA SettleTypes ==
    ASSUME NEW p, NEW fanout
    PROVE  /\ Types(SettleEvents(p, fanout)) = {"payment.captured", "order.paid"}
           /\ Addressed(p, SettleEvents(p, fanout), fanout)
BY DEF Types, SettleEvents, Event, Addressed

\* What an attempt that does not settle announces.
LEMMA AttemptTypes ==
    ASSUME NEW p, NEW fanout, NEW outcome \in Outcomes, ~Settles(outcome)
    PROVE  LET emitted == AttemptEvents(p, outcome, fanout)
           IN  /\ Types(emitted) \subseteq {"payment.authorized", "payment.failed"}
               /\ "payment.failed" \in Types(emitted) <=> outcome = "decline"
               /\ outcome = "authorize" => "payment.authorized" \in Types(emitted)
               /\ Addressed(p, emitted, fanout)
<1>1. CASE outcome = "authorize"
  <2>1. AttemptEvents(p, outcome, fanout) = {Event("payment.authorized", p, 0, fanout)}
    BY <1>1 DEF AttemptEvents, Settles
  <2>2. /\ Types({Event("payment.authorized", p, 0, fanout)}) = {"payment.authorized"}
        /\ Addressed(p, {Event("payment.authorized", p, 0, fanout)}, fanout)
    BY DEF Types, Event, Addressed
  <2> QED BY <1>1, <2>1, <2>2
<1>2. CASE outcome = "decline"
  <2>1. AttemptEvents(p, outcome, fanout) = {Event("payment.failed", p, 0, fanout)}
    BY <1>2 DEF AttemptEvents, Settles
  <2>2. /\ Types({Event("payment.failed", p, 0, fanout)}) = {"payment.failed"}
        /\ Addressed(p, {Event("payment.failed", p, 0, fanout)}, fanout)
    BY DEF Types, Event, Addressed
  <2> QED BY <1>2, <2>1, <2>2
<1>3. CASE outcome \notin {"authorize", "decline"}
  <2>1. AttemptEvents(p, outcome, fanout) = {}
    BY <1>3 DEF AttemptEvents
  <2> QED BY <1>3, <2>1 DEF Types, Addressed
<1> QED BY <1>1, <1>2, <1>3

\* The COMMIT of a create tells of an attempt, and of its capture if it settles.
LEMMA CommitCreateTells ==
    ASSUME Inv, NEW t \in Tasks, NEW p \in Payments, CommitCreate(t, p)
    PROVE  OutboxMoves
<1> DEFINE r == req[t]
           order == view[t].order
           row == Attempted(NewAttempt(r.order, order), r.outcome)
           emitted == AttemptEvents(p, r.outcome, r.fanout)
<1>1. pc[t] = "commit" /\ r.op = "create" /\ TypeOK /\ ViewsAreCurrent
  BY DEF CommitCreate, InsertPayment, UpdateOrder, InsertEvents, Inv
<1>2. /\ r \in CreateRequest /\ order \in OrderRow /\ r.order \in Orders /\ r.outcome \in Outcomes
      /\ r.fanout \in SUBSET Endpoints /\ ~Idle(t)
  BY <1>1, RowsInView DEF Idle, Reached, CreateRequest
<1>3. order.merchant = r.merchant
  BY <1>1 DEF ViewsAreCurrent, ViewIsCurrent, CreateView, CreateMayProceed, Idle, Reached
<1>4. row \in PaymentRow
  BY <1>2, AttemptedType
<1>5. /\ row.merchant = order.merchant /\ row.currency = order.currency
      /\ Settles(r.outcome) => row.status = "captured"
      /\ ~Settles(r.outcome) =>
            /\ row.status \notin {"captured", "refunded"}
            /\ row.status = "failed" <=> r.outcome = "decline"
            /\ row.status = "authorized" <=> r.outcome = "authorize"
  BY <1>2 DEF Attempted, NewAttempt, MarkCaptured, Settles, Outcomes
<1>6. /\ payments[p] = Nil /\ UNCHANGED <<refundTotal, endpoints>>
      /\ payments' = [payments EXCEPT ![p] = row] /\ events' = events \cup emitted
      /\ accounts' = IF Settles(r.outcome) THEN accounts \cup {Account(t)} ELSE accounts
  BY DEF CommitCreate, InsertPayment, UpdateOrder, InsertEvents
<1>7. Account(t) = <<row.merchant, row.currency>>
  BY <1>1, <1>5 DEF Account
<1> HIDE DEF row
<1>8. payments'[p] = row /\ \A q \in Payments : q # p => payments'[q] = payments[q]
  BY <1>6 DEF Inv, TypeOK, TablesTyped
<1>9. emitted \in SUBSET events'
  BY <1>6
<1>10. CASE Settles(r.outcome)
  <2>1. emitted = SettleEvents(p, r.fanout)
    BY <1>10 DEF AttemptEvents, Settles
  <2>2. Types(emitted) = {"payment.captured", "order.paid"} /\ Addressed(p, emitted, r.fanout)
    BY <2>1, SettleTypes
  <2> HIDE DEF emitted
  <2>3. TellsCapture(p, emitted)
    BY <1>5, <1>6, <1>7, <1>8, <1>10, <2>2 DEF TellsCapture, UsesAccount
  <2>4. Tells(t, p, emitted)
    BY <1>2, <1>3, <1>4, <1>5, <1>6, <1>8, <2>2, <2>3 DEF Tells
  <2> QED BY <1>9, <2>4 DEF OutboxMoves
<1>11. CASE ~Settles(r.outcome)
  <2>1. /\ Types(emitted) \subseteq {"payment.authorized", "payment.failed"}
        /\ "payment.failed" \in Types(emitted) <=> r.outcome = "decline"
        /\ r.outcome = "authorize" => "payment.authorized" \in Types(emitted)
        /\ Addressed(p, emitted, r.fanout)
    BY <1>2, <1>11, AttemptTypes
  <2> HIDE DEF emitted
  <2>3. TellsAttempt(p, emitted)
    BY <1>5, <1>6, <1>8, <1>11, <2>1 DEF TellsAttempt
  <2>4. Tells(t, p, emitted)
    BY <1>2, <1>3, <1>4, <1>5, <1>6, <1>8, <2>1, <2>3 DEF Tells
  <2> QED BY <1>9, <2>4 DEF OutboxMoves
<1> QED BY <1>10, <1>11

\* The COMMIT of a capture tells of a capture.
LEMMA CommitCaptureTells ==
    ASSUME Inv, NEW t \in Tasks, CommitCapture(t)
    PROVE  OutboxMoves
<1> DEFINE r == req[t]
           p == r.payment
           before == view[t].payment
           row == MarkCaptured(before)
           emitted == SettleEvents(p, r.fanout)
<1>1. pc[t] = "commit" /\ r.op = "capture" /\ TypeOK /\ ViewsAreCurrent
  BY DEF CommitCapture, UpdatePayment, UpdateOrder, InsertEvents, Inv
<1>2. /\ p \in Payments /\ before \in PaymentRow /\ r.fanout \in SUBSET Endpoints /\ ~Idle(t)
  BY <1>1, RowsInView DEF Idle, Reached, CaptureRequest
<1>3. /\ payments[p] = before /\ before.status = "authorized" /\ before.merchant = r.merchant
  BY <1>1 DEF ViewsAreCurrent, ViewIsCurrent, CaptureView, Idle, Reached, HoldsPayment,
              CaptureMayProceed, IsCapturable
<1>4. /\ row \in PaymentRow /\ row.status = "captured" /\ row.merchant = before.merchant
      /\ row.currency = before.currency
  BY <1>2 DEF MarkCaptured, PaymentRow, PaymentStatus
<1>5. /\ UNCHANGED <<refundTotal, endpoints>>
      /\ payments' = [payments EXCEPT ![p] = row] /\ events' = events \cup emitted
      /\ accounts' = accounts \cup {Account(t)}
  BY DEF CommitCapture, UpdatePayment, UpdateOrder, InsertEvents
<1>6. Account(t) = <<row.merchant, row.currency>>
  BY <1>1, <1>4 DEF Account
<1>7. Types(emitted) = {"payment.captured", "order.paid"} /\ Addressed(p, emitted, r.fanout)
  BY SettleTypes
<1> HIDE DEF row, emitted, before
<1>8. payments'[p] = row /\ \A q \in Payments : q # p => payments'[q] = payments[q]
  BY <1>2, <1>5 DEF Inv, TypeOK, TablesTyped
<1>9. TellsCapture(p, emitted)
  BY <1>3, <1>4, <1>5, <1>6, <1>7, <1>8 DEF TellsCapture, UsesAccount
<1>10. Tells(t, p, emitted)
  BY <1>2, <1>3, <1>4, <1>5, <1>7, <1>8, <1>9 DEF Tells
<1> QED BY <1>2, <1>5, <1>10 DEF OutboxMoves

\* The COMMIT of a refund tells of a refund.
LEMMA CommitRefundTells ==
    ASSUME Inv, NEW t \in Tasks, CommitRefund(t)
    PROVE  OutboxMoves
<1> DEFINE r == req[t]
           p == r.payment
           before == view[t].payment
           amount == view[t].amount
           new_total == view[t].refunded + amount
           row == Refunded(before, new_total)
           emitted == {Event("refund.processed", p, new_total, r.fanout)}
<1>1. pc[t] = "commit" /\ r.op = "refund" /\ TypeOK /\ ViewsAreCurrent
  BY DEF CommitRefund, InsertRefund, UpdatePayment, InsertEvents, Inv
<1>2. /\ p \in Payments /\ before \in PaymentRow /\ before.amount \in Nat
      /\ r.fanout \in SUBSET Endpoints /\ ~Idle(t)
  BY <1>1, RowsInView DEF Idle, Reached, RefundRequest, PaymentRow
<1>3. /\ payments[p] = before /\ before # Nil /\ before.status \in {"captured", "refunded"}
      /\ view[t].refunded = refundTotal[p] /\ before.merchant = r.merchant
      /\ RefundAllowed(amount, before.amount - view[t].refunded)
  BY <1>1 DEF ViewsAreCurrent, ViewIsCurrent, RefundView, HoldsPayment,
              Fetched, RefundMayProceed, Idle, Reached
<1>4. /\ amount \in Nat /\ refundTotal[p] \in Nat /\ new_total \in Nat
      /\ refundTotal[p] < new_total /\ new_total <= before.amount
      /\ new_total = refundTotal[p] + amount
  <2>1. amount \in Nat /\ refundTotal[p] \in Nat
    BY <1>2 DEF Inv, TypeOK, TablesTyped, RequestsTyped, View
  <2> HIDE DEF amount
  <2> QED BY <1>2, <1>3, <2>1 DEF RefundAllowed
<1>5. before.status = "captured"
  BY <1>2, <1>3, <1>4 DEF Inv, MoneySafe, RefundsWithinPayment
<1>6. /\ row \in PaymentRow /\ row.status \in {"captured", "refunded"}
      /\ row.merchant = before.merchant /\ row.currency = before.currency
  BY <1>2, <1>4, <1>5 DEF Refunded, PaymentRow, PaymentStatus
<1>7. /\ UNCHANGED endpoints
      /\ payments' = [payments EXCEPT ![p] = row]
      /\ refundTotal' = [refundTotal EXCEPT ![p] = @ + amount]
      /\ events' = events \cup emitted /\ accounts' = accounts \cup {Account(t)}
  BY DEF CommitRefund, InsertRefund, UpdatePayment, InsertEvents
<1>8. Account(t) = <<row.merchant, row.currency>>
  BY <1>1, <1>3, <1>6 DEF Account
<1>9. Types(emitted) = {"refund.processed"} /\ Addressed(p, emitted, r.fanout)
      /\ \A e \in emitted : e.total = new_total
  BY DEF Types, Event, Addressed
<1> HIDE DEF row, emitted, before, amount, new_total
<1>10. payments'[p] = row /\ \A q \in Payments : q # p => payments'[q] = payments[q]
  BY <1>2, <1>7 DEF Inv, TypeOK, TablesTyped
<1>11. refundTotal'[p] = new_total /\ \A q \in Payments : q # p => refundTotal'[q] = refundTotal[q]
  BY <1>2, <1>4, <1>7 DEF Inv, TypeOK, TablesTyped
<1>12. TellsRefund(p, emitted)
  BY <1>3, <1>4, <1>5, <1>6, <1>7, <1>8, <1>9, <1>10, <1>11 DEF TellsRefund, UsesAccount
<1>13. Tells(t, p, emitted)
  BY <1>2, <1>3, <1>6, <1>7, <1>9, <1>10, <1>12 DEF Tells
<1> QED BY <1>2, <1>7, <1>13 DEF OutboxMoves

\* Every step tells of one payment or leaves the outbox and its subject alone.
LEMMA StepTells ==
    ASSUME Inv, [Next]_vars
    PROVE  OutboxMoves
<1>1. ASSUME NEW t \in Tasks, Arrive(t) \/ LockPayment(t) \/ LockOrder(t) \/ SumRefunds(t)
                              \/ FindOrCreateAccount(t) \/ Abort(t)
      PROVE  OutboxMoves
  BY <1>1 DEF Arrive, BeginCreate, BeginCapture, BeginRefund, Begin, LockPayment, LockOrder,
              SumRefunds, FindOrCreateAccount, Abort, Rollback, tables, OutboxMoves
<1>2. ASSUME NEW e \in Endpoints, RegisterEndpoint(e) \/ DisableEndpoint(e)
      PROVE  OutboxMoves
  BY <1>2 DEF RegisterEndpoint, DisableEndpoint, tables, OutboxMoves
<1>3. ASSUME NEW o \in Orders, NEW m \in Merchants, NEW amount \in Amounts,
             NEW currency \in Currencies, CreateOrder(o, m, amount, currency)
      PROVE  OutboxMoves
  BY <1>3 DEF CreateOrder, OutboxMoves
<1>4. CASE UNCHANGED vars
  BY <1>4 DEF vars, tables, OutboxMoves
<1> QED BY <1>1, <1>2, <1>3, <1>4, CommitCreateTells, CommitCaptureTells, CommitRefundTells
        DEF Next, Step

\* OutboxMatchesTables, payment by payment.
OutboxOf(p) ==
    /\ Announced("payment.captured", p) <=> Settled(p)
    /\ Announced("order.paid", p) <=> Settled(p)
    /\ Announced("payment.failed", p) <=> payments[p] # Nil /\ payments[p].status = "failed"
    /\ payments[p] # Nil /\ payments[p].status = "authorized"
          => Announced("payment.authorized", p)
    /\ \A e \in events : e.type = "refund.processed" /\ e.payment = p
          => e.total <= refundTotal[p]
    /\ refundTotal[p] > 0 => \E e \in events :
          e.type = "refund.processed" /\ e.payment = p /\ e.total = refundTotal[p]

\* The payment a step tells of is announced as it now stands.
LEMMA ToldIsAnnounced ==
    ASSUME Inv, NEW t \in Tasks, NEW p \in Payments, NEW emitted \in SUBSET events',
           Tells(t, p, emitted), OutboxOf(p), events' \subseteq EventRow
    PROVE  OutboxOf(p)'
<1>1. \A type : Announced(type, p)' <=> Announced(type, p) \/ type \in Types(emitted)
  BY DEF Tells, Addressed, Announced, Types
<1>2. /\ payments'[p] \in PaymentRow /\ payments'[p] # Nil /\ refundTotal[p] \in Nat
      /\ events' = events \cup emitted /\ \A e \in emitted : e.payment = p
      /\ \A e \in events' : e.total \in Nat
  BY ConstantsAssumption DEF Tells, Addressed, Inv, TypeOK, TablesTyped, EventRow
<1>3. \A e \in emitted : e.type \in Types(emitted)
  BY DEF Types
<1>4. CASE TellsAttempt(p, emitted)
  <2>1. ~Settled(p) /\ ~Settled(p)' /\ refundTotal'[p] = refundTotal[p]
    BY <1>4 DEF TellsAttempt, Settled
  <2>2. \A e \in emitted : e.type # "refund.processed"
    BY <1>3, <1>4 DEF TellsAttempt
  <2>3. ~Announced("payment.failed", p) /\ "payment.captured" \notin Types(emitted)
        /\ "order.paid" \notin Types(emitted)
    BY <1>4 DEF TellsAttempt, OutboxOf
  <2> QED BY <1>1, <1>2, <1>4, <2>1, <2>2, <2>3 DEF TellsAttempt, OutboxOf
<1>5. CASE TellsCapture(p, emitted)
  <2>1. ~Settled(p) /\ Settled(p)' /\ refundTotal'[p] = refundTotal[p]
    BY <1>2, <1>5 DEF TellsCapture, Settled
  <2>2. \A e \in emitted : e.type # "refund.processed"
    BY <1>3, <1>5 DEF TellsCapture
  <2>3. ~Announced("payment.failed", p) /\ "payment.failed" \notin Types(emitted)
        /\ payments'[p].status = "captured"
        /\ Types(emitted) = {"payment.captured", "order.paid"}
    BY <1>5 DEF TellsCapture, OutboxOf
  <2> QED BY <1>1, <1>2, <2>1, <2>2, <2>3 DEF OutboxOf
<1>6. CASE TellsRefund(p, emitted)
  <2>1. Settled(p) /\ Settled(p)' /\ refundTotal[p] < refundTotal'[p] /\ refundTotal'[p] \in Nat
    BY <1>2, <1>6 DEF TellsRefund, Settled
  <2>2. \A e \in emitted : e.type = "refund.processed" /\ e.total = refundTotal'[p]
    BY <1>3, <1>6 DEF TellsRefund
  <2>3. PICK e \in emitted : TRUE
    BY <1>6 DEF TellsRefund, Types
  <2>4. /\ payments[p].status = "captured" /\ payments'[p].status \in {"captured", "refunded"}
        /\ Types(emitted) = {"refund.processed"}
    BY <1>6 DEF TellsRefund
  <2>5. \A x \in events' : x.type = "refund.processed" /\ x.payment = p
            => x.total <= refundTotal'[p]
    BY <1>2, <2>1, <2>2 DEF OutboxOf
  <2>6. \E x \in events' : x.type = "refund.processed" /\ x.payment = p
                             /\ x.total = refundTotal'[p]
    BY <1>2, <2>2, <2>3
  <2>7. ~Announced("payment.failed", p)'
    BY <1>1, <2>4 DEF OutboxOf
  <2> QED BY <1>1, <1>2, <2>1, <2>4, <2>5, <2>6, <2>7 DEF OutboxOf
<1> QED BY <1>4, <1>5, <1>6 DEF Tells

\* A step leaves what is announced of every other payment.
LEMMA OutboxStep ==
    ASSUME Inv, TypeOK', OutboxMatchesTables, OutboxMoves
    PROVE  OutboxMatchesTables'
<1>1. \A p \in Payments : OutboxOf(p)
  BY DEF OutboxMatchesTables, OutboxOf
<1>2. events' \subseteq EventRow
  BY DEF TypeOK, TablesTyped
<1> SUFFICES ASSUME NEW q \in Payments PROVE OutboxOf(q)'
  BY DEF OutboxMatchesTables, OutboxOf
<1>3. CASE UNCHANGED <<payments, refundTotal, events, accounts>>
  BY <1>1, <1>3 DEF OutboxOf, Announced, Settled
<1>4. ASSUME NEW t \in Tasks, NEW p \in Payments, NEW emitted \in SUBSET events',
             Tells(t, p, emitted)
      PROVE  OutboxOf(q)'
  <2>1. CASE q = p
    BY <1>1, <1>2, <1>4, <2>1, ToldIsAnnounced
  <2>2. CASE q # p
    <3>1. payments'[q] = payments[q] /\ refundTotal'[q] = refundTotal[q]
      BY <1>4, <2>2 DEF Tells, TellsAttempt, TellsCapture, TellsRefund
    <3>2. \A e : e.payment = q => (e \in events' <=> e \in events)
      BY <1>4, <2>2 DEF Tells, Addressed
    <3>3. /\ \A type : Announced(type, q)' <=> Announced(type, q)
          /\ Settled(q)' <=> Settled(q)
      BY <3>1, <3>2 DEF Announced, Settled
    <3> QED BY <1>1, <3>1, <3>2, <3>3 DEF OutboxOf
  <2> QED BY <2>1, <2>2
<1> QED BY <1>3, <1>4 DEF OutboxMoves

\* An event is in the outbox exactly when its payment committed the change it
\* announces; the latest refund is announced and none beyond it, whichever
\* requests race.
THEOREM OutboxTellsTheTables == Spec => []OutboxMatchesTables
<1>1. Init => OutboxMatchesTables
  BY DEF Init, OutboxMatchesTables, Announced, Settled
<1>2. ASSUME Inv, Inv', OutboxMatchesTables, [Next]_vars
      PROVE  OutboxMatchesTables'
  BY <1>2, StepTells, OutboxStep DEF Inv
<1> QED BY <1>1, <1>2, Invariance, PTL DEF Spec

-----------------------------------------------------------------------------
(* Tenants. *)

\* A request delivers to endpoints its merchant registered.
FanoutsOwned ==
    \A t \in Tasks : ~Idle(t) =>
        \A x \in req[t].fanout : Owner[x] = req[t].merchant /\ endpoints[x] # "none"

\* No step unregisters an endpoint.
LEMMA EndpointsKept ==
    ASSUME Inv, [Next]_vars
    PROVE  \A x \in Endpoints : endpoints[x] # "none" => endpoints'[x] # "none"
<1>1. endpoints \in [Endpoints -> {"none", "active", "disabled"}]
  BY DEF Inv, TypeOK, TablesTyped
<1>2. ASSUME NEW e \in Endpoints, RegisterEndpoint(e) \/ DisableEndpoint(e)
      PROVE  \A x \in Endpoints : endpoints[x] # "none" => endpoints'[x] # "none"
  BY <1>1, <1>2 DEF RegisterEndpoint, DisableEndpoint
<1>3. ASSUME NEW t \in Tasks, Arrive(t) \/ Step(t) \/ Abort(t)
      PROVE  endpoints' = endpoints
  BY <1>3 DEF Arrive, BeginCreate, BeginCapture, BeginRefund, Begin, Step, LockPayment,
              LockOrder, SumRefunds, FindOrCreateAccount, Abort, Rollback, CommitCreate,
              CommitCapture, CommitRefund
<1>4. ASSUME NEW o \in Orders, NEW m \in Merchants, NEW amount \in Amounts,
             NEW currency \in Currencies, CreateOrder(o, m, amount, currency)
      PROVE  endpoints' = endpoints
  BY <1>4 DEF CreateOrder
<1>5. CASE UNCHANGED vars
  BY <1>5 DEF vars
<1> QED BY <1>2, <1>3, <1>4, <1>5 DEF Next

\* A request keeps the list it read, or is answered; a new one reads its own.
LEMMA FanoutsStep ==
    ASSUME Inv, FanoutsOwned, [Next]_vars
    PROVE  FanoutsOwned'
<1> USE DEF Idle
<1>1. /\ pc \in [Tasks -> Steps] /\ req \in [Tasks -> Requests \cup {Nil}]
      /\ \A t \in Tasks : ~Idle(t) => req[t].fanout \subseteq Endpoints
  <2>1. \A t \in Tasks : ~Idle(t) => req[t] \in Requests
    BY RowsInView DEF Inv
  <2> QED BY <2>1 DEF Inv, TypeOK, RequestsTyped, Requests, CreateRequest, CaptureRequest,
                      RefundRequest
<1>2. \A x \in Endpoints : endpoints[x] # "none" => endpoints'[x] # "none"
  BY EndpointsKept
<1>3. ASSUME NEW t \in Tasks, ~Idle(t), req'[t] = req[t]
      PROVE  \A x \in req'[t].fanout : Owner[x] = req'[t].merchant /\ endpoints'[x] # "none"
  BY <1>1, <1>2, <1>3 DEF FanoutsOwned
<1>4. ASSUME NEW t \in Tasks,
             /\ pc'[t] = "idle" \/ (~Idle(t) /\ req' = req)
             /\ \A u \in Tasks : u # t => pc'[u] = pc[u] /\ req'[u] = req[u]
      PROVE  FanoutsOwned'
  BY <1>3, <1>4 DEF FanoutsOwned
<1>5. ASSUME NEW t \in Tasks, Arrive(t)
      PROVE  FanoutsOwned'
  <2>1. PICK m \in Merchants, step \in Steps, request \in Requests :
           /\ Begin(t, request, step) /\ request.merchant = m
           /\ request.fanout = ActiveEndpoints(m)
    <3> DEFINE begins == \E m \in Merchants, step \in Steps, request \in Requests :
                  /\ Begin(t, request, step) /\ request.merchant = m
                  /\ request.fanout = ActiveEndpoints(m)
    <3>1. \A m \in Merchants : ActiveEndpoints(m) \in SUBSET Endpoints
      BY DEF ActiveEndpoints
    <3>2. ASSUME NEW m \in Merchants, NEW o \in Orders, NEW card \in TestCards,
                 BeginCreate(t, m, o, card)
          PROVE  begins
      BY <3>2, <3>1, DecidedType DEF BeginCreate, Steps, Requests, CreateRequest
    <3>3. ASSUME NEW m \in Merchants, NEW p \in Payments, BeginCapture(t, m, p)
          PROVE  begins
      BY <3>3, <3>1 DEF BeginCapture, Steps, Requests, CaptureRequest
    <3>4. ASSUME NEW m \in Merchants, NEW p \in Payments,
                 NEW amount \in RefundAmounts \cup {Nil}, BeginRefund(t, m, p, amount)
          PROVE  begins
      BY <3>4, <3>1 DEF BeginRefund, Steps, Requests, RefundRequest
    <3> QED BY <1>5, <3>2, <3>3, <3>4 DEF Arrive
  <2>2. /\ req' = [req EXCEPT ![t] = request] /\ pc' = [pc EXCEPT ![t] = step]
        /\ UNCHANGED endpoints
    BY <2>1 DEF Begin, Become
  <2>3. \A x \in req'[t].fanout : Owner[x] = req'[t].merchant /\ endpoints'[x] # "none"
    BY <1>1, <2>1, <2>2 DEF ActiveEndpoints
  <2>4. \A u \in Tasks : u # t => pc'[u] = pc[u] /\ req'[u] = req[u]
    BY <1>1, <2>2
  <2> QED BY <1>3, <2>3, <2>4 DEF FanoutsOwned
<1>6. ASSUME NEW t \in Tasks, Finish(t)
      PROVE  FanoutsOwned'
  <2>1. pc'[t] = "idle" /\ \A u \in Tasks : u # t => pc'[u] = pc[u] /\ req'[u] = req[u]
    BY <1>1, <1>6 DEF Finish, Become
  <2> QED BY <1>3, <2>1 DEF FanoutsOwned
<1>7. ASSUME NEW t \in Tasks, NEW step \in Steps, ~Idle(t), Become(t, step), UNCHANGED req
      PROVE  FanoutsOwned'
  <2>1. \A u \in Tasks : u # t => pc'[u] = pc[u] /\ req'[u] = req[u]
    BY <1>1, <1>7 DEF Become
  <2> QED BY <1>4, <1>7, <2>1
<1>8. ASSUME NEW t \in Tasks, Step(t) \/ Abort(t)
      PROVE  FanoutsOwned'
  <2>1. Finish(t) \/ \E step \in Steps : ~Idle(t) /\ Become(t, step) /\ UNCHANGED req
    BY <1>8 DEF Step, LockPayment, LockOrder, SumRefunds, FindOrCreateAccount, Abort, Rollback,
                CommitCreate, CommitCapture, CommitRefund, Steps
  <2> QED BY <1>6, <1>7, <2>1
<1>9. CASE UNCHANGED <<pc, req>>
  BY <1>3, <1>9 DEF FanoutsOwned
<1> QED BY <1>5, <1>8, <1>9
        DEF Next, CreateOrder, RegisterEndpoint, DisableEndpoint, vars

\* The accounts that exist are those of the settled payments, and stay so.
AccountsUsed ==
    accounts = {<<payments[p].merchant, payments[p].currency>> : p \in {q \in Payments : Settled(q)}}

LEMMA AccountsStep ==
    ASSUME Inv, AccountsUsed, OutboxMoves,
           \A p \in Payments : payments[p] # Nil => PaymentKept(p)
    PROVE  AccountsUsed'
<1> DEFINE holder(p) == <<payments[p].merchant, payments[p].currency>>
<1>1. CASE UNCHANGED <<payments, refundTotal, events, accounts>>
  BY <1>1 DEF AccountsUsed, Settled
<1>2. ASSUME NEW t \in Tasks, NEW p \in Payments, NEW emitted \in SUBSET events',
             Tells(t, p, emitted)
      PROVE  AccountsUsed'
  <2>1. \A q \in Payments : q # p => payments'[q] = payments[q] /\ (Settled(q)' <=> Settled(q))
    BY <1>2 DEF Tells, Settled
  <2>2. payments'[p] # Nil
    BY <1>2, ConstantsAssumption DEF Tells
  <2>3. CASE TellsAttempt(p, emitted)
    <3>1. accounts' = accounts /\ ~Settled(p) /\ ~Settled(p)'
      BY <2>3 DEF TellsAttempt, Settled
    <3> QED BY <2>1, <3>1 DEF AccountsUsed
  <2>4. CASE ~TellsAttempt(p, emitted)
    <3>1. /\ accounts' = accounts \cup {holder(p)'} /\ Settled(p)'
          /\ Settled(p) => payments[p] # Nil
      BY <1>2, <2>2, <2>4 DEF Tells, TellsCapture, TellsRefund, UsesAccount, Settled
    <3>2. Settled(p) => holder(p)' = holder(p)
      BY <3>1 DEF PaymentKept
    <3>3. ASSUME NEW a \in accounts'
          PROVE  \E q \in Payments : Settled(q)' /\ a = holder(q)'
      <4>1. CASE a = holder(p)'
        BY <3>1, <4>1
      <4>2. CASE a \in accounts
        <5>1. PICK q \in Payments : Settled(q) /\ a = holder(q)
          BY <4>2 DEF AccountsUsed
        <5> QED BY <2>1, <3>1, <3>2, <5>1
      <4> QED BY <3>1, <4>1, <4>2
    <3>4. ASSUME NEW q \in Payments, Settled(q)'
          PROVE  holder(q)' \in accounts'
      BY <2>1, <3>1, <3>4 DEF AccountsUsed
    <3> QED BY <3>3, <3>4 DEF AccountsUsed
  <2> QED BY <2>3, <2>4
<1> QED BY <1>1, <1>2 DEF OutboxMoves

\* An event goes to endpoints of its payment's merchant that subscribe to it.
Delivered(e) ==
    /\ payments[e.payment] # Nil
    /\ \A x \in e.to : /\ Owner[x] = payments[e.payment].merchant
                       /\ endpoints[x] # "none" /\ e.type \in Wants[x]
EventsDelivered == \A e \in events : Delivered(e)

LEMMA DeliveredStep ==
    ASSUME Inv, Inv', FanoutsOwned, EventsDelivered, OutboxMoves,
           \A p \in Payments : payments[p] # Nil => PaymentKept(p),
           \A x \in Endpoints : endpoints[x] # "none" => endpoints'[x] # "none"
    PROVE  EventsDelivered'
<1>1. ASSUME NEW e \in events
      PROVE  Delivered(e)'
  <2>1. e.payment \in Payments /\ e.to \in SUBSET Endpoints
    BY DEF Inv, TypeOK, TablesTyped, EventRow
  <2> QED BY <2>1 DEF EventsDelivered, Delivered, PaymentKept
<1>2. CASE UNCHANGED <<payments, refundTotal, events, accounts>>
  BY <1>1, <1>2 DEF EventsDelivered
<1>3. ASSUME NEW t \in Tasks, NEW p \in Payments, NEW emitted \in SUBSET events',
             Tells(t, p, emitted)
      PROVE  EventsDelivered'
  <2>1. /\ payments'[p] # Nil /\ payments'[p].merchant = req[t].merchant
        /\ events' = events \cup emitted /\ endpoints' = endpoints
    BY <1>3, ConstantsAssumption DEF Tells
  <2>2. \A x \in req[t].fanout : Owner[x] = req[t].merchant /\ endpoints[x] # "none"
    BY <1>3 DEF Tells, FanoutsOwned
  <2>3. \A e \in emitted : e.payment = p /\ e.to = {x \in req[t].fanout : e.type \in Wants[x]}
    BY <1>3 DEF Tells, Addressed
  <2>4. \A e \in emitted : Delivered(e)'
    BY <2>1, <2>2, <2>3 DEF Delivered
  <2> QED BY <1>1, <2>1, <2>4 DEF EventsDelivered
<1> QED BY <1>2, <1>3 DEF OutboxMoves

TenantInv == FanoutsOwned /\ AccountsUsed /\ EventsDelivered

\* Nothing crosses a tenant: not the terms of a payment, not its money, not its
\* events, however registrations and requests interleave with the prefetch.
THEOREM TenantsStayIsolated == Spec => []TenantsIsolated
<1>1. Init => TenantInv
  BY DEF Init, TenantInv, FanoutsOwned, AccountsUsed, EventsDelivered, Settled, Idle
<1>2. ASSUME Inv, Inv', TenantInv, [Next]_vars
      PROVE  TenantInv'
  <2>1. \A p \in Payments : payments[p] # Nil => PaymentKept(p)
    BY <1>2, StepMovesMoney, MovesKeepRows
  <2>2. OutboxMoves /\ \A x \in Endpoints : endpoints[x] # "none" => endpoints'[x] # "none"
    BY <1>2, StepTells, EndpointsKept
  <2> QED BY <1>2, <2>1, <2>2, FanoutsStep, AccountsStep, DeliveredStep DEF TenantInv
<1>3. ASSUME MoneyInv, TenantInv
      PROVE  TenantsIsolated
  BY <1>3 DEF MoneyInv, PaymentTerms, HasTermsOf, TenantInv, AccountsUsed, EventsDelivered,
              Delivered, TenantsIsolated
<1> QED BY <1>1, <1>2, <1>3, Invariance, MoneyInvariance, PTL DEF Spec
=============================================================================
