----------------------- MODULE PaymentEngine_proofs -------------------------
(***************************************************************************)
(* The invariants of PaymentEngine, for every number of orders, payments   *)
(* and requests: types, what a task read under its locks stays true        *)
(* (ViewsAreCurrent), requests never wait for each other in a circle       *)
(* (NoDeadlock), an order collects at most once (OneCapturePerOrder) and   *)
(* refunds stay within the payment (RefundsWithinPayment).                 *)
(*                                                                         *)
(* Everything rests on ViewsAreCurrent: a commit may use what its          *)
(* transaction read, since it still holds the locks it read it under.      *)
(***************************************************************************)
EXTENDS PaymentEngine, TLAPS

-----------------------------------------------------------------------------
(* Arithmetic. *)

\* Percent of integers is an integer.
LEMMA PercentInt ==
    ASSUME NEW a \in Int, NEW n \in Int, NEW d \in Int, d > 0
    PROVE  Percent(a, n, d) \in Int
<1>1. a * n \in Int /\ d \div 2 \in Int
  OBVIOUS
<1> DEFINE numer == a * n
           half == d \div 2
<1>2. (numer + half) \div d \in Int /\ (half - numer) \div d \in Int
  BY <1>1
<1> QED BY <1>2 DEF Percent

\* The fee components of an amount are integers.
LEMMA FeeInt ==
    ASSUME NEW amount \in Int, NEW currency
    PROVE  FeeBase(amount, currency) \in Int /\ FeeTax(amount, currency) \in Int
<1> DEFINE bps == ForCurrency(currency).percent_bps
           fixed == ForCurrency(currency).fixed_minor
           gst == ForCurrency(currency).tax_percent
<1>1. bps \in Int /\ fixed \in Int /\ gst \in Int
  BY DEF ForCurrency
<1>2. FeeBase(amount, currency) = Percent(amount, bps, 10000) + fixed
  BY DEF FeeBase
<1>3. FeeTax(amount, currency) = Percent(FeeBase(amount, currency), gst, 100)
  BY DEF FeeTax
<1> HIDE DEF bps, fixed, gst
<1>4. Percent(amount, bps, 10000) \in Int
  BY <1>1, PercentInt
<1>5. FeeBase(amount, currency) \in Int
  BY <1>1, <1>2, <1>4
<1> QED BY <1>1, <1>3, <1>5, PercentInt

\* A fee reversal has integer components.
LEMMA FeeRefundInt ==
    ASSUME NEW amount \in Nat, NEW currency, NEW old \in Int, NEW new \in Int
    PROVE  FeeRefund(amount, currency, old, new) \in [base : Int, tax : Int]
<1>1. \A c \in Int, g \in Int : Owed(c, g, amount) \in Int
  BY PercentInt DEF Owed
<1>2. FeeBase(amount, currency) \in Int /\ FeeTax(amount, currency) \in Int
  BY FeeInt
<1> DEFINE slice(c) == Owed(c, new, amount) - Owed(c, old, amount)
           base == FeeBase(amount, currency)
           tax == FeeTax(amount, currency)
<1>3. FeeRefund(amount, currency, old, new) = [base |-> slice(base), tax |-> slice(tax)]
  BY DEF FeeRefund
<1>4. base \in Int /\ tax \in Int
  BY <1>2
<1> HIDE DEF base, tax
<1>5. slice(base) \in Int /\ slice(tax) \in Int
  BY <1>1, <1>4
<1> QED BY <1>3, <1>5

\* Postings keep a position well typed.
LEMMA PostType ==
    ASSUME NEW x \in Position, NEW m \in Merchants,
           NEW e \in [clearing : Int, pending : Int, revenue : Int, tax : Int]
    PROVE  Post(x, m, e) \in Position
BY DEF Post, Position

\* Posting a captured payment and its fee leaves a position a position.
LEMMA CapturedType ==
    ASSUME NEW x \in Position, NEW payment \in PaymentRow
    PROVE  Captured(x, payment) \in Position
<1> DEFINE base == FeeBase(payment.amount, payment.currency)
           tax == FeeTax(payment.amount, payment.currency)
<1>1. payment.amount \in Nat /\ payment.merchant \in Merchants
  BY DEF PaymentRow
<1>2. base \in Int /\ tax \in Int
  BY <1>1, FeeInt
<1> HIDE DEF base, tax
<1>3. CaptureEntries(payment.amount) \in [clearing : Int, pending : Int, revenue : Int, tax : Int]
  BY <1>1 DEF CaptureEntries
<1>4. FeeChargedEntries(base, tax) \in [clearing : Int, pending : Int, revenue : Int, tax : Int]
  BY <1>2 DEF FeeChargedEntries, Posted
<1>5. PostCapture(x, payment.merchant, payment.amount, base, tax) \in Position
  BY <1>1, <1>3, <1>4, PostType DEF PostCapture
<1> QED BY <1>5 DEF Captured, base, tax

\* Posting a refund and the fee owed back leaves a position a position.
LEMMA RefundPostedType ==
    ASSUME NEW x \in Position, NEW m \in Merchants, NEW amount \in Int,
           NEW fee \in [base : Int, tax : Int]
    PROVE  PostRefund(x, m, amount, fee) \in Position
<1>1. RefundEntries(amount) \in [clearing : Int, pending : Int, revenue : Int, tax : Int]
  BY DEF RefundEntries
<1>2. FeeRefundedEntries(fee) \in [clearing : Int, pending : Int, revenue : Int, tax : Int]
  BY DEF FeeRefundedEntries, Posted
<1> QED BY <1>1, <1>2, PostType DEF PostRefund

-----------------------------------------------------------------------------
(* Requests and the rows a task works on. *)

\* A request of each kind has the fields of its kind.
LEMMA RequestFields ==
    ASSUME NEW r \in Requests
    PROVE  /\ r.op \in {"create", "capture", "refund"}
           /\ r.op = "create" => r \in CreateRequest
           /\ r.op = "capture" => r \in CaptureRequest
           /\ r.op = "refund" => r \in RefundRequest
BY DEF Requests, CreateRequest, CaptureRequest, RefundRequest

\* Every listed card leads to an outcome the engine knows, whatever the amount.
LEMMA DecidedType ==
    ASSUME NEW card \in TestCards, NEW amount
    PROVE  MapDecision(Decide(card, amount)) \in Outcomes
BY DEF TestCards, Decide, MapDecision, Outcomes

\* The attempt a create commits is a payment row.
LEMMA AttemptedType ==
    ASSUME NEW o \in Orders, NEW order \in OrderRow, NEW outcome \in Outcomes
    PROVE  /\ NewAttempt(o, order) \in PaymentRow
           /\ Attempted(NewAttempt(o, order), outcome) \in PaymentRow
<1>1. NewAttempt(o, order) \in PaymentRow
  BY DEF NewAttempt, PaymentRow, OrderRow, PaymentStatus
<1> DEFINE x == NewAttempt(o, order)
<1> HIDE DEF x
<1>2. ASSUME x \in PaymentRow
      PROVE  Attempted(x, outcome) \in PaymentRow
  BY <1>2 DEF Attempted, Outcomes, Settles, MarkCaptured, PaymentRow, PaymentStatus
<1> QED BY <1>1, <1>2 DEF x

\* Ending a transaction resets the task's own state and frees its locks.
LEMMA FinishTyped ==
    ASSUME RequestsTyped, NEW t \in Tasks, Finish(t)
    PROVE  RequestsTyped'
<1>1. NoView \in View
  BY DEF NoView, View
<1> QED BY <1>1 DEF RequestsTyped, Finish, Release, Held, Become, Holder, Steps

-----------------------------------------------------------------------------
(* Type correctness.  What a commit writes has its type only because the task *)
(* holds a request of the kind it serves, which ViewsAreCurrent supplies.     *)

\* The rows in the view of a task that is about to write.
LEMMA RowsInView ==
    ASSUME TypeOK, ViewsAreCurrent, NEW t \in Tasks, ~Idle(t)
    PROVE  /\ req[t] \in Requests
           /\ req[t].op = "create" =>
                /\ req[t] \in CreateRequest
                /\ Reached(t, {"account", "commit"}) => view[t].order \in OrderRow
           /\ req[t].op = "capture" =>
                /\ req[t] \in CaptureRequest
                /\ ~Reached(t, {"lock_payment"}) => view[t].payment \in PaymentRow
                /\ Reached(t, {"account", "commit"}) => view[t].order \in OrderRow
           /\ req[t].op = "refund" =>
                /\ req[t] \in RefundRequest
                /\ ~Reached(t, {"lock_payment"}) => view[t].payment \in PaymentRow
<1>1. req[t] \in Requests
  BY DEF TypeOK, RequestsTyped, ViewsAreCurrent, ViewIsCurrent
<1>2. view[t] \in View
  BY DEF TypeOK, RequestsTyped
<1>3. view[t].order \in OrderRow \cup {Nil} /\ view[t].payment \in PaymentRow \cup {Nil}
  BY <1>2 DEF View
<1>4. CASE req[t].op = "create"
  BY <1>1, <1>3, <1>4, RequestFields DEF ViewsAreCurrent, ViewIsCurrent, CreateView,
        HoldsOrder, Fetched
<1>5. CASE req[t].op = "capture"
  BY <1>1, <1>3, <1>5, RequestFields
     DEF ViewsAreCurrent, ViewIsCurrent, CaptureView, CaptureMayProceed, HoldsOrder, Fetched
<1>6. CASE req[t].op = "refund"
  BY <1>1, <1>3, <1>6, RequestFields
     DEF ViewsAreCurrent, ViewIsCurrent, RefundView, RefundMayProceed, Fetched
<1> QED BY <1>1, <1>4, <1>5, <1>6, RequestFields

\* Events and jobs a commit writes.
LEMMA EventTyped ==
    ASSUME NEW type \in EventTypes, NEW p \in Payments, NEW total \in Nat,
           NEW fanout \in SUBSET Endpoints
    PROVE  Event(type, p, total, fanout) \in EventRow
BY DEF Event, EventRow

\* The events of an attempt are event rows, whatever its outcome.
LEMMA AttemptEventsTyped ==
    ASSUME NEW p \in Payments, NEW outcome \in Outcomes, NEW fanout \in SUBSET Endpoints
    PROVE  /\ SettleEvents(p, fanout) \subseteq EventRow
           /\ AttemptEvents(p, outcome, fanout) \subseteq EventRow
           /\ AttemptJobs(p, outcome) \subseteq JobRow
<1>1. \A type \in EventTypes : Event(type, p, 0, fanout) \in EventRow
  BY EventTyped
<1>2. SettleEvents(p, fanout) \subseteq EventRow
  BY <1>1 DEF SettleEvents, EventTypes
<1>3. AttemptEvents(p, outcome, fanout) \subseteq EventRow
  BY <1>1, <1>2 DEF AttemptEvents, EventTypes
<1>4. AttemptJobs(p, outcome) \subseteq JobRow
  BY DEF AttemptJobs, JobRow
<1> QED BY <1>2, <1>3, <1>4

\* The COMMIT of PaymentService::create writes rows of the right shape.
LEMMA CommitCreateTyped ==
    ASSUME TypeOK, ViewsAreCurrent, NEW t \in Tasks, NEW p \in Payments, CommitCreate(t, p)
    PROVE  TypeOK'
<1> DEFINE r == req[t]
           order == view[t].order
           payment == Attempted(NewAttempt(r.order, order), r.outcome)
           attempted == [order EXCEPT !.status = "attempted"]
<1>1. pc[t] = "commit" /\ r.op = "create"
  BY DEF CommitCreate, InsertPayment, UpdateOrder, InsertEvents
<1>2. r \in CreateRequest /\ order \in OrderRow
  BY <1>1, RowsInView DEF Idle, Reached
<1>3. payment \in PaymentRow
  BY <1>2, AttemptedType DEF CreateRequest
<1>4. attempted \in OrderRow /\ MarkPaid(attempted, payment.amount) \in OrderRow
  <2>1. payment.amount \in Nat
    BY <1>3 DEF PaymentRow
  <2> HIDE DEF payment
  <2> QED BY <1>2, <2>1 DEF MarkPaid, OrderRow, OrderStatus
<1>5. orders' \in [Orders -> OrderRow \cup {Nil}]
  BY <1>2, <1>4 DEF CommitCreate, InsertPayment, UpdateOrder, InsertEvents, TypeOK,
        TablesTyped, CreateRequest
<1>6. payments' \in [Payments -> PaymentRow \cup {Nil}]
  BY <1>3 DEF CommitCreate, InsertPayment, UpdateOrder, InsertEvents, TypeOK, TablesTyped
<1>7. ledger' \in [Payments -> Position]
  BY <1>3, CapturedType DEF CommitCreate, InsertPayment, UpdateOrder, InsertEvents, TypeOK,
        TablesTyped
<1>8. accounts' \subseteq Merchants \X Currencies
  BY <1>1, <1>2 DEF CommitCreate, InsertPayment, UpdateOrder, InsertEvents, TypeOK,
        TablesTyped, Account, OrderRow
<1>9. events' \subseteq EventRow /\ scheduled' \subseteq JobRow
  BY <1>2, AttemptEventsTyped DEF CommitCreate, InsertPayment, UpdateOrder, InsertEvents,
        TypeOK, TablesTyped, CreateRequest
<1>10. refundTotal' = refundTotal /\ endpoints' = endpoints /\ Finish(t)
  BY DEF CommitCreate, InsertPayment, UpdateOrder, InsertEvents
<1> QED BY <1>5, <1>6, <1>7, <1>8, <1>9, <1>10, FinishTyped DEF TypeOK, TablesTyped

\* The COMMIT of PaymentService::capture writes rows of the right shape.
LEMMA CommitCaptureTyped ==
    ASSUME TypeOK, ViewsAreCurrent, NEW t \in Tasks, CommitCapture(t)
    PROVE  TypeOK'
<1> DEFINE r == req[t]
           payment == MarkCaptured(view[t].payment)
           order == MarkPaid(view[t].order, payment.amount)
<1>1. pc[t] = "commit" /\ r.op = "capture"
  BY DEF CommitCapture, UpdatePayment, UpdateOrder, InsertEvents
<1>2. r \in CaptureRequest /\ view[t].payment \in PaymentRow /\ view[t].order \in OrderRow
  BY <1>1, RowsInView DEF Idle, Reached
<1>3. payment \in PaymentRow
  BY <1>2 DEF MarkCaptured, PaymentRow, PaymentStatus
<1>4. order \in OrderRow
  <2>1. payment.amount \in Nat
    BY <1>3 DEF PaymentRow
  <2> HIDE DEF payment
  <2> QED BY <1>2, <2>1 DEF MarkPaid, OrderRow, OrderStatus
<1>5. orders' \in [Orders -> OrderRow \cup {Nil}]
  BY <1>3, <1>4 DEF CommitCapture, UpdatePayment, UpdateOrder, InsertEvents, TypeOK,
        TablesTyped, PaymentRow
<1>6. payments' \in [Payments -> PaymentRow \cup {Nil}]
  BY <1>2, <1>3 DEF CommitCapture, UpdatePayment, UpdateOrder, InsertEvents, TypeOK,
        TablesTyped, CaptureRequest
<1>7. ledger' \in [Payments -> Position]
  BY <1>2, <1>3, CapturedType DEF CommitCapture, UpdatePayment, UpdateOrder, InsertEvents,
        TypeOK, TablesTyped, CaptureRequest
<1>8. accounts' \subseteq Merchants \X Currencies
  BY <1>1, <1>2 DEF CommitCapture, UpdatePayment, UpdateOrder, InsertEvents, TypeOK,
        TablesTyped, Account, PaymentRow
<1>9. events' \subseteq EventRow
  <2>1. r.payment \in Payments /\ r.fanout \in SUBSET Endpoints /\ "capture" \in Outcomes
    BY <1>2 DEF CaptureRequest, Outcomes
  <2> QED BY <2>1, AttemptEventsTyped DEF CommitCapture, UpdatePayment, UpdateOrder,
        InsertEvents, TypeOK, TablesTyped
<1>10. /\ refundTotal' = refundTotal /\ scheduled' = scheduled
       /\ endpoints' = endpoints /\ Finish(t)
  BY DEF CommitCapture, UpdatePayment, UpdateOrder, InsertEvents
<1> QED BY <1>5, <1>6, <1>7, <1>8, <1>9, <1>10, FinishTyped DEF TypeOK, TablesTyped

\* The COMMIT of RefundService::create writes rows of the right shape.
LEMMA CommitRefundTyped ==
    ASSUME TypeOK, ViewsAreCurrent, NEW t \in Tasks, CommitRefund(t)
    PROVE  TypeOK'
<1> DEFINE r == req[t]
           payment == view[t].payment
           amount == view[t].amount
           new_total == view[t].refunded + amount
           fee == FeeRefund(payment.amount, payment.currency, view[t].refunded, new_total)
<1>1. pc[t] = "commit" /\ r.op = "refund"
  BY DEF CommitRefund, InsertRefund, UpdatePayment, InsertEvents
<1>2. r \in RefundRequest /\ payment \in PaymentRow
  BY <1>1, RowsInView DEF Idle, Reached
<1>3. amount \in Nat /\ view[t].refunded \in Nat /\ new_total \in Nat
  BY DEF TypeOK, RequestsTyped, View
<1>4. Refunded(payment, new_total) \in PaymentRow
  <2> HIDE DEF new_total
  <2> QED BY <1>2, <1>3 DEF Refunded, PaymentRow, PaymentStatus
<1>5. fee \in [base : Int, tax : Int]
  BY <1>2, <1>3, FeeRefundInt DEF PaymentRow
<1>6. payments' \in [Payments -> PaymentRow \cup {Nil}]
  BY <1>2, <1>4 DEF CommitRefund, InsertRefund, UpdatePayment, InsertEvents, TypeOK,
        TablesTyped, RefundRequest
<1>7. ledger' \in [Payments -> Position]
  <2>1. PostRefund(ledger[r.payment], r.merchant, amount, fee) \in Position
    <3>1. ledger[r.payment] \in Position /\ r.merchant \in Merchants
      BY <1>2 DEF TypeOK, TablesTyped, RefundRequest
    <3> QED BY <3>1, <1>3, <1>5, RefundPostedType
  <2> QED BY <2>1, <1>2 DEF CommitRefund, InsertRefund, UpdatePayment, InsertEvents,
        TypeOK, TablesTyped, RefundRequest
<1>8. accounts' \subseteq Merchants \X Currencies
  BY <1>1, <1>2 DEF CommitRefund, InsertRefund, UpdatePayment, InsertEvents, TypeOK,
        TablesTyped, Account, PaymentRow, RefundRequest
<1>9. events' \subseteq EventRow
  <2>1. Event("refund.processed", r.payment, new_total, r.fanout) \in EventRow
    <3>1. /\ r.payment \in Payments /\ r.fanout \in SUBSET Endpoints
          /\ "refund.processed" \in EventTypes
      BY <1>2 DEF RefundRequest, EventTypes
    <3> QED BY <3>1, <1>3, EventTyped
  <2> QED BY <2>1 DEF CommitRefund, InsertRefund, UpdatePayment, InsertEvents, TypeOK, TablesTyped
<1>10. refundTotal' \in [Payments -> Nat]
  BY <1>2, <1>3 DEF CommitRefund, InsertRefund, UpdatePayment, InsertEvents, TypeOK,
        TablesTyped, RefundRequest
<1>11. orders' = orders /\ scheduled' = scheduled /\ endpoints' = endpoints /\ Finish(t)
  BY DEF CommitRefund, InsertRefund, UpdatePayment, InsertEvents
<1> QED BY <1>6, <1>7, <1>8, <1>9, <1>10, <1>11, FinishTyped DEF TypeOK, TablesTyped

\* The steps a transaction takes before its commit, and the arrival of a request.
LEMMA BeginTyped ==
    ASSUME TypeOK, NEW t \in Tasks, Arrive(t)
    PROVE  TypeOK'
<1> SUFFICES ASSUME NEW request \in Requests, NEW step \in Steps, Begin(t, request, step)
             PROVE  TypeOK'
  <2>1. \A m \in Merchants : ActiveEndpoints(m) \in SUBSET Endpoints
    BY DEF ActiveEndpoints
  <2>2. "lock_order" \in Steps /\ "lock_payment" \in Steps
    BY DEF Steps
  <2>3. ASSUME NEW m \in Merchants, NEW o \in Orders, NEW card \in TestCards,
               BeginCreate(t, m, o, card)
        PROVE  TypeOK'
    BY <2>1, <2>2, <2>3, DecidedType DEF BeginCreate, Requests, CreateRequest
  <2>4. ASSUME NEW m \in Merchants, NEW p \in Payments, BeginCapture(t, m, p)
        PROVE  TypeOK'
    BY <2>1, <2>2, <2>4 DEF BeginCapture, Requests, CaptureRequest
  <2>5. ASSUME NEW m \in Merchants, NEW p \in Payments,
               NEW amount \in RefundAmounts \cup {Nil}, BeginRefund(t, m, p, amount)
        PROVE  TypeOK'
    BY <2>1, <2>2, <2>5 DEF BeginRefund, Requests, RefundRequest
  <2> QED BY <2>3, <2>4, <2>5 DEF Arrive
<1> QED BY DEF Begin, Become, TypeOK, TablesTyped, RequestsTyped, tables, locks

\* A ROLLBACK leaves the types intact.
LEMMA RollbackTyped ==
    ASSUME TypeOK, NEW t \in Tasks, Rollback(t)
    PROVE  TypeOK'
BY FinishTyped DEF Rollback, TypeOK, TablesTyped, tables

\* Locking and reading a payment leaves the types intact.
LEMMA LockPaymentTyped ==
    ASSUME TypeOK, ViewsAreCurrent, NEW t \in Tasks, LockPayment(t)
    PROVE  TypeOK'
<1>1. CASE Rollback(t)
  BY <1>1, RollbackTyped
<1>2. CASE ~Rollback(t)
  <2> DEFINE r == req[t]
             payment == payments[r.payment]
  <2>1. r.op \in {"capture", "refund"} /\ r.payment \in Payments
    <3>1. r \in Requests /\ r.op # "create"
      BY RowsInView DEF LockPayment, Idle, ViewsAreCurrent, ViewIsCurrent, CreateView, Reached
    <3> QED BY <3>1, RequestFields DEF CaptureRequest, RefundRequest
  <2>2. payment \in PaymentRow \cup {Nil}
    BY <2>1 DEF TypeOK, TablesTyped
  <2>3. [view EXCEPT ![t].payment = payment] \in [Tasks -> View]
    BY <2>2 DEF TypeOK, RequestsTyped, View
  <2> QED BY <1>2, <2>1, <2>3
          DEF LockPayment, Acquired, Become, Holder, Steps, TypeOK, TablesTyped,
                RequestsTyped, tables
<1> QED BY <1>1, <1>2

\* The order a task locks exists as an id.
LEMMA TargetTyped ==
    ASSUME TypeOK, ViewsAreCurrent, NEW t \in Tasks,
           Reached(t, {"lock_order"}) \/ (Reached(t, {"account", "commit"}) /\ req[t].op # "refund")
    PROVE  TargetOrder(t) \in Orders /\ req[t].op \in {"create", "capture"}
<1>1. req[t] \in Requests /\ req[t].op # "refund"
  BY RowsInView DEF Idle, Reached, ViewsAreCurrent, ViewIsCurrent, RefundView
<1>2. req[t].op \in {"create", "capture"}
  BY <1>1, RequestFields
<1>3. CASE req[t].op = "create"
  BY <1>3, RowsInView DEF TargetOrder, CreateRequest, Idle, Reached
<1>4. CASE req[t].op = "capture"
  <2>1. view[t].payment \in PaymentRow
    BY <1>4, RowsInView DEF Idle, Reached
  <2> QED BY <1>4, <2>1 DEF TargetOrder, PaymentRow
<1> QED BY <1>2, <1>3, <1>4

\* Locking and reading an order leaves the types intact.
LEMMA LockOrderTyped ==
    ASSUME TypeOK, ViewsAreCurrent, NEW t \in Tasks, LockOrder(t)
    PROVE  TypeOK'
<1>1. CASE Rollback(t)
  BY <1>1, RollbackTyped
<1>2. CASE ~Rollback(t)
  <2> DEFINE o == TargetOrder(t)
             order == orders[o]
  <2>1. o \in Orders
    BY TargetTyped DEF LockOrder, Reached
  <2>2. order \in OrderRow \cup {Nil}
    BY <2>1 DEF TypeOK, TablesTyped
  <2>3. [view EXCEPT ![t].order = order] \in [Tasks -> View]
    BY <2>2 DEF TypeOK, RequestsTyped, View
  <2> QED BY <1>2, <2>1, <2>3
          DEF LockOrder, Acquired, Become, Holder, Steps, TypeOK, TablesTyped, RequestsTyped, tables
<1> QED BY <1>1, <1>2

\* A refund that passes the amount checks keeps a natural amount in its view.
LEMMA SumRefundsTyped ==
    ASSUME TypeOK, ViewsAreCurrent, NEW t \in Tasks, SumRefunds(t)
    PROVE  TypeOK'
<1>1. CASE Rollback(t)
  BY <1>1, RollbackTyped
<1>2. CASE ~Rollback(t)
  <2> DEFINE r == req[t]
             refunded == refundTotal[r.payment]
             remaining == view[t].payment.amount - refunded
             amount == RefundAmount(r, remaining)
  <2>1. r.op = "refund" /\ r \in RefundRequest
    BY RowsInView, RequestFields
       DEF SumRefunds, Idle, ViewsAreCurrent, ViewIsCurrent, CreateView, CaptureView, Reached
  <2>2. view[t].payment.amount \in Nat /\ refunded \in Nat
    BY <2>1, RowsInView DEF SumRefunds, Idle, Reached, PaymentRow, RefundRequest, TypeOK,
          TablesTyped
  <2>3. amount \in Int
    <3>1. r.amount \in RefundAmounts \cup {Nil}
      BY <2>1 DEF RefundRequest
    <3>2. remaining \in Int
      BY <2>2
    <3> HIDE DEF remaining
    <3> QED BY <3>1, <3>2, ConstantsAssumption DEF RefundAmount
  <2>4. amount > 0
    BY <1>2 DEF SumRefunds, RefundAllowed
  <2>5. view' = [view EXCEPT ![t] = [@ EXCEPT !.refunded = refunded, !.amount = amount]]
    BY <1>2 DEF SumRefunds
  <2>6. view' \in [Tasks -> View]
    <3>1. amount \in Nat /\ view[t] \in View
      BY <2>3, <2>4 DEF TypeOK, RequestsTyped
    <3> HIDE DEF refunded, amount
    <3>2. [view[t] EXCEPT !.refunded = refunded, !.amount = amount] \in View
      BY <2>2, <3>1 DEF View
    <3> QED BY <2>5, <3>2 DEF TypeOK, RequestsTyped
  <2> QED BY <1>2, <2>6 DEF SumRefunds, Become, Steps, TypeOK, TablesTyped, RequestsTyped,
        tables, locks
<1> QED BY <1>1, <1>2

\* Finding or inserting a ledger account leaves the types intact.
LEMMA AccountTyped ==
    ASSUME TypeOK, ViewsAreCurrent, NEW t \in Tasks, FindOrCreateAccount(t)
    PROVE  TypeOK'
BY DEF FindOrCreateAccount, Become, Holder, Steps, TypeOK, TablesTyped, RequestsTyped, tables

\* New orders, new requests and endpoint changes leave the types intact.
LEMMA EnvironmentTyped ==
    ASSUME TypeOK,
           \/ \E o \in Orders, m \in Merchants, amount \in Amounts, currency \in Currencies :
                 CreateOrder(o, m, amount, currency)
           \/ \E e \in Endpoints : RegisterEndpoint(e) \/ DisableEndpoint(e)
    PROVE  TypeOK'
<1>1. ASSUME NEW o \in Orders, NEW m \in Merchants, NEW amount \in Amounts,
             NEW currency \in Currencies, CreateOrder(o, m, amount, currency)
      PROVE  TypeOK'
  <2>1. amount \in Nat
    BY <1>1, ConstantsAssumption DEF CreateOrder, InsertOrder, MIN_AMOUNT_MINOR
  <2>2. orders' \in [Orders -> OrderRow \cup {Nil}]
    BY <1>1, <2>1 DEF CreateOrder, InsertOrder, TypeOK, TablesTyped, OrderRow, OrderStatus
  <2> QED BY <1>1, <2>2 DEF CreateOrder, InsertOrder, TypeOK, TablesTyped, RequestsTyped, locks
<1>2. ASSUME NEW e \in Endpoints, RegisterEndpoint(e) \/ DisableEndpoint(e)
      PROVE  TypeOK'
  BY <1>2 DEF RegisterEndpoint, DisableEndpoint, TypeOK, TablesTyped, RequestsTyped, tables, locks
<1> QED BY <1>1, <1>2

\* Every step keeps every variable in its shape.
LEMMA TypeStep ==
    ASSUME TypeOK, ViewsAreCurrent, [Next]_vars
    PROVE  TypeOK'
<1>1. CASE UNCHANGED vars
  BY <1>1 DEF vars, tables, locks, TypeOK, TablesTyped, RequestsTyped
<1>2. ASSUME NEW t \in Tasks, Arrive(t) \/ Step(t) \/ Abort(t)
      PROVE  TypeOK'
  BY <1>2, BeginTyped, LockPaymentTyped, LockOrderTyped, SumRefundsTyped, AccountTyped,
     CommitCreateTyped, CommitCaptureTyped, CommitRefundTyped, RollbackTyped DEF Step, Abort
<1> QED BY <1>1, <1>2, EnvironmentTyped DEF Next

-----------------------------------------------------------------------------
(* What a task read under its locks stays true. *)

\* A step that leaves a task alone, together with the locks it holds and the rows
\* it read under them, leaves its view current.
LEMMA Frame ==
    ASSUME NEW u \in Tasks, ViewIsCurrent(u),
           pc'[u] = pc[u], req'[u] = req[u], view'[u] = view[u],
           ~Idle(u) /\ req[u].op \in {"capture", "refund"} /\ HoldsPayment(u) /\ Fetched(view[u].payment)
             => HoldsPayment(u)' /\ refundTotal'[req[u].payment] = refundTotal[req[u].payment],
           Reached(u, {"account", "commit"}) /\ req[u].op \in {"create", "capture"} /\ HoldsOrder(u)
             => HoldsOrder(u)'
    PROVE  ViewIsCurrent(u)'
<1>1. CASE Idle(u)
  BY <1>1 DEF ViewIsCurrent, Idle
<1>2. CASE ~Idle(u)
  <2>1. req'[u] # Nil /\ ~Idle(u)'
    BY <1>2 DEF ViewIsCurrent, Idle
  <2>2. ASSUME req[u].op = "create" PROVE CreateView(u)'
    BY <1>2, <2>2 DEF ViewIsCurrent, CreateView, Reached
  <2>3. ASSUME req[u].op = "capture" PROVE CaptureView(u)'
    BY <1>2, <2>3 DEF ViewIsCurrent, CaptureView, CaptureMayProceed, Reached
  <2>4. ASSUME req[u].op = "refund" PROVE RefundView(u)'
    BY <1>2, <2>4 DEF ViewIsCurrent, RefundView, RefundMayProceed, Reached
  <2> QED BY <2>1, <2>2, <2>3, <2>4 DEF ViewIsCurrent
<1> QED BY <1>1, <1>2

\* The end of one transaction leaves the locks of the others.
LEMMA FinishLeavesOthers ==
    ASSUME RequestsTyped, NEW t \in Tasks, Finish(t), NEW u \in Tasks, u # t
    PROVE  /\ pc'[u] = pc[u] /\ req'[u] = req[u] /\ view'[u] = view[u]
           /\ \A p \in Payments : paymentLock[p] = u => paymentLock'[p] = u
           /\ \A o \in Orders : orderLock[o] = u => orderLock'[o] = u
BY DEF Finish, Release, Held, Become, RequestsTyped

\* A task whose transaction ends is idle: no view of it is left to be stale.
LEMMA FinishLeavesIdle ==
    ASSUME RequestsTyped, NEW t \in Tasks, Finish(t)
    PROVE  ViewIsCurrent(t)'
BY DEF Finish, Become, RequestsTyped, ViewIsCurrent, Idle

\* A commit that writes only rows the task holds locks on, or a row that did not
\* exist, leaves every view current.
LEMMA CommitKeepsViews ==
    ASSUME TypeOK, ViewsAreCurrent, NEW t \in Tasks, Finish(t),
           \A p \in Payments : payments[p] # Nil /\ paymentLock[p] # t
              => payments'[p] = payments[p] /\ refundTotal'[p] = refundTotal[p],
           \A o \in Orders : orderLock[o] # t => orders'[o] = orders[o]
    PROVE  ViewsAreCurrent'
<1> SUFFICES ASSUME NEW u \in Tasks, u # t PROVE ViewIsCurrent(u)'
  BY FinishLeavesIdle DEF ViewsAreCurrent, TypeOK
<1>1. ViewIsCurrent(u) /\ RequestsTyped
  BY DEF ViewsAreCurrent, TypeOK
<1>2. /\ pc'[u] = pc[u] /\ req'[u] = req[u] /\ view'[u] = view[u]
      /\ \A p \in Payments : paymentLock[p] = u => paymentLock'[p] = u
      /\ \A o \in Orders : orderLock[o] = u => orderLock'[o] = u
  BY <1>1, FinishLeavesOthers
<1>3. ASSUME ~Idle(u), req[u].op \in {"capture", "refund"}, HoldsPayment(u), Fetched(view[u].payment)
      PROVE  HoldsPayment(u)' /\ refundTotal'[req[u].payment] = refundTotal[req[u].payment]
  <2>1. req[u].payment \in Payments
    BY <1>3, RowsInView DEF CaptureRequest, RefundRequest
  <2> QED BY <1>2, <1>3, <2>1 DEF HoldsPayment, Fetched
<1>4. ASSUME Reached(u, {"account", "commit"}), req[u].op \in {"create", "capture"}, HoldsOrder(u)
      PROVE  HoldsOrder(u)'
  <2>1. TargetOrder(u)' = TargetOrder(u) /\ TargetOrder(u) \in Orders
    BY <1>2, <1>4, TargetTyped DEF TargetOrder
  <2> QED BY <1>2, <1>4, <2>1 DEF HoldsOrder
<1> QED BY <1>1, <1>2, <1>3, <1>4, Frame

\* The COMMIT of a create changes no row that another task has locked.
LEMMA CommitCreateViews ==
    ASSUME TypeOK, ViewsAreCurrent, NEW t \in Tasks, NEW p \in Payments, CommitCreate(t, p)
    PROVE  ViewsAreCurrent'
<1>1. pc[t] = "commit" /\ req[t].op = "create" /\ payments[p] = Nil /\ Finish(t)
  BY DEF CommitCreate, InsertPayment, UpdateOrder, InsertEvents
<1>2. orderLock[req[t].order] = t
  BY <1>1 DEF ViewsAreCurrent, ViewIsCurrent, CreateView, HoldsOrder, TargetOrder, Idle, Reached
<1>3. \A o \in Orders : orderLock[o] # t => orders'[o] = orders[o]
  BY <1>2 DEF CommitCreate, InsertPayment, UpdateOrder, InsertEvents, TypeOK, TablesTyped
<1>4. \A q \in Payments : payments[q] # Nil
        => payments'[q] = payments[q] /\ refundTotal'[q] = refundTotal[q]
  BY <1>1 DEF CommitCreate, InsertPayment, UpdateOrder, InsertEvents, TypeOK, TablesTyped
<1> QED BY <1>1, <1>3, <1>4, CommitKeepsViews

\* The COMMIT of a capture changes no row that another task has locked.
LEMMA CommitCaptureViews ==
    ASSUME TypeOK, ViewsAreCurrent, NEW t \in Tasks, CommitCapture(t)
    PROVE  ViewsAreCurrent'
<1>1. pc[t] = "commit" /\ req[t].op = "capture" /\ Finish(t)
  BY DEF CommitCapture, UpdatePayment, UpdateOrder, InsertEvents
<1>2. paymentLock[req[t].payment] = t /\ orderLock[view[t].payment.order] = t
  BY <1>1 DEF ViewsAreCurrent, ViewIsCurrent, CaptureView, HoldsPayment, HoldsOrder,
              TargetOrder, Idle, Reached
<1>3. MarkCaptured(view[t].payment).order = view[t].payment.order
  BY <1>1, RowsInView DEF Idle, Reached, MarkCaptured, PaymentRow
<1>4. \A o \in Orders : orderLock[o] # t => orders'[o] = orders[o]
  BY <1>2, <1>3 DEF CommitCapture, UpdatePayment, UpdateOrder, InsertEvents, TypeOK, TablesTyped
<1>5. \A q \in Payments : paymentLock[q] # t
        => payments'[q] = payments[q] /\ refundTotal'[q] = refundTotal[q]
  BY <1>2 DEF CommitCapture, UpdatePayment, UpdateOrder, InsertEvents, TypeOK, TablesTyped
<1> QED BY <1>1, <1>4, <1>5, CommitKeepsViews

\* The COMMIT of a refund changes no row that another task has locked.
LEMMA CommitRefundViews ==
    ASSUME TypeOK, ViewsAreCurrent, NEW t \in Tasks, CommitRefund(t)
    PROVE  ViewsAreCurrent'
<1>1. pc[t] = "commit" /\ req[t].op = "refund" /\ Finish(t) /\ orders' = orders
  BY DEF CommitRefund, InsertRefund, UpdatePayment, InsertEvents
<1>2. paymentLock[req[t].payment] = t
  BY <1>1 DEF ViewsAreCurrent, ViewIsCurrent, RefundView, HoldsPayment, Idle, Reached
<1>3. \A q \in Payments : paymentLock[q] # t
        => payments'[q] = payments[q] /\ refundTotal'[q] = refundTotal[q]
  BY <1>2 DEF CommitRefund, InsertRefund, UpdatePayment, InsertEvents, TypeOK, TablesTyped
<1> QED BY <1>1, <1>3, CommitKeepsViews

\* A ROLLBACK leaves every other task's view current.
LEMMA RollbackViews ==
    ASSUME TypeOK, ViewsAreCurrent, NEW t \in Tasks, Rollback(t)
    PROVE  ViewsAreCurrent'
BY CommitKeepsViews DEF Rollback, tables

\* A step of a task that changes no table and takes at most free locks leaves the
\* views of the other tasks current.
LEMMA LockingKeepsOthers ==
    ASSUME TypeOK, ViewsAreCurrent, NEW t \in Tasks, UNCHANGED tables,
           \A p \in Payments : paymentLock'[p] = paymentLock[p] \/ paymentLock[p] = Nil,
           \A o \in Orders : orderLock'[o] = orderLock[o] \/ orderLock[o] = Nil,
           NEW u \in Tasks, u # t,
           pc'[u] = pc[u], req'[u] = req[u], view'[u] = view[u]
    PROVE  ViewIsCurrent(u)'
<1>1. ViewIsCurrent(u) /\ u # Nil
  BY ConstantsAssumption DEF ViewsAreCurrent
<1>2. ASSUME ~Idle(u), req[u].op \in {"capture", "refund"}, HoldsPayment(u), Fetched(view[u].payment)
      PROVE  HoldsPayment(u)' /\ refundTotal'[req[u].payment] = refundTotal[req[u].payment]
  <2>1. req[u].payment \in Payments
    BY <1>2, RowsInView DEF CaptureRequest, RefundRequest
  <2> QED BY <1>1, <1>2, <2>1 DEF HoldsPayment, tables
<1>3. ASSUME Reached(u, {"account", "commit"}), req[u].op \in {"create", "capture"}, HoldsOrder(u)
      PROVE  HoldsOrder(u)'
  <2>1. TargetOrder(u)' = TargetOrder(u) /\ TargetOrder(u) \in Orders
    BY <1>3, TargetTyped DEF TargetOrder
  <2> QED BY <1>1, <1>3, <2>1 DEF HoldsOrder, tables
<1> QED BY <1>1, <1>2, <1>3, Frame

\* A request that arrives has read nothing yet.
LEMMA BeginViews ==
    ASSUME TypeOK, ViewsAreCurrent, NEW t \in Tasks, Arrive(t)
    PROVE  ViewsAreCurrent'
<1> DEFINE begins == \E request \in Requests, step \in {"lock_order", "lock_payment"} :
                         /\ Begin(t, request, step)
                         /\ request.op = "create" <=> step = "lock_order"
<1>1. begins
  <2>1. \A m \in Merchants : ActiveEndpoints(m) \in SUBSET Endpoints
    BY DEF ActiveEndpoints
  <2>2. ASSUME NEW m \in Merchants, NEW o \in Orders, NEW card \in TestCards,
               BeginCreate(t, m, o, card)
        PROVE  begins
    BY <2>1, <2>2, DecidedType DEF BeginCreate, Requests, CreateRequest
  <2>3. ASSUME NEW m \in Merchants, NEW p \in Payments, BeginCapture(t, m, p)
        PROVE  begins
    BY <2>1, <2>3 DEF BeginCapture, Requests, CaptureRequest
  <2>4. ASSUME NEW m \in Merchants, NEW p \in Payments,
               NEW amount \in RefundAmounts \cup {Nil}, BeginRefund(t, m, p, amount)
        PROVE  begins
    BY <2>1, <2>4 DEF BeginRefund, Requests, RefundRequest
  <2> QED BY <2>2, <2>3, <2>4 DEF Arrive
<1> PICK request \in Requests, step \in {"lock_order", "lock_payment"} :
         /\ Begin(t, request, step)
         /\ request.op = "create" <=> step = "lock_order"
  BY <1>1
<1>2. pc'[t] = step /\ req'[t] = request /\ request # Nil
  BY ConstantsAssumption DEF Begin, Become, TypeOK, RequestsTyped
<1>3. ViewIsCurrent(t)'
  BY <1>2 DEF ViewIsCurrent, Idle, CreateView, CaptureView, RefundView, Reached
<1>4. ASSUME NEW u \in Tasks, u # t PROVE ViewIsCurrent(u)'
  <2>1. /\ UNCHANGED <<tables, locks>>
        /\ pc'[u] = pc[u] /\ req'[u] = req[u] /\ view'[u] = view[u]
    BY <1>4 DEF Begin, Become, TypeOK, RequestsTyped
  <2>2. UNCHANGED tables /\ UNCHANGED paymentLock /\ UNCHANGED orderLock
    BY <2>1 DEF locks
  <2> QED BY <1>4, <2>1, <2>2, LockingKeepsOthers
<1> QED BY <1>3, <1>4 DEF ViewsAreCurrent

\* A payment is read under the lock, so its reader's view is current.
LEMMA LockPaymentViews ==
    ASSUME TypeOK, ViewsAreCurrent, NEW t \in Tasks, LockPayment(t)
    PROVE  ViewsAreCurrent'
<1>1. CASE Rollback(t)
  BY <1>1, RollbackViews
<1>2. CASE ~Rollback(t)
  <2> DEFINE r == req[t]
             payment == payments[r.payment]
  <2>1. r.op \in {"capture", "refund"} /\ r.payment \in Payments /\ r # Nil
    <3>1. r \in Requests /\ r.op # "create" /\ r # Nil
      BY RowsInView DEF LockPayment, Idle, ViewsAreCurrent, ViewIsCurrent, CreateView, Reached
    <3> QED BY <3>1, RequestFields DEF CaptureRequest, RefundRequest
  <2>2. /\ req' = req /\ UNCHANGED tables /\ orderLock' = orderLock
        /\ paymentLock[r.payment] = Nil
        /\ paymentLock' = [paymentLock EXCEPT ![r.payment] = t]
        /\ view' = [view EXCEPT ![t].payment = payment]
        /\ pc' = [pc EXCEPT ![t] = IF r.op = "capture" THEN "lock_order" ELSE "sum_refunds"]
        /\ r.op = "capture" => CaptureMayProceed(r, payment)
        /\ r.op = "refund" => RefundMayProceed(r, payment)
    BY <1>2, <2>1 DEF LockPayment, Acquired, Become
  <2>3. view'[t].payment = payment /\ paymentLock'[r.payment] = t /\ payments' = payments
    BY <2>1, <2>2 DEF TypeOK, RequestsTyped, View, tables
  <2>4. ViewIsCurrent(t)'
    <3>1. pc'[t] = IF r.op = "capture" THEN "lock_order" ELSE "sum_refunds"
      BY <2>2 DEF TypeOK, RequestsTyped
    <3>2. HoldsPayment(t)'
      BY <2>2, <2>3 DEF HoldsPayment
    <3>3. CASE r.op = "capture"
      BY <2>1, <2>2, <2>3, <3>1, <3>2, <3>3 DEF ViewIsCurrent, CaptureView, Reached, Idle
    <3>4. CASE r.op = "refund"
      BY <2>1, <2>2, <2>3, <3>1, <3>2, <3>4 DEF ViewIsCurrent, RefundView, Reached, Idle
    <3> QED BY <2>1, <3>3, <3>4
  <2>5. ASSUME NEW u \in Tasks, u # t PROVE ViewIsCurrent(u)'
    <3>1. pc'[u] = pc[u] /\ req'[u] = req[u] /\ view'[u] = view[u]
      BY <2>2, <2>5 DEF TypeOK, RequestsTyped
    <3>2. \A p \in Payments : paymentLock'[p] = paymentLock[p] \/ paymentLock[p] = Nil
      BY <2>2 DEF TypeOK, RequestsTyped
    <3> QED BY <2>2, <2>5, <3>1, <3>2, LockingKeepsOthers
  <2> QED BY <2>4, <2>5 DEF ViewsAreCurrent
<1> QED BY <1>1, <1>2

\* An order is read under the lock, so its reader's view is current.
LEMMA LockOrderViews ==
    ASSUME TypeOK, ViewsAreCurrent, NEW t \in Tasks, LockOrder(t)
    PROVE  ViewsAreCurrent'
<1>1. CASE Rollback(t)
  BY <1>1, RollbackViews
<1>2. CASE ~Rollback(t)
  <2> DEFINE r == req[t]
             o == TargetOrder(t)
             order == orders[o]
  <2>1. o \in Orders /\ r.op \in {"create", "capture"} /\ r # Nil
    BY TargetTyped DEF LockOrder, Reached, ViewsAreCurrent, ViewIsCurrent, Idle
  <2>2. /\ req' = req /\ UNCHANGED tables /\ paymentLock' = paymentLock
        /\ orderLock[o] = Nil /\ pc[t] = "lock_order"
        /\ orderLock' = [orderLock EXCEPT ![o] = t]
        /\ view' = [view EXCEPT ![t].order = order]
        /\ pc'[t] \in {"commit", "account"} /\ (\A u \in Tasks \ {t} : pc'[u] = pc[u])
        /\ Fetched(order)
        /\ r.op = "create" => CreateMayProceed(r, order)
        /\ r.op = "capture" => CanSettle(view[t].payment, order)
    BY <1>2, <2>1 DEF LockOrder, Acquired, Become, TypeOK, RequestsTyped
  <2>3. /\ view'[t].order = order /\ view'[t].payment = view[t].payment
        /\ orderLock'[o] = t /\ orders' = orders /\ payments' = payments
    BY <2>1, <2>2 DEF TypeOK, RequestsTyped, View, tables
  <2>4. ViewIsCurrent(t)'
    <3>1. TargetOrder(t)' = o
      BY <2>2, <2>3 DEF TargetOrder
    <3>2. HoldsOrder(t)'
      BY <2>2, <2>3, <3>1 DEF HoldsOrder
    <3>3. CASE r.op = "create"
      BY <2>1, <2>2, <2>3, <3>2, <3>3 DEF ViewIsCurrent, CreateView, Reached, Idle
    <3>4. CASE r.op = "capture"
      <4>1. HoldsPayment(t)' /\ CaptureMayProceed(r, view[t].payment)
        BY <2>2, <2>3, <3>4
           DEF ViewsAreCurrent, ViewIsCurrent, CaptureView, Reached, Idle, HoldsPayment
      <4> QED BY <2>1, <2>2, <2>3, <3>2, <3>4, <4>1 DEF ViewIsCurrent, CaptureView, Reached, Idle
    <3> QED BY <2>1, <3>3, <3>4
  <2>5. ASSUME NEW u \in Tasks, u # t PROVE ViewIsCurrent(u)'
    <3>1. pc'[u] = pc[u] /\ req'[u] = req[u] /\ view'[u] = view[u]
      BY <2>2, <2>5 DEF TypeOK, RequestsTyped
    <3>2. \A q \in Orders : orderLock'[q] = orderLock[q] \/ orderLock[q] = Nil
      BY <2>2 DEF TypeOK, RequestsTyped
    <3> QED BY <2>2, <2>5, <3>1, <3>2, LockingKeepsOthers
  <2> QED BY <2>4, <2>5 DEF ViewsAreCurrent
<1> QED BY <1>1, <1>2

\* The running total of refunds is read under the payment's lock.
LEMMA SumRefundsViews ==
    ASSUME TypeOK, ViewsAreCurrent, NEW t \in Tasks, SumRefunds(t)
    PROVE  ViewsAreCurrent'
<1>1. CASE Rollback(t)
  BY <1>1, RollbackViews
<1>2. CASE ~Rollback(t)
  <2> DEFINE r == req[t]
             refunded == refundTotal[r.payment]
             amount == RefundAmount(r, view[t].payment.amount - refunded)
  <2>1. r.op = "refund" /\ r # Nil
    BY RowsInView, RequestFields
       DEF SumRefunds, Idle, ViewsAreCurrent, ViewIsCurrent, CreateView, CaptureView, Reached
  <2>2. /\ req' = req /\ UNCHANGED tables /\ paymentLock' = paymentLock /\ orderLock' = orderLock
        /\ pc[t] = "sum_refunds" /\ pc'[t] = "account" /\ (\A u \in Tasks \ {t} : pc'[u] = pc[u])
        /\ view' = [view EXCEPT ![t] = [@ EXCEPT !.refunded = refunded, !.amount = amount]]
        /\ RefundAllowed(amount, view[t].payment.amount - refunded)
    BY <1>2 DEF SumRefunds, Become, TypeOK, RequestsTyped, locks
  <2>3. /\ view'[t].refunded = refunded /\ view'[t].amount = amount
        /\ view'[t].payment = view[t].payment
        /\ payments' = payments /\ refundTotal' = refundTotal
    <3> HIDE DEF refunded, amount
    <3> QED BY <2>2 DEF TypeOK, RequestsTyped, View, tables
  <2>4. ViewIsCurrent(t)'
    <3>1. HoldsPayment(t)' /\ RefundMayProceed(r, view[t].payment)
      BY <2>1, <2>2, <2>3
         DEF ViewsAreCurrent, ViewIsCurrent, RefundView, Reached, Idle, HoldsPayment
    <3> QED BY <2>1, <2>2, <2>3, <3>1 DEF ViewIsCurrent, RefundView, Reached, Idle
  <2>5. ASSUME NEW u \in Tasks, u # t PROVE ViewIsCurrent(u)'
    <3>1. pc'[u] = pc[u] /\ req'[u] = req[u] /\ view'[u] = view[u]
      BY <2>2, <2>5 DEF TypeOK, RequestsTyped
    <3> QED BY <2>2, <2>5, <3>1, LockingKeepsOthers
  <2> QED BY <2>4, <2>5 DEF ViewsAreCurrent
<1> QED BY <1>1, <1>2

\* Finding a ledger account leaves every view current.
LEMMA AccountViews ==
    ASSUME TypeOK, ViewsAreCurrent, NEW t \in Tasks, FindOrCreateAccount(t)
    PROVE  ViewsAreCurrent'
<1>1. /\ UNCHANGED tables /\ paymentLock' = paymentLock /\ orderLock' = orderLock
      /\ req' = req /\ view' = view
      /\ pc[t] = "account" /\ pc'[t] = "commit" /\ (\A u \in Tasks \ {t} : pc'[u] = pc[u])
  BY DEF FindOrCreateAccount, Become, TypeOK, RequestsTyped
<1>2. ViewIsCurrent(t)'
  <2>1. /\ orders' = orders /\ payments' = payments /\ refundTotal' = refundTotal
        /\ TargetOrder(t)' = TargetOrder(t)
    BY <1>1 DEF tables, TargetOrder
  <2>2. HoldsOrder(t)' = HoldsOrder(t) /\ HoldsPayment(t)' = HoldsPayment(t)
    BY <1>1, <2>1 DEF HoldsOrder, HoldsPayment
  <2> QED BY <1>1, <2>1, <2>2
          DEF ViewsAreCurrent, ViewIsCurrent, CreateView, CaptureView, RefundView, Reached, Idle
<1>3. ASSUME NEW u \in Tasks, u # t PROVE ViewIsCurrent(u)'
  BY <1>1, <1>3, LockingKeepsOthers
<1> QED BY <1>2, <1>3 DEF ViewsAreCurrent

\* New orders and endpoint changes touch no row that a task has locked.
LEMMA EnvironmentViews ==
    ASSUME TypeOK, ViewsAreCurrent,
           \/ \E o \in Orders, m \in Merchants, amount \in Amounts, currency \in Currencies :
                 CreateOrder(o, m, amount, currency)
           \/ \E e \in Endpoints : RegisterEndpoint(e) \/ DisableEndpoint(e)
           \/ UNCHANGED vars
    PROVE  ViewsAreCurrent'
<1> SUFFICES ASSUME NEW u \in Tasks PROVE ViewIsCurrent(u)'
  BY DEF ViewsAreCurrent
<1>1. /\ UNCHANGED <<payments, refundTotal, paymentLock, orderLock, pc, req, view>>
      /\ \A o \in Orders : orders'[o] = orders[o] \/ orders[o] = Nil
  BY DEF CreateOrder, InsertOrder, RegisterEndpoint, DisableEndpoint, vars, tables, locks,
        TypeOK, TablesTyped
<1>2. ASSUME Reached(u, {"account", "commit"}), req[u].op \in {"create", "capture"}, HoldsOrder(u)
      PROVE  HoldsOrder(u)'
  <2>1. TargetOrder(u)' = TargetOrder(u) /\ TargetOrder(u) \in Orders
    BY <1>1, <1>2, TargetTyped DEF TargetOrder
  <2> QED BY <1>1, <1>2, <2>1 DEF HoldsOrder, Fetched
<1>3. ASSUME HoldsPayment(u) PROVE HoldsPayment(u)'
  BY <1>1, <1>3 DEF HoldsPayment
<1> QED BY <1>1, <1>2, <1>3, Frame DEF ViewsAreCurrent

\* Every step keeps what every request has read and checked current.
LEMMA ViewsStep ==
    ASSUME TypeOK, ViewsAreCurrent, [Next]_vars
    PROVE  ViewsAreCurrent'
<1>1. ASSUME NEW t \in Tasks, Arrive(t) \/ Step(t) \/ Abort(t)
      PROVE  ViewsAreCurrent'
  BY <1>1, BeginViews, LockPaymentViews, LockOrderViews, SumRefundsViews, AccountViews,
     CommitCreateViews, CommitCaptureViews, CommitRefundViews, RollbackViews DEF Step, Abort
<1> QED BY <1>1, EnvironmentViews DEF Next

-----------------------------------------------------------------------------
\* Initially every variable has its shape and no request is in progress.
LEMMA InitTyped == Init => TypeOK /\ ViewsAreCurrent
<1> SUFFICES ASSUME Init PROVE TypeOK /\ ViewsAreCurrent
  OBVIOUS
<1>1. TablesTyped
  BY DEF Init, TablesTyped, NoPosition, Position
<1>2. RequestsTyped
  BY DEF Init, RequestsTyped, Holder, Steps, View, NoView
<1>3. ViewsAreCurrent
  BY DEF Init, ViewsAreCurrent, ViewIsCurrent, Idle
<1> QED BY <1>1, <1>2, <1>3 DEF TypeOK

\* Every reachable state is well typed, and whatever a request has read under its
\* row locks is still what the tables hold, until it commits or rolls back.
THEOREM TypeCorrect == Spec => [](TypeOK /\ ViewsAreCurrent)
<1>1. TypeOK /\ ViewsAreCurrent /\ [Next]_vars => (TypeOK /\ ViewsAreCurrent)'
  BY TypeStep, ViewsStep
<1> QED BY InitTyped, <1>1, PTL DEF Spec

-----------------------------------------------------------------------------
(* Locks.  A lock has a rank: payment, order, account.  Who holds a lock has *)
(* passed the step that takes it, and waits, if at all, for one of a higher  *)
(* rank.                                                                     *)

\* The holder of a lock is past the step that acquires it.
LocksHaveHolders ==
    /\ \A p \in Payments, t \in Tasks : paymentLock[p] = t =>
          Reached(t, {"lock_order", "sum_refunds", "account", "commit"})
    /\ \A o \in Orders, t \in Tasks : orderLock[o] = t => Reached(t, {"account", "commit"})
    /\ \A a \in Merchants \X Currencies, t \in Tasks : accountLock[a] = t =>
          Reached(t, {"commit"})

LockInv == TypeOK /\ ViewsAreCurrent /\ LocksHaveHolders

-----------------------------------------------------------------------------
\* A transaction that ends has no lock left, and nobody gets one.
LEMMA FinishFreesLocks ==
    ASSUME LockInv, NEW t \in Tasks, Finish(t)
    PROVE  LocksHaveHolders'
<1>1. /\ paymentLock' = Held(paymentLock, t) /\ orderLock' = Held(orderLock, t)
      /\ accountLock' = Held(accountLock, t)
      /\ \A u \in Tasks : u # t => pc'[u] = pc[u]
      /\ paymentLock \in [Payments -> Holder] /\ orderLock \in [Orders -> Holder]
      /\ accountLock \in [Merchants \X Currencies -> Holder]
      /\ Nil \notin Tasks
  BY ConstantsAssumption DEF Finish, Release, Become, LockInv, TypeOK, RequestsTyped
<1>2. /\ \A p \in Payments, u \in Tasks : paymentLock'[p] = u => u # t /\ paymentLock[p] = u
      /\ \A o \in Orders, u \in Tasks : orderLock'[o] = u => u # t /\ orderLock[o] = u
      /\ \A a \in Merchants \X Currencies, u \in Tasks : accountLock'[a] = u =>
            u # t /\ accountLock[a] = u
  BY <1>1 DEF Held
<1> QED BY <1>1, <1>2 DEF LockInv, LocksHaveHolders, Reached

\* A step that only goes on keeps the holders, whichever lock it takes on its way.
LEMMA GoingOnKeepsHolders ==
    ASSUME LockInv, NEW t \in Tasks, NEW step \in Steps, Become(t, step),
           \A p \in Payments : paymentLock'[p] # paymentLock[p] =>
              paymentLock'[p] = t /\ step \in {"lock_order", "sum_refunds", "account", "commit"},
           \A o \in Orders : orderLock'[o] # orderLock[o] =>
              orderLock'[o] = t /\ step \in {"account", "commit"},
           \A a \in Merchants \X Currencies : accountLock'[a] # accountLock[a] =>
              accountLock'[a] = t /\ step = "commit",
           \/ Idle(t) \/ Reached(t, {"lock_payment"})
           \/ Reached(t, {"lock_order", "sum_refunds"}) /\ step \in {"account", "commit"}
           \/ Reached(t, {"account"}) /\ step = "commit"
    PROVE  LocksHaveHolders'
<1>1. /\ pc'[t] = step /\ \A u \in Tasks : u # t => pc'[u] = pc[u]
  BY DEF Become, LockInv, TypeOK, RequestsTyped
<1>2. ASSUME NEW p \in Payments, NEW u \in Tasks, paymentLock'[p] = u
      PROVE  Reached(u, {"lock_order", "sum_refunds", "account", "commit"})'
  BY <1>1, <1>2 DEF LockInv, LocksHaveHolders, Reached, Idle
<1>3. ASSUME NEW o \in Orders, NEW u \in Tasks, orderLock'[o] = u
      PROVE  Reached(u, {"account", "commit"})'
  BY <1>1, <1>3 DEF LockInv, LocksHaveHolders, Reached, Idle
<1>4. ASSUME NEW a \in Merchants \X Currencies, NEW u \in Tasks, accountLock'[a] = u
      PROVE  Reached(u, {"commit"})'
  BY <1>1, <1>4 DEF LockInv, LocksHaveHolders, Reached, Idle
<1> QED BY <1>2, <1>3, <1>4 DEF LocksHaveHolders

\* Every step keeps the holders.
LEMMA LocksStep ==
    ASSUME LockInv, [Next]_vars
    PROVE  LocksHaveHolders'
<1> USE DEF Steps
<1>1. CASE UNCHANGED <<locks, pc>>
  BY <1>1 DEF locks, LockInv, LocksHaveHolders, Reached
<1>2. ASSUME NEW t \in Tasks, Arrive(t)
      PROVE  LocksHaveHolders'
  <2>1. \E step \in {"lock_order", "lock_payment"} :
           Idle(t) /\ Become(t, step) /\ UNCHANGED locks
    BY <1>2 DEF Arrive, BeginCreate, BeginCapture, BeginRefund, Begin
  <2> QED BY <2>1, GoingOnKeepsHolders DEF locks
<1>3. ASSUME NEW t \in Tasks, LockPayment(t)
      PROVE  LocksHaveHolders'
  <2>1. CASE Rollback(t)
    BY <2>1, FinishFreesLocks DEF Rollback
  <2>2. CASE ~Rollback(t)
    <3>1. /\ Reached(t, {"lock_payment"}) /\ UNCHANGED <<orderLock, accountLock>>
          /\ paymentLock' = [paymentLock EXCEPT ![req[t].payment] = t]
          /\ \E step \in {"lock_order", "sum_refunds"} : Become(t, step)
      BY <1>3, <2>2 DEF LockPayment, Acquired, Reached
    <3>2. paymentLock \in [Payments -> Holder]
      BY DEF LockInv, TypeOK, RequestsTyped
    <3> QED BY <3>1, <3>2, GoingOnKeepsHolders
  <2> QED BY <2>1, <2>2
<1>4. ASSUME NEW t \in Tasks, LockOrder(t)
      PROVE  LocksHaveHolders'
  <2>1. CASE Rollback(t)
    BY <2>1, FinishFreesLocks DEF Rollback
  <2>2. CASE ~Rollback(t)
    <3>1. /\ Reached(t, {"lock_order"}) /\ UNCHANGED <<paymentLock, accountLock>>
          /\ orderLock' = [orderLock EXCEPT ![TargetOrder(t)] = t]
          /\ \E step \in {"account", "commit"} : Become(t, step)
      BY <1>4, <2>2 DEF LockOrder, Acquired, Reached
    <3>2. orderLock \in [Orders -> Holder]
      BY DEF LockInv, TypeOK, RequestsTyped
    <3>3. Reached(t, {"lock_order", "sum_refunds"})
      BY <3>1 DEF Reached
    <3> QED BY <3>1, <3>2, <3>3, GoingOnKeepsHolders
  <2> QED BY <2>1, <2>2
<1>5. ASSUME NEW t \in Tasks, SumRefunds(t)
      PROVE  LocksHaveHolders'
  <2>1. CASE Rollback(t)
    BY <2>1, FinishFreesLocks DEF Rollback
  <2>2. CASE ~Rollback(t)
    <3>1. Reached(t, {"lock_order", "sum_refunds"}) /\ UNCHANGED locks /\ Become(t, "account")
      BY <1>5, <2>2 DEF SumRefunds, Reached
    <3> QED BY <3>1, GoingOnKeepsHolders DEF locks
  <2> QED BY <2>1, <2>2
<1>6. ASSUME NEW t \in Tasks, FindOrCreateAccount(t)
      PROVE  LocksHaveHolders'
  <2>1. /\ Reached(t, {"account"}) /\ UNCHANGED <<paymentLock, orderLock>> /\ Become(t, "commit")
        /\ \/ UNCHANGED accountLock
           \/ accountLock' = [accountLock EXCEPT ![Account(t)] = t]
    BY <1>6 DEF FindOrCreateAccount, Reached
  <2>2. accountLock \in [Merchants \X Currencies -> Holder]
    BY DEF LockInv, TypeOK, RequestsTyped
  <2> QED BY <2>1, <2>2, GoingOnKeepsHolders
<1>7. ASSUME NEW t \in Tasks, Abort(t) \/ CommitCapture(t) \/ CommitRefund(t)
                              \/ \E p \in Payments : CommitCreate(t, p)
      PROVE  LocksHaveHolders'
  BY <1>7, FinishFreesLocks DEF Abort, Rollback, CommitCapture, CommitRefund, CommitCreate
<1>8. ASSUME \/ \E o \in Orders, m \in Merchants, amount \in Amounts, currency \in Currencies :
                   CreateOrder(o, m, amount, currency)
             \/ \E e \in Endpoints : RegisterEndpoint(e) \/ DisableEndpoint(e)
      PROVE  LocksHaveHolders'
  BY <1>1, <1>8 DEF CreateOrder, RegisterEndpoint, DisableEndpoint
<1>9. CASE UNCHANGED vars
  BY <1>1, <1>9 DEF vars
<1> QED BY <1>2, <1>3, <1>4, <1>5, <1>6, <1>7, <1>8, <1>9 DEF Next, Step

-----------------------------------------------------------------------------
\* What a request waits for is a lock that exists.
LEMMA AwaitedLockExists ==
    ASSUME LockInv, NEW t \in Tasks
    PROVE  /\ Reached(t, {"lock_payment"}) => req[t].payment \in Payments
           /\ Reached(t, {"lock_order"}) => TargetOrder(t) \in Orders
           /\ Reached(t, {"account"}) => Account(t) \in Merchants \X Currencies
<1>1. TypeOK /\ ViewsAreCurrent
  BY DEF LockInv
<1>2. Reached(t, {"lock_payment"}) => req[t].payment \in Payments
  <2> SUFFICES ASSUME Reached(t, {"lock_payment"}) PROVE req[t].payment \in Payments
    OBVIOUS
  <2>1. req[t] \in Requests /\ req[t].op # "create"
    BY <1>1, RowsInView DEF Idle, Reached, ViewsAreCurrent, ViewIsCurrent, CreateView
  <2> QED BY <2>1, RequestFields DEF CaptureRequest, RefundRequest
<1>3. Reached(t, {"account"}) => Account(t) \in Merchants \X Currencies
  <2> SUFFICES ASSUME Reached(t, {"account"}) PROVE Account(t) \in Merchants \X Currencies
    OBVIOUS
  <2>1. ~Idle(t) /\ Reached(t, {"account", "commit"}) /\ ~Reached(t, {"lock_payment"})
    BY DEF Idle, Reached
  <2>2. req[t] \in Requests
    BY <1>1, <2>1, RowsInView
  <2>3. CASE req[t].op = "create"
    BY <1>1, <2>1, <2>3, RowsInView DEF Account, OrderRow
  <2>4. CASE req[t].op = "capture"
    BY <1>1, <2>1, <2>4, RowsInView DEF Account, PaymentRow
  <2>5. CASE req[t].op = "refund"
    BY <1>1, <2>1, <2>5, RowsInView DEF Account, PaymentRow, RefundRequest
  <2> QED BY <2>2, <2>3, <2>4, <2>5, RequestFields
<1> QED BY <1>1, <1>2, <1>3, TargetTyped

\* Whom a request waits for is at a later step, and nobody waits at the last one.
LEMMA AwaitedIsAhead ==
    ASSUME LockInv, NEW t \in Tasks, NEW u \in Tasks, Awaits(t, u)
    PROVE  \/ Reached(t, {"lock_payment"})
              /\ Reached(u, {"lock_order", "sum_refunds", "account", "commit"})
           \/ Reached(t, {"lock_order"}) /\ Reached(u, {"account", "commit"})
           \/ Reached(t, {"account"}) /\ Reached(u, {"commit"})
BY AwaitedLockExists DEF Awaits, LockInv, LocksHaveHolders, Reached

\* Whatever is waiting, its furthest member is not waiting for another of them.
LEMMA NoCircle == LockInv => NoDeadlock
<1> SUFFICES ASSUME LockInv, NEW S \in SUBSET Tasks, S # {},
                    \A t \in S : \E u \in S : Awaits(t, u)
             PROVE  FALSE
  BY DEF NoDeadlock
<1>1. \A t \in S : ~Reached(t, {"commit"})
  BY AwaitedIsAhead DEF Reached
<1>2. \A t \in S : ~Reached(t, {"account"})
  BY <1>1, AwaitedIsAhead DEF Reached
<1>3. \A t \in S : ~Reached(t, {"lock_order"})
  BY <1>1, <1>2, AwaitedIsAhead DEF Reached
<1>4. \A t \in S : ~Reached(t, {"sum_refunds"})
  BY AwaitedIsAhead DEF Reached
<1> QED BY <1>1, <1>2, <1>3, <1>4, AwaitedIsAhead DEF Reached

\* No set of requests can be waiting for each other's row locks (tx.rs, "the
\* deadlock rule").
THEOREM NobodyWaitsInACircle == Spec => []NoDeadlock
<1>1. Init => LockInv
  <2> SUFFICES ASSUME Init PROVE LockInv
    OBVIOUS
  <2>1. LocksHaveHolders
    BY ConstantsAssumption DEF Init, LocksHaveHolders
  <2> QED BY <2>1, InitTyped DEF LockInv
<1>2. LockInv /\ [Next]_vars => LockInv'
  BY TypeStep, ViewsStep, LocksStep DEF LockInv
<1> QED BY <1>1, <1>2, NoCircle, PTL DEF Spec

-----------------------------------------------------------------------------
(* Money.  An order collects at most once, and refunds stay within the payment. *)

\* What the money invariants need besides each other: amounts are positive, a
\* payment has an order, and a payment that does not exist has no refunds.
RowsSound ==
    /\ \A o \in Orders : orders[o] # Nil => orders[o].amount > 0
    /\ \A p \in Payments : IF payments[p] = Nil THEN refundTotal[p] = 0
                           ELSE payments[p].amount > 0 /\ orders[payments[p].order] # Nil

MoneySafe == RowsSound /\ OneCapturePerOrder /\ RefundsWithinPayment
Inv == TypeOK /\ ViewsAreCurrent /\ MoneySafe

-----------------------------------------------------------------------------
\* The money invariants speak of three tables only.
LEMMA MoneyFrame ==
    ASSUME MoneySafe, UNCHANGED <<orders, payments, refundTotal>>
    PROVE  MoneySafe'
BY DEF MoneySafe, RowsSound, OneCapturePerOrder, RefundsWithinPayment, Settled

\* A new order keeps the money invariant: nothing has been paid on it.
LEMMA CreateOrderMoney ==
    ASSUME Inv, NEW o \in Orders, NEW m \in Merchants, NEW amount \in Amounts,
           NEW currency \in Currencies, CreateOrder(o, m, amount, currency)
    PROVE  MoneySafe'
<1> DEFINE row == [status |-> "created", merchant |-> m, amount |-> amount,
                   currency |-> currency, amount_paid |-> 0]
<1>1. /\ orders[o] = Nil /\ amount >= 100 /\ amount \in Int
      /\ orders' = [orders EXCEPT ![o] = row]
      /\ payments' = payments /\ refundTotal' = refundTotal
  BY ConstantsAssumption DEF CreateOrder, InsertOrder, MIN_AMOUNT_MINOR
<1>2. orders'[o] = row /\ \A x \in Orders : x # o => orders'[x] = orders[x]
  BY <1>1 DEF Inv, TypeOK, TablesTyped
<1>3. row # Nil
  <2>1. row \in OrderRow
    BY <1>1 DEF OrderRow, OrderStatus
  <2> QED BY <2>1, ConstantsAssumption
<1>4. \A p \in Payments : payments[p] # Nil => payments[p].order \in Orders /\ payments[p].order # o
  BY <1>1 DEF Inv, MoneySafe, RowsSound, TypeOK, TablesTyped, PaymentRow
<1>5. RowsSound'
  BY <1>1, <1>2, <1>3, <1>4 DEF Inv, MoneySafe, RowsSound
<1>6. OneCapturePerOrder'
  BY <1>1, <1>2, <1>3, <1>4 DEF Inv, MoneySafe, OneCapturePerOrder, Settled
<1>7. RefundsWithinPayment'
  BY <1>1 DEF Inv, MoneySafe, RefundsWithinPayment, Settled
<1> QED BY <1>5, <1>6, <1>7 DEF MoneySafe

\* Settling: an order that was not paid becomes paid by one payment row.
LEMMA SettleMoney ==
    ASSUME Inv, NEW o \in Orders, NEW p \in Payments,
           NEW order \in OrderRow, NEW payment \in PaymentRow,
           orders[o] # Nil, orders[o].status # "paid",
           order.status = "paid", order.amount > 0, order.amount_paid = payment.amount,
           payment.status = "captured", payment.order = o, payment.amount > 0,
           payment.amount_refunded = 0, refundTotal[p] = 0,
           payments[p] # Nil => payments[p].order = o,
           orders' = [orders EXCEPT ![o] = order],
           payments' = [payments EXCEPT ![p] = payment],
           refundTotal' = refundTotal
    PROVE  MoneySafe'
<1>1. orders'[o] = order /\ \A x \in Orders : x # o => orders'[x] = orders[x]
  BY DEF Inv, TypeOK, TablesTyped
<1>2. payments'[p] = payment /\ \A q \in Payments : q # p => payments'[q] = payments[q]
  BY DEF Inv, TypeOK, TablesTyped
<1>3. order # Nil /\ payment # Nil
  BY ConstantsAssumption
<1>4. \A q \in Payments : payments[q] # Nil => payments[q].order \in Orders
  BY DEF Inv, TypeOK, TablesTyped, PaymentRow
<1>5. \A q \in Payments : Settled(q) => payments[q].order # o
  BY DEF Inv, MoneySafe, OneCapturePerOrder, Settled
<1>6. Settled(p)' /\ \A q \in Payments : q # p => (Settled(q)' <=> Settled(q))
  BY <1>2, <1>3 DEF Settled
<1>7. RowsSound'
  BY <1>1, <1>2, <1>3, <1>4 DEF Inv, MoneySafe, RowsSound
<1>8. OneCapturePerOrder'
  <2>1. ASSUME NEW q \in Payments, NEW r \in Payments, Settled(q)', Settled(r)',
               payments'[q].order = payments'[r].order
        PROVE  q = r
    BY <1>2, <1>5, <1>6, <2>1 DEF Inv, MoneySafe, OneCapturePerOrder
  <2>2. ASSUME NEW x \in Orders, orders'[x] # Nil
        PROVE  LET paid == {q \in Payments : Settled(q)' /\ payments'[q].order = x}
               IN  /\ orders'[x].status = "paid" <=> paid # {}
                   /\ \A q \in paid : orders'[x].amount_paid = payments'[q].amount
    <3>1. CASE x = o
      <4>1. {q \in Payments : Settled(q)' /\ payments'[q].order = x} = {p}
        BY <1>2, <1>5, <1>6, <3>1
      <4> QED BY <1>1, <1>2, <3>1, <4>1
    <3>2. CASE x # o
      <4>1. {q \in Payments : Settled(q)' /\ payments'[q].order = x}
              = {q \in Payments : Settled(q) /\ payments[q].order = x}
        BY <1>2, <1>5, <1>6, <3>2 DEF Settled
      <4>2. \A q \in Payments : Settled(q) /\ payments[q].order = x => payments'[q] = payments[q]
        BY <1>2, <3>2 DEF Settled
      <4> QED BY <1>1, <2>2, <3>2, <4>1, <4>2 DEF Inv, MoneySafe, OneCapturePerOrder
    <3> QED BY <3>1, <3>2
  <2> QED BY <2>1, <2>2 DEF OneCapturePerOrder
<1>9. RefundsWithinPayment'
  <2> SUFFICES ASSUME NEW q \in Payments, payments'[q] # Nil
               PROVE  /\ refundTotal[q] = payments'[q].amount_refunded
                      /\ refundTotal[q] <= payments'[q].amount
                      /\ refundTotal[q] > 0 => Settled(q)'
                      /\ payments'[q].status = "refunded" <=> refundTotal[q] = payments'[q].amount
    BY DEF RefundsWithinPayment
  <2>1. CASE q = p
    <3>1. payment.amount \in Nat
      BY DEF PaymentRow
    <3> QED BY <1>2, <1>6, <2>1, <3>1
  <2>2. CASE q # p
    BY <1>2, <1>6, <2>2 DEF Inv, MoneySafe, RefundsWithinPayment
  <2> QED BY <2>1, <2>2
<1> QED BY <1>7, <1>8, <1>9 DEF MoneySafe

\* An attempt that collects nothing adds a payment row that is not settled.
LEMMA AttemptMoney ==
    ASSUME Inv, NEW o \in Orders, NEW p \in Payments,
           NEW order \in OrderRow, NEW payment \in PaymentRow,
           orders[o] # Nil, orders[o].status # "paid",
           order.status = "attempted", order.amount > 0,
           payment.status \notin {"captured", "refunded"}, payment.order = o,
           payment.amount > 0, payment.amount_refunded = 0, payments[p] = Nil,
           orders' = [orders EXCEPT ![o] = order],
           payments' = [payments EXCEPT ![p] = payment],
           refundTotal' = refundTotal
    PROVE  MoneySafe'
<1>1. orders'[o] = order /\ \A x \in Orders : x # o => orders'[x] = orders[x]
  BY DEF Inv, TypeOK, TablesTyped
<1>2. payments'[p] = payment /\ \A q \in Payments : q # p => payments'[q] = payments[q]
  BY DEF Inv, TypeOK, TablesTyped
<1>3. order # Nil /\ payment # Nil
  BY ConstantsAssumption
<1>4. \A q \in Payments : payments[q] # Nil => payments[q].order \in Orders
  BY DEF Inv, TypeOK, TablesTyped, PaymentRow
<1>5. \A q \in Payments : Settled(q) => q # p /\ payments[q].order # o
  BY DEF Inv, MoneySafe, OneCapturePerOrder, Settled
<1>6. \A q \in Payments : Settled(q)' <=> Settled(q)
  BY <1>2 DEF Settled
<1>7. RowsSound'
  BY <1>1, <1>2, <1>3, <1>4 DEF Inv, MoneySafe, RowsSound
<1>8. OneCapturePerOrder'
  <2>1. ASSUME NEW q \in Payments, NEW r \in Payments, Settled(q)', Settled(r)',
               payments'[q].order = payments'[r].order
        PROVE  q = r
    BY <1>2, <1>5, <1>6, <2>1 DEF Inv, MoneySafe, OneCapturePerOrder
  <2>2. ASSUME NEW x \in Orders, orders'[x] # Nil
        PROVE  LET paid == {q \in Payments : Settled(q)' /\ payments'[q].order = x}
               IN  /\ orders'[x].status = "paid" <=> paid # {}
                   /\ \A q \in paid : orders'[x].amount_paid = payments'[q].amount
    <3>1. {q \in Payments : Settled(q)' /\ payments'[q].order = x}
            = {q \in Payments : Settled(q) /\ payments[q].order = x}
      BY <1>2, <1>5, <1>6
    <3>2. \A q \in Payments : Settled(q) => payments'[q] = payments[q]
      BY <1>2, <1>5
    <3>3. CASE x = o
      BY <1>1, <1>5, <3>1, <3>3
    <3>4. CASE x # o
      BY <1>1, <2>2, <3>1, <3>2, <3>4 DEF Inv, MoneySafe, OneCapturePerOrder
    <3> QED BY <3>3, <3>4
  <2> QED BY <2>1, <2>2 DEF OneCapturePerOrder
<1>9. RefundsWithinPayment'
  <2> SUFFICES ASSUME NEW q \in Payments, payments'[q] # Nil
               PROVE  /\ refundTotal[q] = payments'[q].amount_refunded
                      /\ refundTotal[q] <= payments'[q].amount
                      /\ refundTotal[q] > 0 => Settled(q)'
                      /\ payments'[q].status = "refunded" <=> refundTotal[q] = payments'[q].amount
    BY DEF RefundsWithinPayment
  <2>1. CASE q = p
    <3>1. payment.amount \in Nat /\ refundTotal[p] = 0
      BY DEF PaymentRow, Inv, MoneySafe, RowsSound
    <3> QED BY <1>2, <2>1, <3>1
  <2>2. CASE q # p
    BY <1>2, <1>6, <2>2 DEF Inv, MoneySafe, RefundsWithinPayment
  <2> QED BY <2>1, <2>2
<1> QED BY <1>7, <1>8, <1>9 DEF MoneySafe

\* The COMMIT of a create keeps the money invariant: it captures only on an
\* order that it holds and that was not paid.
LEMMA CommitCreateMoney ==
    ASSUME Inv, NEW t \in Tasks, NEW p \in Payments, CommitCreate(t, p)
    PROVE  MoneySafe'
<1> DEFINE r == req[t]
           o == r.order
           order == view[t].order
           payment == Attempted(NewAttempt(o, order), r.outcome)
           attempted == [order EXCEPT !.status = "attempted"]
           paid == MarkPaid(attempted, payment.amount)
<1>1. pc[t] = "commit" /\ r.op = "create" /\ TypeOK /\ ViewsAreCurrent
  BY DEF CommitCreate, InsertPayment, UpdateOrder, InsertEvents, Inv
<1>2. r \in CreateRequest /\ order \in OrderRow /\ o \in Orders /\ r.outcome \in Outcomes
  BY <1>1, RowsInView DEF Idle, Reached, CreateRequest
<1>3. orders[o] = order /\ order # Nil /\ order.status # "paid"
  BY <1>1 DEF ViewsAreCurrent, ViewIsCurrent, CreateView, HoldsOrder, TargetOrder, Fetched,
              CreateMayProceed, IsTerminal, Idle, Reached
<1>4. order.amount > 0
  BY <1>2, <1>3 DEF Inv, MoneySafe, RowsSound
<1>5. /\ payment \in PaymentRow /\ payment.order = o
      /\ payment.amount = order.amount /\ payment.amount_refunded = 0
      /\ payment.status = "captured" <=> Settles(r.outcome)
      /\ payment.status # "refunded"
  <2>1. payment \in PaymentRow
    BY <1>2, AttemptedType
  <2>2. /\ payment.order = o /\ payment.amount = order.amount /\ payment.amount_refunded = 0
        /\ payment.status = "captured" <=> Settles(r.outcome)
        /\ payment.status # "refunded"
    BY <1>2 DEF Attempted, NewAttempt, MarkCaptured, Settles, Outcomes
  <2> QED BY <2>1, <2>2
<1> HIDE DEF payment
<1>6. /\ attempted \in OrderRow /\ attempted.status = "attempted" /\ attempted.amount = order.amount
      /\ paid \in OrderRow /\ paid.status = "paid" /\ paid.amount = order.amount
      /\ paid.amount_paid = payment.amount
  <2>1. payment.amount \in Nat
    BY <1>5 DEF PaymentRow
  <2> QED BY <1>2, <2>1 DEF MarkPaid, OrderRow, OrderStatus
<1>7. /\ payments[p] = Nil /\ refundTotal' = refundTotal
      /\ payments' = [payments EXCEPT ![p] = payment]
      /\ orders' = [orders EXCEPT ![o] = IF Settles(r.outcome) THEN paid ELSE attempted]
  BY DEF CommitCreate, InsertPayment, UpdateOrder, InsertEvents, payment
<1>8. refundTotal[p] = 0
  BY <1>7 DEF Inv, MoneySafe, RowsSound
<1> HIDE DEF attempted, paid, order, o
<1>9. CASE Settles(r.outcome)
  BY <1>2, <1>3, <1>4, <1>5, <1>6, <1>7, <1>8, <1>9, SettleMoney
<1>10. CASE ~Settles(r.outcome)
  BY <1>2, <1>3, <1>4, <1>5, <1>6, <1>7, <1>10, AttemptMoney
<1> QED BY <1>9, <1>10

\* The COMMIT of a capture keeps the money invariant: it captures only on an
\* order that it holds and that was not paid.
LEMMA CommitCaptureMoney ==
    ASSUME Inv, NEW t \in Tasks, CommitCapture(t)
    PROVE  MoneySafe'
<1> DEFINE p == req[t].payment
           before == view[t].payment
           payment == MarkCaptured(before)
           o == before.order
           order == MarkPaid(view[t].order, payment.amount)
<1>1. pc[t] = "commit" /\ req[t].op = "capture" /\ TypeOK /\ ViewsAreCurrent
  BY DEF CommitCapture, UpdatePayment, UpdateOrder, InsertEvents, Inv
<1>2. /\ p \in Payments /\ before \in PaymentRow /\ view[t].order \in OrderRow
      /\ o \in Orders /\ before.amount \in Nat
  BY <1>1, RowsInView DEF Idle, Reached, CaptureRequest, PaymentRow
<1>3. /\ payments[p] = before /\ before # Nil /\ before.status = "authorized"
      /\ orders[o] = view[t].order /\ orders[o] # Nil
      /\ <<view[t].order.status, "paid">> \in OrderMoves
  <2>1. CaptureView(t)
    BY <1>1 DEF ViewsAreCurrent, ViewIsCurrent, Idle
  <2>2. HoldsPayment(t) /\ CaptureMayProceed(req[t], before)
    BY <1>1, <2>1 DEF CaptureView, Reached
  <2>3. HoldsOrder(t) /\ CanSettle(before, view[t].order)
    BY <1>1, <2>1 DEF CaptureView, Reached
  <2>4. TargetOrder(t) = o
    BY <1>1 DEF TargetOrder
  <2>5. payments[p] = before /\ before # Nil /\ before.status = "authorized"
    BY <2>2 DEF HoldsPayment, CaptureMayProceed, Fetched, IsCapturable
  <2>6. orders[o] = view[t].order /\ orders[o] # Nil
    BY <2>3, <2>4 DEF HoldsOrder, Fetched
  <2>7. <<view[t].order.status, "paid">> \in OrderMoves
    BY <2>3 DEF CanSettle
  <2> QED BY <2>5, <2>6, <2>7
<1>4. orders[o].status # "paid"
  BY <1>3 DEF OrderMoves
<1>5. before.amount > 0 /\ view[t].order.amount > 0
  BY <1>2, <1>3 DEF Inv, MoneySafe, RowsSound
<1>6. refundTotal[p] = 0 /\ before.amount_refunded = 0
  <2>1. /\ refundTotal[p] = before.amount_refunded /\ refundTotal[p] \in Nat
        /\ refundTotal[p] > 0 => Settled(p)
    BY <1>2, <1>3 DEF Inv, MoneySafe, RefundsWithinPayment, TypeOK, TablesTyped
  <2>2. ~Settled(p)
    BY <1>3 DEF Settled
  <2> QED BY <2>1, <2>2
<1>7. /\ payment \in PaymentRow /\ payment.status = "captured" /\ payment.order = o
      /\ payment.amount = before.amount /\ payment.amount_refunded = 0
  BY <1>2, <1>6 DEF MarkCaptured, PaymentRow, PaymentStatus
<1>8. /\ payments' = [payments EXCEPT ![p] = payment] /\ refundTotal' = refundTotal
      /\ orders' = [orders EXCEPT ![o] = order]
  BY <1>7 DEF CommitCapture, UpdatePayment, UpdateOrder, InsertEvents
<1> HIDE DEF payment
<1>9. /\ order \in OrderRow /\ order.status = "paid" /\ order.amount = view[t].order.amount
      /\ order.amount_paid = payment.amount
  BY <1>2, <1>7 DEF MarkPaid, OrderRow, OrderStatus
<1> HIDE DEF order, o, p, before
<1>10. payments[p].order = o
  BY <1>3 DEF o
<1> QED BY <1>2, <1>3, <1>4, <1>5, <1>6, <1>7, <1>8, <1>9, <1>10, SettleMoney

\* The COMMIT of a refund keeps the money invariant: the new total is at most
\* the amount of the payment.
LEMMA CommitRefundMoney ==
    ASSUME Inv, NEW t \in Tasks, CommitRefund(t)
    PROVE  MoneySafe'
<1> DEFINE p == req[t].payment
           before == view[t].payment
           amount == view[t].amount
           new_total == view[t].refunded + amount
           after == Refunded(before, new_total)
<1>1. pc[t] = "commit" /\ req[t].op = "refund" /\ TypeOK /\ ViewsAreCurrent
  BY DEF CommitRefund, InsertRefund, UpdatePayment, InsertEvents, Inv
<1>2. p \in Payments /\ before \in PaymentRow /\ before.amount \in Nat
  BY <1>1, RowsInView DEF Idle, Reached, RefundRequest, PaymentRow
<1>3. /\ payments[p] = before /\ before # Nil /\ before.status \in {"captured", "refunded"}
      /\ view[t].refunded = refundTotal[p]
      /\ RefundAllowed(amount, before.amount - view[t].refunded)
  BY <1>1 DEF ViewsAreCurrent, ViewIsCurrent, RefundView, HoldsPayment,
              Fetched, RefundMayProceed, Idle, Reached
<1>4. /\ amount \in Nat /\ refundTotal[p] \in Nat /\ new_total \in Nat
      /\ amount > 0 /\ refundTotal[p] < new_total /\ new_total <= before.amount
  <2>1. amount \in Nat /\ refundTotal[p] \in Nat
    BY <1>2 DEF Inv, TypeOK, TablesTyped, RequestsTyped, View
  <2> HIDE DEF amount
  <2> QED BY <1>2, <1>3, <2>1 DEF RefundAllowed
<1>5. before.status = "captured"
  BY <1>2, <1>3, <1>4 DEF Inv, MoneySafe, RefundsWithinPayment
<1>6. /\ after.amount_refunded = new_total /\ after.amount = before.amount /\ after.order = before.order
      /\ after.status = IF new_total >= before.amount THEN "refunded" ELSE "captured"
      /\ after # Nil
  <2> HIDE DEF new_total
  <2>1. after \in PaymentRow
    BY <1>2, <1>4 DEF Refunded, PaymentRow, PaymentStatus
  <2> QED BY <1>2, <1>5, <2>1, ConstantsAssumption DEF Refunded, PaymentRow
<1> HIDE DEF after
<1>7. /\ payments'[p] = after /\ \A q \in Payments : q # p => payments'[q] = payments[q]
      /\ refundTotal'[p] = new_total /\ \A q \in Payments : q # p => refundTotal'[q] = refundTotal[q]
      /\ orders' = orders
  BY <1>2, <1>3 DEF CommitRefund, InsertRefund, UpdatePayment, InsertEvents, after, Inv,
        TypeOK, TablesTyped
<1> HIDE DEF new_total, before, amount, p
<1>8. \A q \in Payments : /\ Settled(q)' <=> Settled(q)
                          /\ Settled(q) => /\ payments'[q].order = payments[q].order
                                           /\ payments'[q].amount = payments[q].amount
  BY <1>3, <1>6, <1>7 DEF Settled
<1>9. RowsSound'
  BY <1>3, <1>6, <1>7 DEF Inv, MoneySafe, RowsSound
<1>10. OneCapturePerOrder'
  <2>1. \A x \in Orders : {q \in Payments : Settled(q)' /\ payments'[q].order = x}
                            = {q \in Payments : Settled(q) /\ payments[q].order = x}
    BY <1>8
  <2>2. \A q, r \in Payments : Settled(q)' /\ Settled(r)' /\ payments'[q].order = payments'[r].order
                                  => q = r
    BY <1>8 DEF Inv, MoneySafe, OneCapturePerOrder
  <2>3. ASSUME NEW x \in Orders, orders'[x] # Nil
        PROVE  LET paid == {q \in Payments : Settled(q)' /\ payments'[q].order = x}
               IN  /\ orders'[x].status = "paid" <=> paid # {}
                   /\ \A q \in paid : orders'[x].amount_paid = payments'[q].amount
    BY <1>7, <1>8, <2>1, <2>3 DEF Inv, MoneySafe, OneCapturePerOrder
  <2> QED BY <2>2, <2>3 DEF OneCapturePerOrder
<1>11. RefundsWithinPayment'
  <2> SUFFICES ASSUME NEW q \in Payments, payments'[q] # Nil
               PROVE  /\ refundTotal'[q] = payments'[q].amount_refunded
                      /\ refundTotal'[q] <= payments'[q].amount
                      /\ refundTotal'[q] > 0 => Settled(q)'
                      /\ payments'[q].status = "refunded" <=> refundTotal'[q] = payments'[q].amount
    BY DEF RefundsWithinPayment
  <2>1. CASE q = p
    BY <1>2, <1>4, <1>6, <1>7, <2>1 DEF Settled
  <2>2. CASE q # p
    BY <1>7, <1>8, <2>2 DEF Inv, MoneySafe, RefundsWithinPayment
  <2> QED BY <2>1, <2>2
<1> QED BY <1>9, <1>10, <1>11 DEF MoneySafe

-----------------------------------------------------------------------------
\* Every step preserves the money invariants.
LEMMA MoneyStep ==
    ASSUME Inv, [Next]_vars
    PROVE  MoneySafe'
<1>1. ASSUME NEW t \in Tasks, Arrive(t) \/ LockPayment(t) \/ LockOrder(t) \/ SumRefunds(t)
                              \/ FindOrCreateAccount(t) \/ Abort(t)
      PROVE  MoneySafe'
  <2>1. UNCHANGED <<orders, payments, refundTotal>>
    BY <1>1 DEF Arrive, BeginCreate, BeginCapture, BeginRefund, Begin, LockPayment, LockOrder,
                SumRefunds, FindOrCreateAccount, Abort, Rollback, tables
  <2> QED BY <2>1, MoneyFrame DEF Inv
<1>2. ASSUME NEW e \in Endpoints, RegisterEndpoint(e) \/ DisableEndpoint(e)
      PROVE  MoneySafe'
  BY <1>2, MoneyFrame DEF RegisterEndpoint, DisableEndpoint, tables, Inv
<1>3. CASE UNCHANGED vars
  BY <1>3, MoneyFrame DEF vars, tables, Inv
<1> QED BY <1>1, <1>2, <1>3, CreateOrderMoney, CommitCreateMoney, CommitCaptureMoney,
           CommitRefundMoney DEF Next, Step

\* Initially there is no money.
LEMMA InitMoney == Init => MoneySafe
BY DEF Init, MoneySafe, RowsSound, OneCapturePerOrder, RefundsWithinPayment, Settled

\* The inductive invariant.
THEOREM Invariance == Spec => []Inv
<1>1. Init => Inv
  BY InitTyped, InitMoney DEF Inv
<1>2. Inv /\ [Next]_vars => Inv'
  BY TypeStep, ViewsStep, MoneyStep DEF Inv
<1> QED BY <1>1, <1>2, PTL DEF Spec

\* An order collects money from at most one payment, and is paid exactly when
\* it has, however attempts and captures race.
THEOREM CollectedOnce == Spec => []OneCapturePerOrder
<1>1. Inv => OneCapturePerOrder
  BY DEF Inv, MoneySafe
<1> QED BY <1>1, Invariance, PTL

\* Concurrent refunds of a payment never return more than it collected.
THEOREM RefundsBounded == Spec => []RefundsWithinPayment
<1>1. Inv => RefundsWithinPayment
  BY DEF Inv, MoneySafe
<1> QED BY <1>1, Invariance, PTL

\* What a request read under its row locks is what the tables hold until it ends.
THEOREM ReadsStayCurrent == Spec => []ViewsAreCurrent
<1>1. TypeOK /\ ViewsAreCurrent => ViewsAreCurrent
  OBVIOUS
<1> QED BY <1>1, TypeCorrect, PTL
=============================================================================
