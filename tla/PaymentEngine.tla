--------------------------- MODULE PaymentEngine ----------------------------
(***************************************************************************)
(* The engine: orders, payments, refunds, the ledger and the outbox, and   *)
(* the transactions that change them.  A Task is one HTTP request being    *)
(* served.  Each request runs one database transaction at READ COMMITTED:  *)
(* it locks rows with SELECT ... FOR UPDATE, reads them, and publishes all *)
(* of its writes at COMMIT.  Writes made before COMMIT are invisible to    *)
(* others, so a transaction is modelled by its lock acquisitions, its      *)
(* reads and its commit; any failure before that (an error return, the     *)
(* request timeout, a dropped connection) is a rollback that releases the  *)
(* locks.                                                                  *)
(***************************************************************************)
EXTENDS Fees, Postings, Simulator, FiniteSets

CONSTANTS
    Merchants, Orders, Payments, Endpoints,
    Tasks,          \* requests that may be in progress at one time
    Currencies,
    Amounts,        \* order amounts a client may ask for
    RefundAmounts,  \* explicit refund amounts a client may ask for
    Wants,          \* the event types an endpoint subscribes to
    Owner,          \* the merchant that registers an endpoint
    Nil             \* no row, no lock holder, no request, an omitted amount

OrderStatus   == {"created", "attempted", "paid", "expired"}
PaymentStatus == {"created", "requires_action", "authorized", "captured",
                  "failed", "refunded"}

\* AttemptOutcome: what the simulator decided, in the engine's words.
Outcomes == {"capture", "capture_then_dispute", "authorize", "decline",
             "require_action", "risk_hold"}
Settles(outcome) == outcome \in {"capture", "capture_then_dispute"}

EventTypes == {"payment.captured", "payment.authorized", "payment.failed",
               "order.paid", "refund.processed"}

OrderRow   == [status : OrderStatus, merchant : Merchants, amount : Nat,
               currency : Currencies, amount_paid : Nat]
PaymentRow == [status : PaymentStatus, order : Orders, merchant : Merchants,
               amount : Nat, currency : Currencies, amount_refunded : Nat,
               captured_at : BOOLEAN, error_code : BOOLEAN]

\* A request in progress.  fanout is the list of active endpoints read before
\* the transaction opens.
CreateRequest  == [op : {"create"}, merchant : Merchants, order : Orders,
                   outcome : Outcomes, fanout : SUBSET Endpoints]
CaptureRequest == [op : {"capture"}, merchant : Merchants,
                   payment : Payments, fanout : SUBSET Endpoints]
RefundRequest  == [op : {"refund"}, merchant : Merchants, payment : Payments,
                   amount : RefundAmounts \cup {Nil}, fanout : SUBSET Endpoints]
Requests == CreateRequest \cup CaptureRequest \cup RefundRequest

ASSUME ConstantsAssumption ==
    /\ Amounts \subseteq Int
    /\ RefundAmounts \subseteq Int
    /\ Wants \in [Endpoints -> SUBSET EventTypes]
    /\ Owner \in [Endpoints -> Merchants]
    /\ Nil \notin Tasks \cup OrderRow \cup PaymentRow \cup Requests \cup RefundAmounts

MIN_AMOUNT_MINOR == 100

-----------------------------------------------------------------------------
VARIABLES
    orders,       \* table orders: a row or Nil
    payments,     \* table payments: a row or Nil
    refundTotal,  \* per payment, SUM(amount_minor) over its refunds rows
    ledger,       \* per payment, what it contributed to every account
    accounts,     \* merchant_pending accounts that exist
    events,       \* the outbox: events with the deliveries enqueued for them
    scheduled,    \* other jobs enqueued by the engine
    endpoints,    \* webhook endpoints: "none", "active" or "disabled"
    paymentLock, orderLock, accountLock,  \* row locks: a task or Nil
    pc, req, view \* per task: next step, request, rows read under lock

tables == <<orders, payments, refundTotal, ledger, accounts, events, scheduled>>
locks  == <<paymentLock, orderLock, accountLock>>
vars   == <<tables, endpoints, locks, pc, req, view>>

Steps == {"idle", "lock_payment", "lock_order", "sum_refunds", "account", "commit"}

NoView == [order |-> Nil, payment |-> Nil, refunded |-> 0, amount |-> 0]
NoPosition == [clearing |-> 0, pending |-> [m \in Merchants |-> 0],
               revenue |-> 0, tax |-> 0]

Init ==
    /\ orders = [o \in Orders |-> Nil]
    /\ payments = [p \in Payments |-> Nil]
    /\ refundTotal = [p \in Payments |-> 0]
    /\ ledger = [p \in Payments |-> NoPosition]
    /\ accounts = {} /\ events = {} /\ scheduled = {}
    /\ endpoints = [e \in Endpoints |-> "none"]
    /\ paymentLock = [p \in Payments |-> Nil]
    /\ orderLock = [o \in Orders |-> Nil]
    /\ accountLock = [a \in Merchants \X Currencies |-> Nil]
    /\ pc = [t \in Tasks |-> "idle"]
    /\ req = [t \in Tasks |-> Nil]
    /\ view = [t \in Tasks |-> NoView]

-----------------------------------------------------------------------------
(* The domain state machines. *)

\* OrderStatus::can_transition_to
OrderMoves == {<<"created", "attempted">>, <<"created", "expired">>,
               <<"attempted", "attempted">>, <<"attempted", "paid">>,
               <<"attempted", "expired">>}

\* PaymentStatus::can_transition_to
PaymentMoves ==
    ({"created"} \X {"requires_action", "authorized", "captured", "failed"})
    \cup ({"requires_action"} \X {"authorized", "captured", "failed"})
    \cup ({"authorized"} \X {"captured", "failed"})
    \cup {<<"captured", "refunded">>}

IsTerminal(order) == order.status \in {"paid", "expired"}
IsCapturable(payment) == payment.status = "authorized"

\* Order::mark_paid and Payment::mark_captured on rows already locked.
MarkPaid(order, amount) == [order EXCEPT !.status = "paid", !.amount_paid = amount]
MarkCaptured(payment) == [payment EXCEPT !.status = "captured", !.captured_at = TRUE]
\* Mutant: a capture that trusts its own payment and does not check the order.
CanSettleUnchecked(payment, order) == <<payment.status, "captured">> \in PaymentMoves
CanSettle(payment, order) == /\ <<payment.status, "captured">> \in PaymentMoves
                             /\ <<order.status, "paid">> \in OrderMoves

\* Payment::new_card_attempt, then what the outcome makes of it.
NewAttempt(o, order) ==
    [status |-> "created", order |-> o, merchant |-> order.merchant,
     amount |-> order.amount, currency |-> order.currency, amount_refunded |-> 0,
     captured_at |-> FALSE, error_code |-> FALSE]
Attempted(payment, outcome) ==
    CASE Settles(outcome)            -> MarkCaptured(payment)
      [] outcome = "authorize"       -> [payment EXCEPT !.status = "authorized"]
      [] outcome = "decline"         -> [payment EXCEPT !.status = "failed",
                                                        !.error_code = TRUE]
      [] outcome = "require_action"  -> [payment EXCEPT !.status = "requires_action"]
      [] outcome = "risk_hold"       -> payment

\* RefundService: a partial refund stays captured, a full one is refunded.
\* Mutant: the update passes None for captured_at, as the attempt's updates do.
RefundedForgetting(payment, new_total) ==
    [payment EXCEPT !.amount_refunded = new_total, !.captured_at = FALSE,
                    !.status = IF new_total >= payment.amount THEN "refunded" ELSE @]
Refunded(payment, new_total) ==
    [payment EXCEPT !.amount_refunded = new_total,
                    !.status = IF new_total >= payment.amount THEN "refunded" ELSE @,
                    !.error_code = FALSE]

\* event::emit: the event row, with one delivery and one deliver_webhook job
\* for every prefetched endpoint that subscribes to the type.
Event(type, p, total, fanout) ==
    [type |-> type, payment |-> p, total |-> total,
     to |-> {e \in fanout : type \in Wants[e]}]

\* Mutant: settle forgets its second event.
SettleEventsOne(p, fanout) == {Event("payment.captured", p, 0, fanout)}
SettleEvents(p, fanout) == {Event("payment.captured", p, 0, fanout),
                            Event("order.paid", p, 0, fanout)}
AttemptEvents(p, outcome, fanout) ==
    CASE Settles(outcome)      -> SettleEvents(p, fanout)
      [] outcome = "authorize" -> {Event("payment.authorized", p, 0, fanout)}
      [] outcome = "decline"   -> {Event("payment.failed", p, 0, fanout)}
      [] OTHER                 -> {}

AttemptJobs(p, outcome) ==
    CASE outcome = "capture_then_dispute" -> {[kind |-> "open_dispute", payment |-> p]}
      [] outcome = "risk_hold"            -> {[kind |-> "resolve_risk_review", payment |-> p]}
      [] OTHER                            -> {}

\* settle's postings: the money and the fee of the payment's schedule.
Captured(position, payment) ==
    PostCapture(position, payment.merchant, payment.amount,
                FeeBase(payment.amount, payment.currency),
                FeeTax(payment.amount, payment.currency))

-----------------------------------------------------------------------------
(* Requests. *)

\* webhook_endpoint::list_active_for_merchant, read before the transaction.
\* Mutant: the query forgets its merchant_id.
AllActiveEndpoints(m) == {e \in Endpoints : endpoints[e] = "active"}
ActiveEndpoints(m) == {e \in Endpoints : endpoints[e] = "active" /\ Owner[e] = m}

Idle(t) == pc[t] = "idle"
Fetched(row) == row # Nil
Become(t, step) == pc' = [pc EXCEPT ![t] = step]

\* SELECT ... FOR UPDATE by a transaction, once no other one holds the row.
\* Mutant: a plain SELECT.
AcquiredBySelect(lock, k, t) == lock
Acquired(lock, k, t) == [lock EXCEPT ![k] = t]

Held(lock, t) == [k \in DOMAIN lock |-> IF lock[k] = t THEN Nil ELSE lock[k]]

\* COMMIT and ROLLBACK both drop every lock the transaction holds.
\* Mutant: a connection returns to the pool with its order still locked.
ReleaseButOrder(t) == /\ paymentLock' = Held(paymentLock, t)
                      /\ accountLock' = Held(accountLock, t)
                      /\ UNCHANGED orderLock
Release(t) == /\ paymentLock' = Held(paymentLock, t)
              /\ orderLock' = Held(orderLock, t)
              /\ accountLock' = Held(accountLock, t)
Finish(t) == /\ Release(t)
             /\ Become(t, "idle")
             /\ req' = [req EXCEPT ![t] = Nil]
             /\ view' = [view EXCEPT ![t] = NoView]
Rollback(t) == Finish(t) /\ UNCHANGED <<tables, endpoints>>

Begin(t, request, step) ==
    /\ Idle(t)
    /\ req' = [req EXCEPT ![t] = request]
    /\ Become(t, step)
    /\ UNCHANGED <<tables, endpoints, locks, view>>

\* The writes of the store, visible to others from the COMMIT on.
InsertOrder(o, order)     == orders[o] = Nil /\ orders' = [orders EXCEPT ![o] = order]
UpdateOrder(o, order)     == orders' = [orders EXCEPT ![o] = order]
InsertPayment(p, payment) == payments[p] = Nil /\ payments' = [payments EXCEPT ![p] = payment]
UpdatePayment(p, payment) == payments' = [payments EXCEPT ![p] = payment]
InsertRefund(p, amount)   == refundTotal' = [refundTotal EXCEPT ![p] = @ + amount]
InsertEvents(emitted)     == events' = events \cup emitted

\* OrderService::create: one INSERT, no transaction of its own.
CreateOrder(o, m, amount, currency) ==
    /\ amount >= MIN_AMOUNT_MINOR
    /\ InsertOrder(o, [status |-> "created", merchant |-> m, amount |-> amount,
                       currency |-> currency, amount_paid |-> 0])
    /\ UNCHANGED <<payments, refundTotal, ledger, accounts, events, scheduled,
                   endpoints, locks, pc, req, view>>

\* Bound: every attempt in progress has an unused payment id to commit under.
PaymentIdLeft ==
    Cardinality({u \in Tasks : ~Idle(u) /\ req[u].op = "create"})
      < Cardinality({p \in Payments : payments[p] = Nil})

\* routes::payments::create reads the order unlocked for the simulator, which
\* decides, then PaymentService::create lists the active endpoints.
BeginCreate(t, m, o, card) ==
    /\ PaymentIdLeft
    /\ Fetched(orders[o]) /\ orders[o].merchant = m
    /\ Begin(t, [op |-> "create", merchant |-> m, order |-> o,
                 outcome |-> MapDecision(Decide(card, orders[o].amount)),
                 fanout |-> ActiveEndpoints(m)], "lock_order")

BeginCapture(t, m, p) ==
    Begin(t, [op |-> "capture", merchant |-> m, payment |-> p,
              fanout |-> ActiveEndpoints(m)], "lock_payment")

BeginRefund(t, m, p, amount) ==
    Begin(t, [op |-> "refund", merchant |-> m, payment |-> p, amount |-> amount,
              fanout |-> ActiveEndpoints(m)], "lock_payment")

\* payment::find_by_id_for_update, then the checks made on the row it returns.
CaptureMayProceed(r, payment) ==
    Fetched(payment) /\ payment.merchant = r.merchant /\ IsCapturable(payment)
RefundMayProceed(r, payment) ==
    /\ Fetched(payment) /\ payment.merchant = r.merchant
    /\ payment.status \in {"captured", "refunded"}

LockPayment(t) ==
    LET r == req[t]
        payment == payments[r.payment]
        proceed == IF r.op = "capture" THEN CaptureMayProceed(r, payment)
                                       ELSE RefundMayProceed(r, payment)
    IN  /\ pc[t] = "lock_payment"
        /\ paymentLock[r.payment] = Nil
        /\ \/ /\ proceed
              /\ paymentLock' = Acquired(paymentLock, r.payment, t)
              /\ view' = [view EXCEPT ![t].payment = payment]
              /\ Become(t, IF r.op = "capture" THEN "lock_order" ELSE "sum_refunds")
              /\ UNCHANGED <<tables, endpoints, orderLock, accountLock, req>>
           \/ ~proceed /\ Rollback(t)

\* order::find_by_id_for_update, for a new attempt and for a capture.
TargetOrder(t) == IF req[t].op = "create" THEN req[t].order ELSE view[t].payment.order
CreateMayProceed(r, order) ==
    /\ order.merchant = r.merchant
    /\ ~IsTerminal(order)
    /\ <<order.status, "attempted">> \in OrderMoves

LockOrder(t) ==
    LET r == req[t]
        o == TargetOrder(t)
        order == orders[o]
        proceed == /\ Fetched(order)
                   /\ IF r.op = "create" THEN CreateMayProceed(r, order)
                                         ELSE CanSettle(view[t].payment, order)
    IN  /\ pc[t] = "lock_order"
        /\ orderLock[o] = Nil
        /\ \/ /\ proceed
              /\ orderLock' = Acquired(orderLock, o, t)
              /\ view' = [view EXCEPT ![t].order = order]
              /\ Become(t, IF r.op = "create" /\ ~Settles(r.outcome)
                           THEN "commit" ELSE "account")
              /\ UNCHANGED <<tables, endpoints, paymentLock, accountLock, req>>
           \/ ~proceed /\ Rollback(t)

\* refund::sum_for_payment under the payment lock, then the amount checks and
\* the fee transaction that must build.
RefundAmount(r, remaining) == IF r.amount = Nil THEN remaining ELSE r.amount
RefundAllowed(amount, remaining) == remaining > 0 /\ amount > 0 /\ amount <= remaining

SumRefunds(t) ==
    LET r == req[t]
        payment == view[t].payment
        refunded == refundTotal[r.payment]
        remaining == payment.amount - refunded
        amount == RefundAmount(r, remaining)
        fee == FeeRefund(payment.amount, payment.currency, refunded, refunded + amount)
        proceed == RefundAllowed(amount, remaining) /\ RefundBuilds(fee)
    IN  /\ pc[t] = "sum_refunds"
        /\ \/ /\ proceed
              /\ view' = [view EXCEPT ![t] = [@ EXCEPT !.refunded = refunded, !.amount = amount]]
              /\ Become(t, "account")
              /\ UNCHANGED <<tables, endpoints, locks, req>>
           \/ ~proceed /\ Rollback(t)

\* ledger::find_or_create_merchant_account: the INSERT of a missing account
\* holds its unique-index entry until the transaction ends, and makes a
\* concurrent INSERT of the same account wait.
Account(t) ==
    CASE req[t].op = "create"  -> <<view[t].order.merchant, view[t].order.currency>>
      [] req[t].op = "capture" -> <<view[t].payment.merchant, view[t].payment.currency>>
      [] req[t].op = "refund"  -> <<req[t].merchant, view[t].payment.currency>>

FindOrCreateAccount(t) ==
    LET a == Account(t)
    IN  /\ pc[t] = "account"
        /\ \/ a \in accounts /\ UNCHANGED accountLock
           \/ /\ a \notin accounts
              /\ accountLock[a] = Nil
              /\ accountLock' = [accountLock EXCEPT ![a] = t]
        /\ Become(t, "commit")
        /\ UNCHANGED <<tables, endpoints, paymentLock, orderLock, req, view>>

-----------------------------------------------------------------------------
(* COMMIT: everything the transaction wrote becomes visible at once. *)

CommitCreate(t, p) ==
    LET r == req[t]
        order == view[t].order
        payment == Attempted(NewAttempt(r.order, order), r.outcome)
        attempted == [order EXCEPT !.status = "attempted"]
    IN  /\ pc[t] = "commit" /\ r.op = "create"
        /\ InsertPayment(p, payment)
        /\ InsertEvents(AttemptEvents(p, r.outcome, r.fanout))
        /\ scheduled' = scheduled \cup AttemptJobs(p, r.outcome)
        /\ IF Settles(r.outcome)
           THEN /\ UpdateOrder(r.order, MarkPaid(attempted, payment.amount))
                /\ ledger' = [ledger EXCEPT ![p] = Captured(@, payment)]
                /\ accounts' = accounts \cup {Account(t)}
           ELSE /\ UpdateOrder(r.order, attempted)
                /\ UNCHANGED <<ledger, accounts>>
        /\ UNCHANGED <<refundTotal, endpoints>>
        /\ Finish(t)

CommitCapture(t) ==
    LET r == req[t]
        p == r.payment
        payment == MarkCaptured(view[t].payment)
    IN  /\ pc[t] = "commit" /\ r.op = "capture"
        /\ UpdatePayment(p, payment)
        /\ UpdateOrder(payment.order, MarkPaid(view[t].order, payment.amount))
        /\ ledger' = [ledger EXCEPT ![p] = Captured(@, payment)]
        /\ accounts' = accounts \cup {Account(t)}
        /\ InsertEvents(SettleEvents(p, r.fanout))
        /\ UNCHANGED <<refundTotal, scheduled, endpoints>>
        /\ Finish(t)

CommitRefund(t) ==
    LET r == req[t]
        p == r.payment
        payment == view[t].payment
        amount == view[t].amount
        new_total == view[t].refunded + amount
        fee == FeeRefund(payment.amount, payment.currency, view[t].refunded, new_total)
    IN  /\ pc[t] = "commit" /\ r.op = "refund"
        /\ InsertRefund(p, amount)
        /\ UpdatePayment(p, Refunded(payment, new_total))
        /\ ledger' = [ledger EXCEPT ![p] = PostRefund(@, r.merchant, amount, fee)]
        /\ accounts' = accounts \cup {Account(t)}
        /\ InsertEvents({Event("refund.processed", p, new_total, r.fanout)})
        /\ UNCHANGED <<orders, scheduled, endpoints>>
        /\ Finish(t)

\* Any failure between BEGIN and COMMIT: the card checks, a database error, the
\* request timeout, a client that hung up, the process dying.
Abort(t) == ~Idle(t) /\ Rollback(t)

\* webhook_endpoint::insert and set_disabled, which nothing undoes.  The cap that
\* registration checks before its insert is left out.
RegisterEndpoint(e) ==
    /\ endpoints[e] = "none"
    /\ endpoints' = [endpoints EXCEPT ![e] = "active"]
    /\ UNCHANGED <<tables, locks, pc, req, view>>
DisableEndpoint(e) ==
    /\ endpoints[e] = "active"
    /\ endpoints' = [endpoints EXCEPT ![e] = "disabled"]
    /\ UNCHANGED <<tables, locks, pc, req, view>>

-----------------------------------------------------------------------------
Step(t) == \/ LockPayment(t) \/ LockOrder(t) \/ SumRefunds(t)
           \/ FindOrCreateAccount(t)
           \/ \E p \in Payments : CommitCreate(t, p)
           \/ CommitCapture(t) \/ CommitRefund(t)

Arrive(t) == \E m \in Merchants :
    \/ \E o \in Orders, card \in TestCards : BeginCreate(t, m, o, card)
    \/ \E p \in Payments : BeginCapture(t, m, p)
    \/ \E p \in Payments, amount \in RefundAmounts \cup {Nil} : BeginRefund(t, m, p, amount)

Next ==
    \/ \E o \in Orders, m \in Merchants, amount \in Amounts, currency \in Currencies :
          CreateOrder(o, m, amount, currency)
    \/ \E t \in Tasks : Arrive(t) \/ Step(t) \/ Abort(t)
    \/ \E e \in Endpoints : RegisterEndpoint(e) \/ DisableEndpoint(e)

Spec == Init /\ [][Next]_vars

\* Postgres queues the waiters of a row lock, so a request that keeps waiting
\* for a lock that keeps being freed gets it (strong fairness).  Arrivals, aborts
\* and endpoint changes are the environment's and carry no fairness.
FairSpec == Spec /\ \A t \in Tasks : SF_vars(Step(t))

-----------------------------------------------------------------------------
(* Type invariant. *)

Holder == Tasks \cup {Nil}
Position == [clearing : Int, pending : [Merchants -> Int], revenue : Int, tax : Int]
EventRow == [type : EventTypes, payment : Payments, total : Nat, to : SUBSET Endpoints]
JobRow == [kind : {"open_dispute", "resolve_risk_review"}, payment : Payments]
View == [order : OrderRow \cup {Nil}, payment : PaymentRow \cup {Nil},
         refunded : Nat, amount : Nat]

TablesTyped ==
    /\ orders \in [Orders -> OrderRow \cup {Nil}]
    /\ payments \in [Payments -> PaymentRow \cup {Nil}]
    /\ refundTotal \in [Payments -> Nat]
    /\ ledger \in [Payments -> Position]
    /\ accounts \subseteq Merchants \X Currencies
    /\ events \subseteq EventRow
    /\ scheduled \subseteq JobRow
    /\ endpoints \in [Endpoints -> {"none", "active", "disabled"}]
RequestsTyped ==
    /\ paymentLock \in [Payments -> Holder]
    /\ orderLock \in [Orders -> Holder]
    /\ accountLock \in [Merchants \X Currencies -> Holder]
    /\ pc \in [Tasks -> Steps]
    /\ req \in [Tasks -> Requests \cup {Nil}]
    /\ view \in [Tasks -> View]

\* Every variable holds a value of its shape.
TypeOK == TablesTyped /\ RequestsTyped

-----------------------------------------------------------------------------
(* Safety. *)

\* What the task has locked and read so far, by the kind of its request.
Reached(t, steps) == pc[t] \in steps
HoldsPayment(t) == /\ paymentLock[req[t].payment] = t
                   /\ view[t].payment = payments[req[t].payment]
HoldsOrder(t) == /\ orderLock[TargetOrder(t)] = t
                 /\ Fetched(view[t].order)
                 /\ view[t].order = orders[TargetOrder(t)]

CreateView(t) ==
    /\ Reached(t, {"lock_order", "account", "commit"})
    /\ Reached(t, {"account", "commit"}) =>
          HoldsOrder(t) /\ CreateMayProceed(req[t], view[t].order)
CaptureView(t) ==
    /\ Reached(t, {"lock_payment", "lock_order", "account", "commit"})
    /\ ~Reached(t, {"lock_payment"}) =>
          HoldsPayment(t) /\ CaptureMayProceed(req[t], view[t].payment)
    /\ Reached(t, {"account", "commit"}) =>
          HoldsOrder(t) /\ CanSettle(view[t].payment, view[t].order)
RefundView(t) ==
    /\ Reached(t, {"lock_payment", "sum_refunds", "account", "commit"})
    /\ ~Reached(t, {"lock_payment"}) =>
          HoldsPayment(t) /\ RefundMayProceed(req[t], view[t].payment)
    /\ Reached(t, {"account", "commit"}) =>
          /\ view[t].refunded = refundTotal[req[t].payment]
          /\ RefundAllowed(view[t].amount, view[t].payment.amount - view[t].refunded)

ViewIsCurrent(t) ==
    IF Idle(t) THEN req[t] = Nil
    ELSE /\ req[t] # Nil
         /\ req[t].op = "create"  => CreateView(t)
         /\ req[t].op = "capture" => CaptureView(t)
         /\ req[t].op = "refund"  => RefundView(t)

\* What a transaction read under its row locks still stands when it commits, and
\* the checks it made on those rows still hold: no other request's commit slips
\* between the read and the write (payment.rs and refund.rs, "read under the lock").
ViewsAreCurrent == \A t \in Tasks : ViewIsCurrent(t)

Settled(p) == payments[p] # Nil /\ payments[p].status \in {"captured", "refunded"}

\* However attempts, captures and refunds interleave, an order collects money
\* from at most one payment; it is paid exactly when it has one, with the
\* payment's amount (payment.rs: "normally exactly one ends up Captured").
OneCapturePerOrder ==
    /\ \A p, q \in Payments : Settled(p) /\ Settled(q) /\ payments[p].order = payments[q].order
                                => p = q
    /\ \A o \in Orders : orders[o] # Nil =>
          LET paid == {p \in Payments : Settled(p) /\ payments[p].order = o}
          IN  /\ orders[o].status = "paid" <=> paid # {}
              /\ \A p \in paid : orders[o].amount_paid = payments[p].amount

\* Concurrent refunds never return more than was captured: the refunds table
\* sums to what the payment row says, within its amount, and the payment is
\* refunded exactly when everything went back (refund.rs, store::refund).
RefundsWithinPayment ==
    \A p \in Payments : payments[p] # Nil =>
        /\ refundTotal[p] = payments[p].amount_refunded
        /\ refundTotal[p] <= payments[p].amount
        /\ refundTotal[p] > 0 => Settled(p)
        /\ payments[p].status = "refunded" <=> refundTotal[p] = payments[p].amount

\* What a payment contributed to the books is a function of its row alone: the
\* captured money less the refunds in clearing, the fee less its refunded share
\* in revenue and tax, the rest owed to the payment's own merchant.  A fully
\* refunded payment has left every account at zero, whatever slices it was
\* refunded in (refund.rs: "self-correcting by construction").
BooksOf(p) ==
    LET row == payments[p]
        gone == refundTotal[p]
        kept(c) == c - Owed(c, gone, row.amount)
        revenue == kept(FeeBase(row.amount, row.currency))
        tax == kept(FeeTax(row.amount, row.currency))
    IN  [clearing |-> gone - row.amount,
         pending |-> [m \in Merchants |->
                        IF m = row.merchant THEN row.amount - gone - revenue - tax ELSE 0],
         revenue |-> revenue, tax |-> tax]

LedgerReconciles ==
    \A p \in Payments :
        /\ ledger[p] = IF Settled(p) THEN BooksOf(p) ELSE NoPosition
        /\ Settled(p) /\ payments[p].status = "refunded" => ledger[p] = NoPosition

\* The outbox tells what the tables say and nothing else: an event exists iff
\* its payment committed the change it announces (the events migration: "a
\* committed payment can never lack its event"), each refund announced once.
Announced(type, p) == \E e \in events : e.type = type /\ e.payment = p
OutboxMatchesTables ==
    \A p \in Payments :
        /\ Announced("payment.captured", p) <=> Settled(p)
        /\ Announced("order.paid", p) <=> Settled(p)
        /\ Announced("payment.failed", p) <=>
              payments[p] # Nil /\ payments[p].status = "failed"
        /\ payments[p] # Nil /\ payments[p].status = "authorized"
              => Announced("payment.authorized", p)
        /\ \A e \in events : e.type = "refund.processed" /\ e.payment = p
              => e.total <= refundTotal[p]
        /\ refundTotal[p] > 0 => \E e \in events :
              e.type = "refund.processed" /\ e.payment = p /\ e.total = refundTotal[p]

\* Nothing crosses a tenant: a payment belongs to its order's merchant and has its
\* amount and currency, its money stands in an account of that merchant, and its
\* events go only to endpoints that merchant registered, for subscribed types,
\* however registrations, disables and requests interleave with the prefetch.
TenantsIsolated ==
    /\ \A p \in Payments : payments[p] # Nil =>
          LET order == orders[payments[p].order]
          IN  /\ order # Nil
              /\ payments[p].merchant = order.merchant
              /\ payments[p].amount = order.amount
              /\ payments[p].currency = order.currency
    /\ accounts = {<<payments[p].merchant, payments[p].currency>> :
                      p \in {q \in Payments : Settled(q)}}
    /\ \A e \in events : \A x \in e.to :
          /\ Owner[x] = payments[e.payment].merchant
          /\ endpoints[x] # "none"
          /\ e.type \in Wants[x]

\* The rows the code writes satisfy the CHECK constraints of the orders and
\* payments migrations, so no commit fails on one.
RowsSatisfySchema ==
    /\ \A o \in Orders : orders[o] # Nil =>
          orders[o].amount >= 100 /\ orders[o].amount_paid \in 0..orders[o].amount
    /\ \A p \in Payments : payments[p] # Nil =>
          /\ payments[p].amount_refunded \in 0..payments[p].amount
          /\ payments[p].captured_at <=> payments[p].status \in {"captured", "refunded"}
          /\ payments[p].status = "failed" => payments[p].error_code

\* tx.rs, "the deadlock rule": no set of requests can be waiting for each
\* other's row locks, whatever they lock.
Awaits(t, u) ==
    \/ pc[t] = "lock_payment" /\ paymentLock[req[t].payment] = u
    \/ pc[t] = "lock_order" /\ orderLock[TargetOrder(t)] = u
    \/ pc[t] = "account" /\ Account(t) \notin accounts /\ accountLock[Account(t)] = u
NoDeadlock ==
    \A S \in SUBSET Tasks : S # {} => \E t \in S : \A u \in S : ~Awaits(t, u)

-----------------------------------------------------------------------------
(* Action properties and liveness. *)

\* A committed payment only moves along the published state machine, whichever
\* requests race, its identity never changes and its refunds only grow; a paid
\* order never changes again.
Follows(moves, from, to) == from = to \/ <<from, to>> \in moves
RowsMoveForward ==
    [][/\ \A p \in Payments : payments[p] # Nil =>
             /\ payments'[p] # Nil
             /\ Follows(PaymentMoves, payments[p].status, payments'[p].status)
             /\ payments'[p].order = payments[p].order
             /\ payments'[p].amount = payments[p].amount
             /\ payments'[p].amount_refunded >= payments[p].amount_refunded
       /\ \A o \in Orders : orders[o] # Nil /\ orders[o].status = "paid"
             => orders'[o] = orders[o]]_vars

\* Every request that starts is answered, without relying on timeouts to break
\* a wait: row locks are always released and never waited for in a circle.
RequestsFinish == \A t \in Tasks : ~Idle(t) ~> Idle(t)

\* The committed tables read as the state of Collection.
PaymentsOf(o) == {p \in Payments : Settled(p) /\ payments[p].order = o}
Due       == [o \in Orders |-> IF orders[o] = Nil THEN 0 ELSE orders[o].amount]
Collected == [o \in Orders |-> PaymentsOf(o)]
Returned  == [o \in Orders |-> IF PaymentsOf(o) = {} THEN 0
                              ELSE refundTotal[CHOOSE p \in PaymentsOf(o) : TRUE]]
Promise == INSTANCE Collection WITH due <- Due, collected <- Collected, returned <- Returned

\* What a merchant sees of an order's money is placed, collected once by one
\* payment and returned at most to the amount due, whichever requests race and
\* wherever one of them is dropped (the statuses and totals of payment.rs and
\* refund.rs).
ImplementsCollection == Promise!Spec
=============================================================================
