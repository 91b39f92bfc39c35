------------------------------ MODULE Postings ------------------------------
(***************************************************************************)
(* The double-entry postings of engine::ledger.  An entry set names the    *)
(* signed amount each account of a transaction receives (credits positive, *)
(* debits negative); an account that has no entry has amount 0, since      *)
(* LedgerEntry refuses a zero amount.  A position is what one payment has  *)
(* contributed to every account: balances are sums over immutable entries, *)
(* so the running sum of a payment's entries stands for the entries.       *)
(***************************************************************************)
EXTENDS Integers

\* debit / credit refuse a negative amount, and zero amounts are skipped.
Posted(amount) == IF amount > 0 THEN amount ELSE 0

\* payment_captured: debit gateway_clearing, credit merchant_pending.
CaptureEntries(amount) ==
    [clearing |-> -amount, pending |-> amount, revenue |-> 0, tax |-> 0]

\* fee_charged: debit merchant_pending, credit platform_revenue and tax_payable.
FeeChargedEntries(base, tax) ==
    [clearing |-> 0, pending |-> -(base + tax), revenue |-> base, tax |-> Posted(tax)]

\* refund_issued: debit merchant_pending, credit gateway_clearing.
RefundEntries(amount) ==
    [clearing |-> amount, pending |-> -amount, revenue |-> 0, tax |-> 0]

\* fee_refunded: credit merchant_pending, debit platform_revenue and tax_payable.
FeeRefundedEntries(fee) ==
    [clearing |-> 0, pending |-> fee.base + fee.tax,
     revenue |-> -Posted(fee.base), tax |-> -Posted(fee.tax)]

\* BalancedTransaction::new, and the deferred trigger that repeats it at COMMIT.
Balanced(e) == e.clearing + e.pending + e.revenue + e.tax = 0

\* store::ledger::post, into the books of merchant m.
Post(position, m, e) ==
    [clearing |-> position.clearing + e.clearing,
     pending  |-> [position.pending EXCEPT ![m] = @ + e.pending],
     revenue  |-> position.revenue + e.revenue,
     tax      |-> position.tax + e.tax]

\* post_capture: the money, then the fee when there is one.
PostCapture(position, m, amount, base, tax) ==
    LET captured == Post(position, m, CaptureEntries(amount))
    IN  IF base + tax > 0
        THEN Post(captured, m, FeeChargedEntries(base, tax))
        ELSE captured

\* post_refund: the money, then the fee when some is owed back.
PostRefund(position, m, amount, fee) ==
    LET refunded == Post(position, m, RefundEntries(amount))
    IN  IF fee.base = 0 /\ fee.tax = 0
        THEN refunded
        ELSE Post(refunded, m, FeeRefundedEntries(fee))

\* Every transaction post_refund builds passes BalancedTransaction::new.
RefundBuilds(fee) ==
    \/ fee.base = 0 /\ fee.tax = 0
    \/ fee.base + fee.tax > 0 /\ Balanced(FeeRefundedEntries(fee))
=============================================================================
