-------------------------------- MODULE Fees --------------------------------
(***************************************************************************)
(* The integer arithmetic of the gateway: Money::percent, the fee schedule *)
(* and the cumulative fee reversal of a refund.  Constant operators only,  *)
(* no recursion, so that modules with proofs may use them.                 *)
(*                                                                         *)
(* Width: percent multiplies two i64 in i128, so the product cannot        *)
(* overflow; the callers divide by a denominator no smaller than the       *)
(* numerator (10 000 against 200, 100 against 18, the payment amount       *)
(* against a refunded total), so the quotient fits in i64 again.  The      *)
(* operators below therefore work on unbounded integers.                   *)
(***************************************************************************)
EXTENDS Integers

\* minor * numerator / denominator, rounded half away from zero.  Rust's `/`
\* truncates; \div floors, hence the mirrored negative branch.
Percent(minor, numerator, denominator) ==
    LET numer == minor * numerator
        half  == denominator \div 2
    IN  IF numer >= 0
        THEN (numer + half) \div denominator
        ELSE -((half - numer) \div denominator)

\* FeeSchedule::for_currency.
ForCurrency(currency) ==
    IF currency = "INR"
    THEN [percent_bps |-> 200, fixed_minor |-> 300, tax_percent |-> 18]
    ELSE [percent_bps |-> 200, fixed_minor |-> 30,  tax_percent |-> 0]

\* FeeSchedule::compute, one component at a time.
FeeBase(amount, currency) ==
    Percent(amount, ForCurrency(currency).percent_bps, 10000)
      + ForCurrency(currency).fixed_minor

FeeTax(amount, currency) ==
    Percent(FeeBase(amount, currency), ForCurrency(currency).tax_percent, 100)

\* The part of a fee component owed back once `refunded` of `amount` has been
\* returned (the closure `owed` of proportional_fee_refund).
Owed(component, refunded, amount) ==
    IF amount = 0 THEN 0 ELSE Percent(component, refunded, amount)

\* Fee to return for the slice between two cumulative refund totals.
\* Mutant: the share of this refund alone, the implementation refund.rs rejects.
FeeRefundPerSlice(amount, currency, old_total, new_total) ==
    [base |-> Owed(FeeBase(amount, currency), new_total - old_total, amount),
     tax  |-> Owed(FeeTax(amount, currency), new_total - old_total, amount)]
FeeRefund(amount, currency, old_total, new_total) ==
    LET slice(c) == Owed(c, new_total, amount) - Owed(c, old_total, amount)
    IN  [base |-> slice(FeeBase(amount, currency)),
         tax  |-> slice(FeeTax(amount, currency))]
=============================================================================
