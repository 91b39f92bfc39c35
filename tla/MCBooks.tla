------------------------------- MODULE MCBooks -------------------------------
(* Values for model checking Books. *)
EXTENDS Books, TLC

CONSTANTS m1, p1, p2

\* Two payments that race for one account: a refund of the whole and one so small
\* that it returns no fee.
TwoOwners == p1 :> m1 @@ p2 :> m1
TwoPrices == p1 :> Amount(100, "INR") @@ p2 :> Amount(250, "INR")
TwoRefunds == p1 :> 100 @@ p2 :> 1

\* A pair in the other currency, and two halves that only balance together: each of
\* them cancels across the currencies and not within one.
Line(type, of, amount, currency) ==
    [type |-> type, of |-> of, amount |-> amount, currency |-> currency]
Seven  == Line("gateway_clearing", "INR", 7, "INR")
Back   == Line("platform_revenue", "INR", -7, "INR")
Across == Line("gateway_clearing", "USD", -7, "USD")
Return == Line("platform_revenue", "USD", 7, "USD")
Scribbles == {{Across, Return}, {Seven, Across}, {Back, Return}}

\* The hands are interchangeable.
HandSymmetry == Permutations(Hands)
=============================================================================
