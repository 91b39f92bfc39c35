----------------------------- MODULE Collection -----------------------------
(***************************************************************************)
(* What the engine promises a merchant about the money of an order, with   *)
(* no transactions, locks or requests: an order is placed for an amount,   *)
(* is collected at most once, by one payment, and gives back at most what  *)
(* was collected.  PaymentEngine implements it.                            *)
(***************************************************************************)
EXTENDS Integers

CONSTANTS Orders, Payments, Amounts

VARIABLES
    due,        \* amount the order was placed for, 0 before that
    collected,  \* the payments that collected it
    returned    \* amount given back

Init == /\ due = [o \in Orders |-> 0]
        /\ collected = [o \in Orders |-> {}]
        /\ returned = [o \in Orders |-> 0]

Place(o, amount) ==
    /\ due[o] = 0 /\ amount > 0
    /\ due' = [due EXCEPT ![o] = amount]
    /\ UNCHANGED <<collected, returned>>

Collect(o, p) ==
    /\ due[o] > 0 /\ collected[o] = {}
    /\ \A q \in Orders : p \notin collected[q]
    /\ collected' = [collected EXCEPT ![o] = {p}]
    /\ UNCHANGED <<due, returned>>

Return(o) ==
    /\ collected[o] # {}
    /\ returned'[o] > returned[o] /\ returned'[o] <= due[o]
    /\ returned' = [returned EXCEPT ![o] = returned'[o]]
    /\ UNCHANGED <<due, collected>>

Next == \E o \in Orders :
    \/ \E amount \in Amounts : Place(o, amount)
    \/ \E p \in Payments : Collect(o, p)
    \/ Return(o)

Spec == Init /\ [][Next]_<<due, collected, returned>>
=============================================================================
