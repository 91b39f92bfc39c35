-------------------------------- MODULE Money --------------------------------
(***************************************************************************)
(* domain::money: amounts in minor units at the width of an i64, in the    *)
(* currencies the gateway knows.  What the checked operations make of them *)
(* is in the modules that call them: they fail where the result does not   *)
(* fit.  Constant operators only, no recursion.                            *)
(***************************************************************************)
EXTENDS Fees

CONSTANT MaxMinor  \* i64::MAX; i64::MIN is one further from zero

ASSUME MoneyAssumption == MaxMinor \in Nat \ {0}

AllCurrencies == {"INR", "USD", "EUR", "JPY", "KWD"}

Fits(n) == -MaxMinor - 1 <= n /\ n <= MaxMinor
Amount(minor, currency) == [minor |-> minor, currency |-> currency]
=============================================================================
