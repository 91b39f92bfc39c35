-------------------------- MODULE MCPaymentEngine ---------------------------
(* Values for model checking PaymentEngine. *)
EXTENDS PaymentEngine, TLC

\* Tasks and payment ids are interchangeable: no action names one.
TaskAndPaymentSymmetry == Permutations(Tasks) \cup Permutations(Payments)

\* The first endpoint takes everything, any other one only refunds.
WantsAllOrRefunds ==
    LET first == CHOOSE e \in Endpoints : TRUE
    IN  [e \in Endpoints |-> IF e = first THEN EventTypes ELSE {"refund.processed"}]
\* Endpoints that only take what tells that an order was paid.
WantsPaid == [e \in Endpoints |-> {"order.paid"}]
OneOwner == [e \in Endpoints |-> CHOOSE m \in Merchants : TRUE]
=============================================================================
