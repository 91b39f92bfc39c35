-------------------------- MODULE MCWebhookDelivery --------------------------
(* Values for model checking WebhookDelivery. *)
EXTENDS WebhookDelivery, TLC

OneRung  == <<1>>
AttemptsOfLadder == [j \in Jobs |-> Len(Ladder) + 1]

\* Deliveries to two endpoints, so that one can be disabled alone.
CONSTANTS j1, j2, e1, e2
OwnEndpoint == j1 :> e1 @@ j2 :> e2
=============================================================================
