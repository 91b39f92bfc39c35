----------------------------- MODULE Simulator ------------------------------
(***************************************************************************)
(* The card simulator that stands in for the banks: a published test card  *)
(* and an amount decide what becomes of an attempt.  A card is named by    *)
(* what the table says of it; any other number is refused before anything  *)
(* is written and is no request here.                                      *)
(***************************************************************************)
EXTENDS Integers

\* TEST_CARDS.  No card is listed for risk review: only an amount leads there.
TestCards == {"Success", "Authorize", "Declined", "RequiresAction", "SuccessThenDispute"}

\* Two last digits 05: held for review, whatever issued the card.
AmountOverride(amount) == amount % 100 = 5

\* card_engine::decide.  Only a plain success is overridden.
Decide(card, amount) ==
    IF AmountOverride(amount) /\ card = "Success" THEN "RiskHold" ELSE card

\* map_decision: the simulator's words in those of the engine (AttemptOutcome).
MapDecision(verdict) ==
    CASE verdict = "Success"            -> "capture"
      [] verdict = "SuccessThenDispute" -> "capture_then_dispute"
      [] verdict = "Authorize"          -> "authorize"
      [] verdict = "Declined"           -> "decline"
      [] verdict = "RequiresAction"     -> "require_action"
      [] verdict = "RiskHold"           -> "risk_hold"
=============================================================================
