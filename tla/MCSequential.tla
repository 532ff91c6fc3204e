----------------------------- MODULE MCSequential -----------------------------
(***************************************************************************)
(* Three small instances for one run of TLC: the delivery of an answer,    *)
(* weighted rotation and the billing cycle. They share no variable, so an  *)
(* interleaving shows no property of one of them more than its own steps   *)
(* do: a behaviour takes the steps of one, chosen at the start.            *)
(***************************************************************************)
EXTENDS Delivery, WeightedRotation, BillingCycle

VARIABLE part

ThreeAccounts == 1..3
ByPosition == [a \in ThreeAccounts |-> a]
OneStuck == {6}
EarlyByOne == {0, 1}
TwoSubscriptions == {0, 2}

allVars == <<part, deliveryVars, rotationVars, billingVars>>

Init ==
  /\ part \in {"delivery", "rotation", "billing"}
  /\ IF part = "delivery" THEN DeliveryInit
     ELSE DeliveryInit /\ mode = [stream |-> TRUE, tools |-> TRUE]
  /\ RotationInit
  /\ IF part = "billing" THEN BillingInit ELSE BillingInit /\ cycle = NoCycle

Next ==
  /\ UNCHANGED part
  /\ \/ part = "delivery" /\ DeliveryNext /\ UNCHANGED <<rotationVars, billingVars>>
     \/ part = "rotation" /\ RotationNext /\ UNCHANGED <<deliveryVars, billingVars>>
     \/ part = "billing" /\ BillingNext /\ UNCHANGED <<deliveryVars, rotationVars>>

Spec ==
  /\ Init /\ [][Next]_allVars
  /\ WF_allVars(part = "delivery" /\ Watchdog /\ UNCHANGED <<part, rotationVars, billingVars>>)
  /\ WF_allVars(part = "delivery" /\ (EndStream \/ EndSync) /\ UNCHANGED <<part, rotationVars, billingVars>>)

\* A gateway that falls silent, before or after its [DONE], holds nobody for ever:
\* the watchdog of OpenStreamLines closes the body and the handler returns
\* (auth.go:1409-1454).
AnswerEnds == part = "delivery" ~> result # "none"
===============================================================================
