------------ MODULE MCSpoke ------------
(***************************************************************************)
(* What a spoke brings to its agents, side by side: the hub's deliveries   *)
(* (SpokeDelivery) and a workload's model token (ModelTokens).  They share *)
(* no state here; a behaviour is one of one part, the other staying where  *)
(* it starts.                                                              *)
(***************************************************************************)
EXTENDS SpokeDelivery, ModelTokens

VARIABLE part
deliveryVars == vars
partVars == <<part, deliveryVars, tokenVars>>

\* A part that stays where it starts has one start.
PartsInit ==
  /\ part \in {"deliveries", "tokens"}
  /\ Init /\ TokensInit
  /\ part # "deliveries" => \A d \in Deliveries : kind[d] = "keyed"

DeliveriesMove == part = "deliveries" /\ Next /\ UNCHANGED <<part, tokenVars>>
TokensMove == part = "tokens" /\ TokensNext /\ UNCHANGED <<part, deliveryVars>>
PartsNext == DeliveriesMove \/ TokensMove

\* The fairness of Spec, of the deliveries; a token is promised nothing in the
\* end.
PartsSpec ==
  /\ PartsInit /\ [][PartsNext]_partVars
  /\ WF_deliveryVars(part = "deliveries" /\ Tick)
  /\ \A d \in Deliveries : WF_deliveryVars(part = "deliveries" /\ Expire(d))

------------------------
\* EveryDeliverySettles, of the part that moves.
DeliveriesSettle == part = "deliveries" => EveryDeliverySettles
========================
