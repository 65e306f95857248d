-------------------------- MODULE MCDeliveryOwner --------------------------
(* Two processes over one row that is addressed to two sessions.           *)
EXTENDS DeliveryOwner

AllRecipients == [id \in DeliveryIds |-> Recipients]
=============================================================================
