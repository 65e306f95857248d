-------------------------- MODULE MCDeliveryInbox --------------------------
(* The inbox on a small instance.  Ids, callers and recipients are only     *)
(* ever compared with each other.                                           *)
EXTENDS DeliveryInbox, TLC

Symmetry ==
    Permutations(DeliveryIds) \cup Permutations(Callers) \cup Permutations(Recipients)
=============================================================================
