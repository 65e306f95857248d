------------------------- MODULE MCCallbackRecovery -------------------------
(* The callback recovery passes on a small instance: two registrations, two *)
(* claims with leases of one time unit.                                     *)
EXTENDS CallbackRecovery
=============================================================================
