-------------------------- MODULE MCShellRecovery --------------------------
(* The shell recovery pass on a small instance: two claims with leases of   *)
(* one time unit, one failure.                                              *)
EXTENDS ShellRecovery
=============================================================================
