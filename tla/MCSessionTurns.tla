--------------------------- MODULE MCSessionTurns ---------------------------
(***************************************************************************)
(* Instance of SessionTurns for TLC.                                      *)
(***************************************************************************)
EXTENDS SessionTurns

=============================================================================
