--------------------------- MODULE MCDetachedJob ---------------------------
(* The atomic job on a small instance.  Actors, attempt ids and keys are   *)
(* interchangeable: no operation compares them with anything but equality. *)
EXTENDS DetachedJob, TLC

Symmetry ==
    Permutations(Actors) \cup Permutations(AttemptIds) \cup Permutations(Keys)
=============================================================================
