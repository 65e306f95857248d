---------------------------- MODULE MCJobService ----------------------------
(* Two processes calling the job service on a small instance. *)
EXTENDS JobService, TLC

Symmetry == Permutations(Actors) \cup Permutations(AttemptIds)
=============================================================================
