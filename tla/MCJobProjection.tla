-------------------------- MODULE MCJobProjection --------------------------
(* A job with up to two entries, two delivery owners, a shell beside one of  *)
(* them, and one failed call, lost signal or stopped process at any step.    *)
EXTENDS JobProjection
=============================================================================
