-------------------------- MODULE MCScheduleDriver --------------------------
(* One occurrence, two lost or outrun tasks and one edit of the schedule;  *)
(* the reclaim cap is lowered from five to two so that it is reached.      *)
EXTENDS ScheduleDriver
=============================================================================
