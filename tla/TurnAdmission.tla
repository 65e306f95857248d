--------------------------- MODULE TurnAdmission ---------------------------
(***************************************************************************)
(* The turn-admission slot of one session: the generated                   *)
(* SessionTurnAdmissionMachine and the suspension mark its wrapper         *)
(* TurnAdmissionSlot keeps beside it.  A slot is a record; every operation *)
(* maps the slot it finds under the mutex to the slot it leaves.  An       *)
(* operation the machine refuses leaves the machine as it was.             *)
(***************************************************************************)
EXTENDS Naturals

Phases == {"Idle", "Admitted", "Running", "Completing", "ShuttingDown"}

(* The machine's fields, and suspend: the pending interrupt was asked as a *)
(* suspension.                                                             *)
Slots == [phase : Phases, interrupt : BOOLEAN, shutdown : BOOLEAN,
          drain : BOOLEAN, teardown : BOOLEAN, suspend : BOOLEAN]

NewSlot == [phase |-> "Idle", interrupt |-> FALSE, shutdown |-> FALSE,
            drain |-> FALSE, teardown |-> FALSE, suspend |-> FALSE]

(* What a claim answers; only in Idle is the turn admitted.                *)
ClaimAnswer(s) == CASE s.phase = "Idle" -> "Admitted"
                    [] s.phase = "ShuttingDown" -> "Archived"
                    [] OTHER -> "Busy"

(* The wrapper clears the suspension mark before the machine is asked,     *)
(* whatever the machine then answers.                                      *)
Claim(s) ==
  IF s.phase = "Idle"
  THEN [s EXCEPT !.phase = "Admitted", !.interrupt = FALSE,
                 !.shutdown = FALSE, !.suspend = FALSE]
  ELSE [s EXCEPT !.suspend = FALSE]

AbortClaim(s) ==
  IF s.phase = "Admitted"
  THEN [s EXCEPT !.phase = "Idle", !.interrupt = FALSE, !.shutdown = FALSE]
  ELSE s

BeginTurn(s) == IF s.phase = "Admitted" THEN [s EXCEPT !.phase = "Running"] ELSE s

ResolveTurn(s) == IF s.phase = "Running" THEN [s EXCEPT !.phase = "Completing"] ELSE s

\* Mutant: a deferred shutdown owes no drain.
FinalizeTurnUndrained(s) ==
  CASE s.phase = "Completing" /\ s.shutdown ->
         [s EXCEPT !.phase = "ShuttingDown", !.interrupt = FALSE]
    [] s.phase = "Completing" /\ ~s.shutdown ->
         [s EXCEPT !.phase = "Idle", !.interrupt = FALSE]
    [] OTHER -> s

FinalizeTurn(s) ==
  CASE s.phase = "Completing" /\ s.shutdown ->
         [s EXCEPT !.phase = "ShuttingDown", !.interrupt = FALSE, !.drain = TRUE]
    [] s.phase = "Completing" /\ ~s.shutdown ->
         [s EXCEPT !.phase = "Idle", !.interrupt = FALSE]
    [] OTHER -> s

(* An interrupt is accepted only for a turn that is admitted or running;   *)
(* the first one of a turn also wakes the run loop.                        *)
Interruptible(s) == s.phase \in {"Admitted", "Running"}
Wakes(s) == ~s.interrupt

RequestInterrupt(s) == [s EXCEPT !.interrupt = TRUE, !.suspend = FALSE]

\* Mutant: a suspension replaces a hard interrupt that is pending.
RequestSuspendOver(s) == [s EXCEPT !.interrupt = TRUE, !.suspend = TRUE]

(* A suspension does not replace a hard interrupt that is pending.         *)
RequestSuspend(s) ==
  [s EXCEPT !.interrupt = TRUE, !.suspend = @ \/ ~s.interrupt]

SuspendRequested(s) == s.suspend /\ s.interrupt

(* Immediate before a run, deferred to the end of one.                     *)
RequestShutdown(s) ==
  CASE s.phase \in {"Idle", "Admitted"} ->
         [s EXCEPT !.phase = "ShuttingDown", !.interrupt = FALSE,
                   !.shutdown = TRUE, !.drain = TRUE]
    [] s.phase \in {"Running", "Completing"} -> [s EXCEPT !.shutdown = TRUE]
    [] OTHER -> s

(* ResolvePendingAdmissionDrained and AuthorizeSessionTeardown, which the  *)
(* drain calls together.                                                   *)
MayTearDown(s) == s.phase = "ShuttingDown" /\ s.drain /\ ~s.teardown
TearDown(s) == [s EXCEPT !.drain = FALSE, !.teardown = TRUE]
=============================================================================
