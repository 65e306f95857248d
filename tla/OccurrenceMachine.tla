-------------------------- MODULE OccurrenceMachine --------------------------
(***************************************************************************)
(* The lifecycle of one planned occurrence of a schedule: the generated    *)
(* OccurrenceLifecycleMachine over the row the store keeps.  A row is a    *)
(* record and every operation a function of it; the token a claim mints is *)
(* named by the attempt it belongs to.  Receipt bodies, details and times  *)
(* other than the misfire deadline and the lease are left out.             *)
(***************************************************************************)
EXTENDS Naturals

CONSTANTS
  None,
  ReclaimCap    \* attempts a recorded dispatch may use past its deadline (5)

ASSUME ReclaimCapAssumption == ReclaimCap \in Nat \ {0} /\ None \notin Nat

TerminalPhases == {"Completed", "Skipped", "Misfired", "Superseded", "DeliveryFailed"}

Leased == {"Claimed", "Dispatching", "AwaitingCompletion"}

Failures == {"TargetBusy", "TargetMissing", "LeaseLost", "Delivery"}

Rows == [phase : {"Pending"} \cup Leased \cup TerminalPhases,
         attempt : Nat,
         token : {None} \cup Nat,          \* the attempt that holds the claim
         failure : {None} \cup Failures,
         late : {None, "Complete", "Fail"},  \* late_completion_resolution
         stale : Nat]                        \* stale_completion_arrivals

Planned == [phase |-> "Pending", attempt |-> 0, token |-> None,
            failure |-> None, late |-> None, stale |-> 0]

Terminal(r) == r.phase \in TerminalPhases

(* What the stages of the receipts prove about earlier attempts.           *)
Evidence(stages) ==
  IF "DispatchAccepted" \in stages THEN "Accepted"
  ELSE IF "DispatchStarted" \in stages THEN "Started" ELSE "Unrecorded"

-----------------------------------------------------------------------------
(* Due classification of a pending row, and what resolves it.              *)

Claimable(r, evidence, overdue) ==
  /\ r.phase = "Pending"
  /\ ~overdue \/ (evidence # "Unrecorded" /\ r.attempt < ReclaimCap)

\* Mutant: past the deadline a pending row misfires, whatever was recorded.
MisfiresWhenLate(r, evidence, overdue) == r.phase = "Pending" /\ overdue

Misfires(r, evidence, overdue) ==
  r.phase = "Pending" /\ overdue /\ evidence = "Unrecorded"

Exhausted(r, evidence, overdue) ==
  /\ r.phase = "Pending" /\ overdue /\ evidence # "Unrecorded"
  /\ r.attempt >= ReclaimCap

(* A claim starts the next attempt; a claim that finds a recorded dispatch *)
(* names the redelivery.                                                   *)
Claim(r) == [r EXCEPT !.phase = "Claimed", !.attempt = @ + 1,
                      !.token = r.attempt + 1, !.failure = None]

Redelivery(evidence, overdue) ==
  CASE evidence = "Accepted" -> "Admitted"
    [] evidence = "Started" /\ overdue -> "UnprovenLate"
    [] OTHER -> "Ordinary"

(* An end decided without a delivery gives the claim up.                   *)
EndUndelivered(r, phase, why) ==
  [r EXCEPT !.phase = phase, !.token = None, !.failure = why]

EndExhausted(r, evidence) ==
  IF evidence = "Accepted" THEN EndUndelivered(r, "DeliveryFailed", "LeaseLost")
                           ELSE EndUndelivered(r, "Misfired", None)

(* LeaseExpired and ReleaseLeaseForPausedSchedule.                         *)
Release(r) == [r EXCEPT !.phase = "Pending", !.token = None]

-----------------------------------------------------------------------------
(* Inputs that end an attempt: a release, a supersession, the outcome of   *)
(* the delivery, or the answer that nothing was admitted.  A superseded    *)
(* row takes all but the last, as a no-op or a late record.                *)

Inputs == {"Release", "Supersede", "Complete", "Fail", "NotAdmitted"}

Accepts(r, input) ==
  CASE input = "Release" -> r.phase \in Leased \cup {"Superseded"}
    [] input = "Supersede" -> ~Terminal(r) \/ r.phase = "Superseded"
    [] input \in {"Complete", "Fail"} ->
         r.phase \in {"Dispatching", "AwaitingCompletion", "Superseded"}
    [] input = "NotAdmitted" -> r.phase \in {"Claimed", "Dispatching"}

Apply(r, input) ==
  CASE r.phase = "Superseded" ->
         [r EXCEPT !.late = IF input \in {"Complete", "Fail"} THEN input ELSE @]
    [] r.phase # "Superseded" /\ input = "Release" -> Release(r)
    [] r.phase # "Superseded" /\ input = "Supersede" -> [r EXCEPT !.phase = "Superseded"]
    [] r.phase # "Superseded" /\ input = "Complete" -> [r EXCEPT !.phase = "Completed"]
    [] r.phase # "Superseded" /\ input = "Fail" ->
         [r EXCEPT !.phase = "DeliveryFailed", !.failure = "Delivery"]
    [] r.phase # "Superseded" /\ input = "NotAdmitted" ->
         EndUndelivered(r, "Misfired", None)
=============================================================================
