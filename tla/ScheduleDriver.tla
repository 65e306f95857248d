--------------------------- MODULE ScheduleDriver ---------------------------
(***************************************************************************)
(* One due occurrence of a schedule, from the claim scan to its end, while *)
(* the schedule is paused, revised or deleted.                             *)
(*                                                                         *)
(* A scan claims the row for a new attempt, or ends it.  The task of an    *)
(* attempt is the driver that handles the claim and, after the dispatch,   *)
(* the completion waiter it spawned; each of its steps is one call of the  *)
(* store or of the target.  Most writes are screened by attempt and claim  *)
(* token; two are screened by the exact row they were computed from.  A    *)
(* task may stop at any step, and may fall behind while its lease lapses   *)
(* and another attempt is claimed.                                         *)
(*                                                                         *)
(* The target is external: it admits the stable identity of the occurrence *)
(* once, answers a repeat with the first admission, and ends its input.    *)
(***************************************************************************)
EXTENDS OccurrenceMachine, Sequences

CONSTANTS
  MaxAttempts,  \* bound: attempts
  MaxFaults,    \* bound: tasks that stop, or outlive their lease
  MaxEdits      \* bound: pauses, revisions and deletions of the schedule

(* Each fault costs at most two attempts (its own and the one its late     *)
(* answer disturbs) and each pause one, so the bound on attempts is never  *)
(* what stops a claim.                                                     *)
ASSUME BoundsAssumption ==
  /\ MaxFaults \in Nat /\ MaxEdits \in Nat
  /\ MaxAttempts \in Nat /\ MaxAttempts >= 1 + 2 * MaxFaults + MaxEdits

ASSUME NoneAssumption == None \notin Inputs \cup Failures

VARIABLES
  schedule,  \* phase and revision; the occurrence was planned at revision 1
  row,       \* the stored occurrence
  lapsed,    \* the row's lease has run out
  overdue,   \* the misfire deadline has passed
  stages,    \* the dispatch stages among the stored receipts
  ends,      \* the stored receipts of terminal phases, in order
  target,    \* the target's input for this occurrence
  task,      \* the task of each attempt
  faults, edits

world == <<schedule, target, faults, edits, overdue>>
vars == <<schedule, row, lapsed, overdue, stages, ends, target, task, faults, edits>>

Attempts == 1..MaxAttempts

Steps == {"none", "claimed", "release", "probe", "start", "deliver", "accept",
          "await", "refetch", "wait", "finish", "route", "commit", "late", "stale"}

(* redelivery: what the claim named.  seen: the row a task computes from.  *)
(* input: the end it is committing.  result: what its waiter heard.        *)
NoTask == [at |-> "none", redelivery |-> None, seen |-> None, input |-> None,
           result |-> None]

TypeOK ==
  /\ schedule \in [phase : {"Active", "Paused", "Deleted"}, revision : Nat]
  /\ row \in Rows
  /\ lapsed \in BOOLEAN /\ overdue \in BOOLEAN
  /\ stages \subseteq {"DispatchStarted", "DispatchAccepted"}
  /\ ends \in Seq(TerminalPhases)
  /\ target \in [admitted : BOOLEAN, outcome : {None, "Complete", "Fail"}]
  /\ task \in [Attempts -> [at : Steps,
                            redelivery : {None, "Ordinary", "Admitted", "UnprovenLate"},
                            seen : {None} \cup Rows,
                            input : {None} \cup Inputs,
                            result : {None, "Complete", "Fail"}]]
  /\ faults \in 0..MaxFaults /\ edits \in 0..MaxEdits

Init ==
  /\ schedule = [phase |-> "Active", revision |-> 1]
  /\ row = Planned
  /\ lapsed = FALSE /\ overdue = FALSE
  /\ stages = {} /\ ends = <<>>
  /\ target = [admitted |-> FALSE, outcome |-> None]
  /\ task = [a \in Attempts |-> NoTask]
  /\ faults = 0 /\ edits = 0

-----------------------------------------------------------------------------
(* The claim scan: one critical section of the store.                      *)

\* Mutant: the lease of a dispatched occurrence is left to its waiter.
DueUnawaited ==
  IF row.phase \in Leased \ {"AwaitingCompletion"} /\ lapsed THEN Release(row) ELSE row

(* The row as the scan finds it; an expired lease is released first.       *)
Due == IF row.phase \in Leased /\ lapsed THEN Release(row) ELSE row

ScanClaims ==
  /\ schedule.phase = "Active"
  /\ Claimable(Due, Evidence(stages), overdue)
  /\ row.attempt < MaxAttempts
  /\ row' = Claim(Due) /\ lapsed' = FALSE
  /\ task' = [task EXCEPT ![row'.attempt] =
       [NoTask EXCEPT !.at = "claimed",
                      !.redelivery = Redelivery(Evidence(stages), overdue)]]
  /\ UNCHANGED <<world, stages, ends>>

(* An expired lease whose claim is refused leaves the row pending for the  *)
(* next scan.                                                              *)
ScanMisfires ==
  /\ schedule.phase = "Active"
  /\ Misfires(Due, Evidence(stages), overdue)
  /\ lapsed' = FALSE
  /\ IF row.phase = "Pending"
     THEN row' = EndUndelivered(row, "Misfired", None) /\ ends' = Append(ends, "Misfired")
     ELSE row' = Due /\ UNCHANGED ends
  /\ UNCHANGED <<world, stages, task>>

ScanExhausts ==
  /\ schedule.phase = "Active"
  /\ Exhausted(Due, Evidence(stages), overdue)
  /\ lapsed' = FALSE
  /\ row' = EndExhausted(Due, Evidence(stages))
  /\ ends' = Append(ends, row'.phase)
  /\ UNCHANGED <<world, stages, task>>

-----------------------------------------------------------------------------
(* The store's screen, and how a task goes on.                             *)

\* Mutant: the claim evidence of a write is not compared.
CurrentUnscreened(a) == TRUE

Current(a) == row.attempt = a /\ row.token = a

Goto(a, at) == task' = [task EXCEPT ![a].at = at]
Stop(a) == task' = [task EXCEPT ![a] = NoTask]
Terminalize(a, input) ==
  task' = [task EXCEPT ![a] = [NoTask EXCEPT !.at = "route", !.input = input,
                                             !.result = task[a].result]]

store == <<row, lapsed, stages, ends>>

(* A receipt of a terminal row is one more end of the occurrence.          *)
Commit(input) ==
  /\ row' = Apply(row, input)
  /\ ends' = IF Terminal(row') THEN Append(ends, row'.phase) ELSE ends
  /\ lapsed' = (lapsed /\ row'.phase \in Leased)
  /\ UNCHANGED stages

Stale == schedule.phase = "Deleted" \/ schedule.revision > 1

-----------------------------------------------------------------------------
(* The driver of a claimed occurrence.                                     *)

Reconcile(a) ==
  /\ task[a].at = "claimed"
  /\ CASE schedule.phase = "Paused" -> Goto(a, "release")
       [] schedule.phase # "Paused" /\ Stale -> Terminalize(a, "Supersede")
       [] OTHER -> Goto(a, "probe")
  /\ UNCHANGED <<world, store>>

ReleaseFrozen(a) ==
  /\ task[a].at = "release"
  /\ Stop(a)
  /\ IF Current(a) /\ Accepts(row, "Release") THEN Commit("Release") ELSE UNCHANGED store
  /\ UNCHANGED world

(* The probe, and what the policies of the occurrence make of it: go on,   *)
(* or end the occurrence; a busy target never ends a redelivery.           *)
ProbeTarget(a) ==
  /\ task[a].at = "probe"
  /\ IF Current(a) /\ row.phase = "Claimed"
     THEN \/ Goto(a, "start") /\ UNCHANGED store
          \/ \E end \in ({<<"Skipped", "TargetMissing">>, <<"Misfired", "TargetMissing">>}
                           \cup IF task[a].redelivery = "Ordinary"
                                THEN {<<"Skipped", "TargetBusy">>} ELSE {}) :
               /\ row' = EndUndelivered(row, end[1], end[2])
               /\ ends' = Append(ends, end[1])
               /\ lapsed' = FALSE
               /\ Stop(a) /\ UNCHANGED stages
     ELSE Stop(a) /\ UNCHANGED store
  /\ UNCHANGED world

(* The dispatch intent is committed before the target is called.           *)
StartDispatch(a) ==
  /\ task[a].at = "start"
  /\ IF Current(a) /\ row.phase = "Claimed"
     THEN /\ row' = [row EXCEPT !.phase = "Dispatching"]
          /\ stages' = stages \cup {"DispatchStarted"}
          /\ task' = [task EXCEPT ![a].at = "deliver", ![a].seen = row']
          /\ UNCHANGED <<lapsed, ends>>
     ELSE Stop(a) /\ UNCHANGED store
  /\ UNCHANGED world

(* The call of the target; its receipt names the admission, or is the      *)
(* start's again.  An error of the adapter, of a redelivery too, fails the *)
(* occurrence, whether or not the target admitted it.                      *)
Deliver(a) ==
  /\ task[a].at = "deliver"
  /\ \/ /\ task[a].redelivery = "Ordinary" \/ target.admitted
        /\ target' = [target EXCEPT !.admitted = TRUE]
        /\ \E at \in {"accept", "await"} :
             task' = [task EXCEPT ![a].at = at, ![a].redelivery = None]
     \/ /\ Terminalize(a, "Fail")
        /\ \/ UNCHANGED target
           \/ /\ task[a].redelivery = "Ordinary"
              /\ target' = [target EXCEPT !.admitted = TRUE]
     \/ /\ task[a].redelivery = "UnprovenLate" /\ ~target.admitted
        /\ Terminalize(a, "NotAdmitted") /\ UNCHANGED target
  /\ UNCHANGED <<schedule, faults, edits, overdue, store>>

\* Mutant: a deduplicated admission completes the occurrence.
AcceptDispatchCompleting(a) ==
  /\ task[a].at = "accept"
  /\ IF Current(a) /\ row.phase = "Dispatching"
     THEN IF "DispatchAccepted" \in stages
          THEN Commit("Complete") /\ Stop(a)
          ELSE /\ stages' = stages \cup {"DispatchAccepted"}
               /\ task' = [task EXCEPT ![a].at = "await", ![a].seen = row]
               /\ UNCHANGED <<row, lapsed, ends>>
     ELSE Stop(a) /\ UNCHANGED store
  /\ UNCHANGED world

(* First admission or repeat, the occurrence goes on dispatching.          *)
AcceptDispatch(a) ==
  /\ task[a].at = "accept"
  /\ IF Current(a) /\ row.phase = "Dispatching"
     THEN /\ stages' = stages \cup {"DispatchAccepted"}
          /\ task' = [task EXCEPT ![a].at = "await", ![a].seen = row]
          /\ UNCHANGED <<row, lapsed, ends>>
     ELSE Stop(a) /\ UNCHANGED store
  /\ UNCHANGED world

(* The one driver write that needs the exact row; only a superseded row is *)
(* excused when it fails.                                                  *)
AwaitCompletion(a) ==
  /\ task[a].at = "await"
  /\ IF row = task[a].seen
     THEN /\ row' = [row EXCEPT !.phase = "AwaitingCompletion"]
          /\ task' = [task EXCEPT ![a].at = "wait", ![a].seen = row']
     ELSE Goto(a, "refetch") /\ UNCHANGED row
  /\ UNCHANGED <<world, lapsed, stages, ends>>

Refetch(a) ==
  /\ task[a].at = "refetch"
  /\ IF row.phase = "Superseded"
     THEN task' = [task EXCEPT ![a].at = "wait", ![a].seen = row]
     ELSE Stop(a)
  /\ UNCHANGED <<world, store>>

-----------------------------------------------------------------------------
(* The completion waiter.                                                  *)

Hear(a, result) ==
  task' = [task EXCEPT ![a].at = "finish", ![a].result = result]

WaitCompletion(a) ==
  /\ task[a].at = "wait" /\ target.outcome # None
  /\ Hear(a, target.outcome)
  /\ UNCHANGED <<world, store>>

(* The completion channel is lost.                                         *)
LoseCompletion(a) ==
  /\ task[a].at = "wait" /\ faults < MaxFaults
  /\ Hear(a, "Fail") /\ faults' = faults + 1
  /\ UNCHANGED <<schedule, target, edits, overdue, store>>

(* A completion of a stale revision is a supersession first.               *)
FinishCompletion(a) ==
  /\ task[a].at = "finish"
  /\ Terminalize(a, IF task[a].seen.phase # "Superseded" /\ Stale
                    THEN "Supersede" ELSE task[a].result)
  /\ UNCHANGED <<world, store>>

(* terminalize_occurrence_inner reads the phase, then writes.              *)
Route(a) ==
  /\ task[a].at = "route"
  /\ Goto(a, IF row.phase = "Superseded" THEN "late" ELSE "commit")
  /\ UNCHANGED <<world, store>>

(* The supersession of a waiter found nothing to do: the waiter goes on    *)
(* with the outcome it heard.                                              *)
NotApplied(a, at) ==
  IF task[a].result = None THEN Stop(a)
  ELSE IF task[a].input = "Supersede" THEN Terminalize(a, task[a].result)
  ELSE IF at = "stale" THEN Goto(a, "stale") ELSE Stop(a)

CommitTerminal(a) ==
  /\ task[a].at = "commit"
  /\ IF ~Current(a) THEN NotApplied(a, "stale") /\ UNCHANGED store
     ELSE /\ Stop(a)
          /\ IF Accepts(row, task[a].input) THEN Commit(task[a].input) ELSE UNCHANGED store
  /\ UNCHANGED world

(* A superseded row records what the delivery did, without a receipt.  A   *)
(* task whose claim is gone writes against the exact row and may lose.     *)
RecordLate(a) ==
  /\ task[a].at = "late"
  /\ IF task[a].input \in {"Complete", "Fail"}
     THEN /\ Stop(a)
          /\ row' = Apply(row, task[a].input) \/ (~Current(a) /\ UNCHANGED row)
     ELSE NotApplied(a, "noop") /\ UNCHANGED row
  /\ UNCHANGED <<world, lapsed, stages, ends>>

(* classify_stale_arrival: a count on whatever row is there, written       *)
(* against the exact row it read, which may lose.                          *)
ClassifyStaleArrival(a) ==
  /\ task[a].at = "stale"
  /\ Stop(a)
  /\ row' = [row EXCEPT !.stale = @ + 1] \/ UNCHANGED row
  /\ UNCHANGED <<world, lapsed, stages, ends>>

-----------------------------------------------------------------------------
(* Leases, time and faults.                                                *)

Calling == {"deliver", "wait"}

(* A lease is renewed while a task is in a call of the target; the driver  *)
(* goes on from the renewed row.                                           *)
RenewLease(a) ==
  /\ task[a].at \in Calling
  /\ Current(a) /\ row.phase \in {"Dispatching", "AwaitingCompletion"}
  /\ lapsed \/ (task[a].at = "deliver" /\ task[a].seen # row)
  /\ lapsed' = FALSE
  /\ task' = [task EXCEPT ![a].seen = IF task[a].at = "deliver" THEN row ELSE @]
  /\ UNCHANGED <<world, row, stages, ends>>

Held == row.phase \in Leased /\ ~lapsed

(* Nobody renews the lease any more.                                       *)
LeaseExpires ==
  /\ Held /\ task[row.token].at = "none"
  /\ lapsed' = TRUE
  /\ UNCHANGED <<world, row, stages, ends, task>>

(* The task of the lease is slower than the lease.                         *)
LeaseOutrun ==
  /\ Held /\ task[row.token].at # "none" /\ faults < MaxFaults
  /\ lapsed' = TRUE /\ faults' = faults + 1
  /\ UNCHANGED <<schedule, target, edits, overdue, row, stages, ends, task>>

(* The process stops, a call of the store fails, or the target defers its  *)
(* repair: the task ends and leaves the row as it is.                      *)
TaskEnds(a) ==
  /\ task[a].at # "none" /\ faults < MaxFaults
  /\ Stop(a) /\ faults' = faults + 1
  /\ UNCHANGED <<schedule, target, edits, overdue, store>>

DeadlinePasses ==
  /\ ~overdue /\ overdue' = TRUE
  /\ UNCHANGED <<schedule, target, faults, edits, store, task>>

TargetEnds ==
  /\ target.admitted /\ target.outcome = None
  /\ \E o \in {"Complete", "Fail"} : target' = [target EXCEPT !.outcome = o]
  /\ UNCHANGED <<schedule, faults, edits, overdue, store, task>>

-----------------------------------------------------------------------------
(* The schedule.  A revision and a deletion supersede every live row of an *)
(* earlier revision, with its receipt, in the same commit.                 *)

Edit == edits < MaxEdits /\ edits' = edits + 1

Pause ==
  /\ schedule.phase = "Active" /\ Edit
  /\ schedule' = [schedule EXCEPT !.phase = "Paused"]
  /\ UNCHANGED <<target, faults, overdue, store, task>>

Resume ==
  /\ schedule.phase = "Paused"
  /\ schedule' = [schedule EXCEPT !.phase = "Active"]
  /\ UNCHANGED <<target, faults, edits, overdue, store, task>>

\* Mutant: the sweep supersedes rows that have ended, too.
SupersedeAll(phase) ==
  /\ schedule.phase # "Deleted" /\ Edit
  /\ schedule' = [phase |-> phase, revision |-> schedule.revision + 1]
  /\ Commit("Supersede")
  /\ UNCHANGED <<target, faults, overdue, task>>

Supersede(phase) ==
  /\ schedule.phase # "Deleted" /\ Edit
  /\ schedule' = [phase |-> phase, revision |-> schedule.revision + 1]
  /\ IF Terminal(row) THEN UNCHANGED store ELSE Commit("Supersede")
  /\ UNCHANGED <<target, faults, overdue, task>>

Update == Supersede(schedule.phase)
Delete == Supersede("Deleted")

-----------------------------------------------------------------------------
Scan == ScanClaims \/ ScanMisfires \/ ScanExhausts

TaskStep(a) ==
  \/ Reconcile(a) \/ ReleaseFrozen(a) \/ ProbeTarget(a) \/ StartDispatch(a)
  \/ Deliver(a) \/ AcceptDispatch(a) \/ AwaitCompletion(a) \/ Refetch(a)
  \/ WaitCompletion(a) \/ FinishCompletion(a) \/ Route(a) \/ CommitTerminal(a)
  \/ RecordLate(a) \/ ClassifyStaleArrival(a)

Next ==
  \/ Scan
  \/ \E a \in Attempts : TaskStep(a) \/ LoseCompletion(a) \/ RenewLease(a) \/ TaskEnds(a)
  \/ LeaseExpires \/ LeaseOutrun \/ DeadlinePasses \/ TargetEnds
  \/ Pause \/ Resume \/ Update \/ Delete

(* Some process ticks at every heartbeat, a task that can go on does, time *)
(* passes, and the target ends the input it admitted.                      *)
Fairness ==
  /\ WF_vars(Scan)
  /\ \A a \in Attempts : WF_vars(TaskStep(a))
  /\ WF_vars(LeaseExpires) /\ WF_vars(DeadlinePasses) /\ WF_vars(TargetEnds)

Spec == Init /\ [][Next]_vars /\ Fairness

-----------------------------------------------------------------------------
(* The receipts tell the end of the occurrence: there is a terminal        *)
(* receipt exactly when the row is terminal, and each names the row's      *)
(* phase, whichever of the driver, the waiter, the scan and the sweep      *)
(* wrote last (transition_occurrence_with_receipt_if_current).             *)
ReceiptsTellTheEnd ==
  /\ Terminal(row) <=> ends # <<>>
  /\ \A i \in 1..Len(ends) : ends[i] = row.phase

(* An occurrence has one terminal receipt: the sweep mints exactly one for *)
(* a row it supersedes, and the driver no second one.  This is what the    *)
(* comments of the store and of terminalize_occurrence_inner say.          *)
OneTerminalReceipt == Len(ends) <= 1

(* An occurrence ends completed, or records a late completion, only when   *)
(* the target's own input completed; a deduplicated admission proves no    *)
(* such thing (DispatchDeduplicatedFromDispatching).                       *)
CompletedMeansCompleted ==
  (row.phase = "Completed" \/ row.late = "Complete") => target.outcome = "Complete"

(* An occurrence whose admission is recorded never ends as a late misfire: *)
(* it is reclaimed past its deadline and ends with what its input did, or  *)
(* failed (ClassifyDuePendingMisfire, ClaimPendingAfterAdmission).         *)
AdmittedNeverMisfires ==
  (row.phase = "Misfired" /\ row.failure = None) => "DispatchAccepted" \notin stages

(* A task whose claim is gone never moves the row: it neither ends nor     *)
(* releases the attempt that replaced it, whatever it was doing when its   *)
(* lease lapsed (transition_occurrence_if_current).                        *)
StaleAttemptsInert ==
  [][\A a \in Attempts :
       (task[a].at # "none" /\ task'[a] # task[a] /\ row.token # a)
         => /\ row'.phase = row.phase
            /\ row'.token = row.token
            /\ stages' = stages /\ ends' = ends]_vars

(* A due occurrence of a schedule that is not left paused comes to an end: *)
(* no lost task, expired lease, stale arrival or refused write leaves it   *)
(* claimed for ever (ClassifyDue*LeaseExpired, claim_due_occurrences).     *)
OccurrenceEnds == []<>(schedule.phase # "Paused") => <>Terminal(row)
=============================================================================
