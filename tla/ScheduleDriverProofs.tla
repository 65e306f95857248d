------------------------ MODULE ScheduleDriverProofs ------------------------
(***************************************************************************)
(* What the receipts, the late records and the screens of one occurrence   *)
(* guarantee for any number of attempts, faults and schedule edits.        *)
(*                                                                         *)
(* The properties speak of the stored row; what they rest on is what the   *)
(* tasks of old attempts carry while they fall behind.  The inductive      *)
(* invariant DriverInv therefore says of every task (TaskOk) that it       *)
(* belongs to an attempt that was claimed, that the row it computes from   *)
(* is a dispatched row of its own claim, that the end it carries is true   *)
(* of the target, and that an answer "nothing was admitted" is not         *)
(* contradicted while its claim is current.  A step moves the store        *)
(* forward (Forward), which keeps TaskOk of every task it does not touch,  *)
(* and gives at most one task a new record.                                *)
(***************************************************************************)
EXTENDS ScheduleDriver, TLAPS

TaskRecs == [at : Steps,
             redelivery : {None, "Ordinary", "Admitted", "UnprovenLate"},
             seen : {None} \cup Rows,
             input : {None} \cup Inputs,
             result : {None, "Complete", "Fail"}]

\* The types of what neither the row nor a task depends on.
Plain ==
  /\ schedule \in [phase : {"Active", "Paused", "Deleted"}, revision : Nat]
  /\ lapsed \in BOOLEAN /\ overdue \in BOOLEAN
  /\ faults \in 0..MaxFaults /\ edits \in 0..MaxEdits

\* A leased row is held by its latest attempt, a pending row by none.
ClaimInv ==
  /\ row.attempt \in 0..MaxAttempts
  /\ row.token \in {None, row.attempt}
  /\ row.phase = "Pending" => row.token = None
  /\ row.phase \in Leased => row.token = row.attempt /\ row.attempt \in Attempts

\* A recorded admission was made by the target.
AdmissionInv == "DispatchAccepted" \in stages => target.admitted

\* The stored row, its receipts and the target.
Stored ==
  /\ row \in Rows
  /\ stages \subseteq {"DispatchStarted", "DispatchAccepted"}
  /\ ends \in Seq(TerminalPhases)
  /\ target \in [admitted : BOOLEAN, outcome : {None, "Complete", "Fail"}]
  /\ ClaimInv
  /\ AdmissionInv
  /\ ReceiptsTellTheEnd
  /\ CompletedMeansCompleted
  /\ AdmittedNeverMisfires

Dispatched == {"Dispatching", "AwaitingCompletion"}

\* What holds of the task k of attempt a while the row is r, the target tg and
\* the recorded stages st.
TaskOk(a, k, r, tg, st) ==
  /\ a > r.attempt \/ k.at = "none" => k = NoTask
  /\ k.at \in {"deliver", "accept", "await"} =>
       k.seen \in Rows /\ k.seen.phase \in Dispatched /\ k.seen.token = a
  /\ k.at \in {"route", "commit", "late"} => k.input \in Inputs \ {"Release"}
  /\ k.input # None => k.at \in {"route", "commit", "late", "stale"}
  /\ k.at = "late" => r.phase = "Superseded"
  /\ k.at = "finish" => k.result # None
  /\ k.input = "Complete" \/ k.result = "Complete" => tg.outcome = "Complete"
  /\ k.at = "accept" => tg.admitted
  /\ k.input = "NotAdmitted" /\ r.attempt = a /\ r.token = a
       => "DispatchAccepted" \notin st

TasksInv ==
  /\ task \in [Attempts -> TaskRecs]
  /\ \A a \in Attempts : TaskOk(a, task[a], row, target, stages)

DriverInv == Plain /\ Stored /\ TasksInv

-----------------------------------------------------------------------------

\* What the row operations of the lifecycle machine return.
LEMMA ReleaseResult ==
  ASSUME NEW r \in Rows
  PROVE  /\ Release(r) \in Rows
         /\ Release(r).phase = "Pending" /\ Release(r).token = None
         /\ Release(r).attempt = r.attempt /\ Release(r).late = r.late
BY DEF Release, Rows

\* A claim is the next attempt's.
LEMMA ClaimResult ==
  ASSUME NEW r \in Rows
  PROVE  /\ Claim(r) \in Rows
         /\ Claim(r).phase = "Claimed" /\ Claim(r).token = r.attempt + 1
         /\ Claim(r).attempt = r.attempt + 1 /\ Claim(r).late = r.late
<1>1. r.attempt + 1 \in Nat
  BY DEF Rows
<1> QED
  BY <1>1 DEF Claim, Rows, Leased

\* An end without a delivery keeps the attempt and gives up the claim.
LEMMA EndResult ==
  ASSUME NEW r \in Rows, NEW ph \in TerminalPhases, NEW why \in {None} \cup Failures
  PROVE  /\ EndUndelivered(r, ph, why) \in Rows
         /\ EndUndelivered(r, ph, why).phase = ph
         /\ EndUndelivered(r, ph, why).token = None
         /\ EndUndelivered(r, ph, why).failure = why
         /\ EndUndelivered(r, ph, why).attempt = r.attempt
         /\ EndUndelivered(r, ph, why).late = r.late
BY DEF EndUndelivered, Rows

\* The phase of a row that is not superseded after each input.
PhaseAfter == [Release |-> "Pending", Supersede |-> "Superseded", Complete |-> "Completed",
               Fail |-> "DeliveryFailed", NotAdmitted |-> "Misfired"]

\* An input that ends an attempt keeps the attempt and at most gives up its
\* claim; a superseded row stays superseded.
LEMMA ApplyResult ==
  ASSUME NEW r \in Rows, NEW i \in Inputs
  PROVE  /\ Apply(r, i) \in Rows
         /\ Apply(r, i).attempt = r.attempt
         /\ r.phase = "Superseded" =>
              /\ Apply(r, i).phase = "Superseded"
              /\ Apply(r, i).token = r.token
              /\ Apply(r, i).late = (IF i \in {"Complete", "Fail"} THEN i ELSE r.late)
         /\ r.phase # "Superseded" =>
              /\ Apply(r, i).late = r.late
              /\ Apply(r, i).phase = PhaseAfter[i]
              /\ Apply(r, i).token = (IF i \in {"Release", "NotAdmitted"} THEN None ELSE r.token)
<1> USE DEF Rows, Failures, TerminalPhases, Leased, PhaseAfter
<1>1. CASE r.phase = "Superseded"
  BY <1>1 DEF Apply
<1>2. CASE r.phase # "Superseded" /\ i = "Release"
  BY <1>2 DEF Apply, Release
<1>3. CASE r.phase # "Superseded" /\ i = "Supersede"
  BY <1>3 DEF Apply
<1>4. CASE r.phase # "Superseded" /\ i = "Complete"
  BY <1>4 DEF Apply
<1>5. CASE r.phase # "Superseded" /\ i = "Fail"
  BY <1>5 DEF Apply
<1>6. CASE r.phase # "Superseded" /\ i = "NotAdmitted"
  BY <1>6 DEF Apply, EndUndelivered
<1> QED
  BY <1>1, <1>2, <1>3, <1>4, <1>5, <1>6 DEF Inputs

\* A task record after a change of its step, and an ended task.
LEMMA TaskResult ==
  ASSUME NEW k \in TaskRecs, NEW at \in Steps
  PROVE  /\ [k EXCEPT !.at = at] \in TaskRecs
         /\ [k EXCEPT !.at = at].at = at
         /\ [k EXCEPT !.at = at].redelivery = k.redelivery
         /\ [k EXCEPT !.at = at].seen = k.seen
         /\ [k EXCEPT !.at = at].input = k.input
         /\ [k EXCEPT !.at = at].result = k.result
         /\ NoTask \in TaskRecs
BY DEF TaskRecs, NoTask, Steps

-----------------------------------------------------------------------------

\* A step of the store or the target never takes back an attempt, a claim, a
\* supersession, an outcome or an admission; an admission is recorded by the
\* task whose claim is current.
Forward ==
  /\ row'.attempt >= row.attempt
  /\ row'.attempt = row.attempt => row'.token \in {None, row.token}
  /\ row.phase = "Superseded" => row'.phase = "Superseded"
  /\ target.outcome = "Complete" => target'.outcome = "Complete"
  /\ target.admitted => target'.admitted
  /\ "DispatchAccepted" \in stages' /\ "DispatchAccepted" \notin stages =>
       \E a \in Attempts : Current(a) /\ task[a].at = "accept"

\* An ended task is fine in every state.
LEMMA NoTaskOk ==
  ASSUME NEW a, NEW r, NEW tg, NEW st
  PROVE  TaskOk(a, NoTask, r, tg, st)
BY NoneAssumption DEF TaskOk, NoTask, Inputs

\* A task that a forward step does not touch stays fine.
LEMMA ForwardKeeps ==
  ASSUME DriverInv, Stored', Forward, NEW a \in Attempts
  PROVE  TaskOk(a, task[a], row', target', stages')
<1>0. a \in Nat /\ a # None /\ row.attempt \in Nat /\ row'.attempt \in Nat
  BY ReclaimCapAssumption, BoundsAssumption DEF Attempts, DriverInv, Stored, Rows
<1>1. TaskOk(a, task[a], row, target, stages)
  BY DEF DriverInv, TasksInv
<1>2. CASE task[a] = NoTask
  BY <1>2, NoTaskOk
<1>3. CASE task[a] # NoTask
  <2>1. a <= row.attempt
    BY <1>0, <1>1, <1>3 DEF TaskOk
  <2>2. row'.attempt = a /\ row'.token = a => row.attempt = a /\ row.token = a
    BY <1>0, <2>1 DEF Forward
  <2>3. task[a].input # None => task[a].at # "accept"
    BY <1>1 DEF TaskOk
  <2>4. task[a].input = "NotAdmitted" /\ row'.attempt = a /\ row'.token = a
           => "DispatchAccepted" \notin stages'
    BY <1>0, <1>1, <2>2, <2>3, NoneAssumption DEF TaskOk, Forward, Current, Inputs
  <2> QED
    BY <1>0, <1>1, <2>1, <2>4 DEF TaskOk, Forward
<1> QED
  BY <1>2, <1>3

\* A forward step that gives one task a new record, or none.
LEMMA OneTaskMoves ==
  ASSUME DriverInv, Stored', Forward, NEW a \in Attempts, NEW k \in TaskRecs,
         task' = [task EXCEPT ![a] = k], TaskOk(a, k, row', target', stages')
  PROVE  TasksInv'
BY ForwardKeeps DEF DriverInv, TasksInv

\* No task moves.
LEMMA NoTaskMoves ==
  ASSUME DriverInv, Stored', Forward, task' = task
  PROVE  TasksInv'
BY ForwardKeeps DEF DriverInv, TasksInv

\* A task ends.
LEMMA StopKeeps ==
  ASSUME DriverInv, Stored', Forward, NEW a \in Attempts, Stop(a)
  PROVE  TasksInv'
BY OneTaskMoves, NoTaskOk, TaskResult DEF Stop, DriverInv, TasksInv, Steps

-----------------------------------------------------------------------------

\* The store keeps the row but for its count of stale arrivals.
LEMMA StoreStays ==
  ASSUME DriverInv, row' = row \/ row' = [row EXCEPT !.stale = @ + 1],
         UNCHANGED <<stages, ends>>,
         target' \in [admitted : BOOLEAN, outcome : {None, "Complete", "Fail"}],
         target.outcome = "Complete" => target'.outcome = "Complete",
         target.admitted => target'.admitted
  PROVE  Stored' /\ Forward
<1>1. /\ row' \in Rows /\ row'.phase = row.phase /\ row'.attempt = row.attempt
      /\ row'.token = row.token /\ row'.failure = row.failure /\ row'.late = row.late
  BY DEF DriverInv, Stored, Rows
<1>2. ClaimInv' /\ AdmissionInv'
  BY <1>1 DEF DriverInv, Stored, ClaimInv, AdmissionInv
<1>3. ReceiptsTellTheEnd' /\ CompletedMeansCompleted' /\ AdmittedNeverMisfires'
  BY <1>1 DEF DriverInv, Stored, ReceiptsTellTheEnd, CompletedMeansCompleted,
              AdmittedNeverMisfires, Terminal
<1>4. row.attempt \in Nat
  BY DEF DriverInv, Stored, Rows
<1> QED
  BY <1>1, <1>2, <1>3, <1>4 DEF DriverInv, Stored, Forward

\* A live row moves to a live phase.
LEMMA LiveStays ==
  ASSUME DriverInv, row' \in Rows, ~Terminal(row), ~Terminal(row)', row'.late = row.late,
         ClaimInv', UNCHANGED <<ends, target>>
  PROVE  ReceiptsTellTheEnd' /\ CompletedMeansCompleted' /\ AdmittedNeverMisfires'
BY DEF DriverInv, Stored, ReceiptsTellTheEnd, CompletedMeansCompleted, AdmittedNeverMisfires,
       Terminal, TerminalPhases

\* A row comes to its end with a receipt of it; a superseded row may have
\* another one.
LEMMA EndIsTold ==
  ASSUME DriverInv, row'.phase \in TerminalPhases, ends' = Append(ends, row'.phase),
         ~Terminal(row) \/ (row.phase = "Superseded" /\ row'.phase = "Superseded")
  PROVE  ReceiptsTellTheEnd' /\ ends' \in Seq(TerminalPhases)
<1>1. /\ ends \in Seq(TerminalPhases) /\ ends' \in Seq(TerminalPhases)
      /\ Len(ends') = Len(ends) + 1 /\ ends' # <<>>
      /\ \A i \in 1..Len(ends) : ends'[i] = ends[i]
      /\ ends'[Len(ends) + 1] = row'.phase
  BY DEF DriverInv, Stored
<1>2. Terminal(row)'
  BY DEF Terminal
<1>3. CASE ~Terminal(row)
  BY <1>1, <1>2, <1>3 DEF DriverInv, Stored, ReceiptsTellTheEnd
<1>4. CASE row.phase = "Superseded" /\ row'.phase = "Superseded"
  BY <1>1, <1>2, <1>4 DEF DriverInv, Stored, ReceiptsTellTheEnd
<1> QED
  BY <1>3, <1>4

\* A commit of an input that the row accepts, with its receipt, when a
\* completion is true of the target and a missing admission is not recorded.
LEMMA CommitKeeps ==
  ASSUME DriverInv, NEW i \in Inputs, Accepts(row, i), Commit(i), target' = target,
         i = "Complete" => target.outcome = "Complete",
         i = "NotAdmitted" => "DispatchAccepted" \notin stages
  PROVE  Stored' /\ Forward
<1>1. row \in Rows /\ row' = Apply(row, i)
  BY DEF DriverInv, Stored, Commit
<1>2. /\ row' \in Rows
      /\ row'.attempt = row.attempt
      /\ row.phase = "Superseded" =>
           /\ row'.phase = "Superseded"
           /\ row'.token = row.token
           /\ row'.late = (IF i \in {"Complete", "Fail"} THEN i ELSE row.late)
      /\ row.phase # "Superseded" =>
           /\ row'.late = row.late
           /\ row'.phase = PhaseAfter[i]
           /\ row'.token = (IF i \in {"Release", "NotAdmitted"} THEN None ELSE row.token)
  BY <1>1, ApplyResult
<1>3. row.attempt \in Nat
  BY <1>1 DEF Rows
<1>4. ClaimInv'
  BY <1>2, <1>3 DEF DriverInv, Stored, ClaimInv, Leased, PhaseAfter, Inputs
<1>5. ~Terminal(row) \/ row.phase = "Superseded"
  BY DEF Accepts, Terminal, TerminalPhases, Leased, Inputs
<1>6. ReceiptsTellTheEnd' /\ ends' \in Seq(TerminalPhases)
  <2>1. CASE Terminal(row')
    BY <1>2, <1>5, <2>1, EndIsTold DEF Commit, Terminal
  <2>2. CASE ~Terminal(row')
    BY <1>2, <1>5, <2>2 DEF Commit, Terminal, TerminalPhases, DriverInv, Stored,
       ReceiptsTellTheEnd
  <2> QED
    BY <2>1, <2>2
<1>7. CompletedMeansCompleted'
  BY <1>2, ReclaimCapAssumption
     DEF DriverInv, Stored, CompletedMeansCompleted, PhaseAfter, Inputs
<1>8. AdmittedNeverMisfires' /\ AdmissionInv'
  BY <1>2 DEF DriverInv, Stored, AdmittedNeverMisfires, AdmissionInv, Commit, PhaseAfter, Inputs
<1> QED
  BY <1>2, <1>3, <1>4, <1>6, <1>7, <1>8 DEF DriverInv, Stored, Forward, Commit

-----------------------------------------------------------------------------

\* The store and the target are left alone.
LEMMA QuietStore ==
  ASSUME DriverInv, UNCHANGED <<row, stages, ends, target>>
  PROVE  Stored' /\ Forward
BY StoreStays DEF DriverInv, Stored

\* A task at work belongs to a claimed attempt.
LEMMA WorkingTask ==
  ASSUME DriverInv, NEW a \in Attempts, task[a].at # "none"
  PROVE  /\ a \in Nat /\ row.attempt \in Nat /\ a <= row.attempt
         /\ task[a] \in TaskRecs
         /\ TaskOk(a, task[a], row, target, stages)
BY BoundsAssumption DEF DriverInv, TasksInv, TaskOk, Attempts, NoTask, Stored, Rows

\* A task goes on to another step.
LEMMA GotoKeeps ==
  ASSUME DriverInv, Stored', Forward, NEW a \in Attempts, NEW at \in Steps, Goto(a, at),
         TaskOk(a, [task[a] EXCEPT !.at = at], row', target', stages')
  PROVE  TasksInv'
<1>1. [task[a] EXCEPT !.at = at] \in TaskRecs
  BY TaskResult DEF DriverInv, TasksInv
<1> QED
  BY <1>1, OneTaskMoves DEF Goto

\* Steps that ask nothing of the task's record but what it carries.
LEMMA PlainGotoKeeps ==
  ASSUME DriverInv, Stored', Forward, NEW a \in Attempts, task[a].at # "none",
         NEW at \in {"release", "probe", "start", "refetch", "stale"}, Goto(a, at),
         task[a].input = None \/ at = "stale"
  PROVE  TasksInv'
<1>1. TaskOk(a, task[a], row', target', stages') /\ task[a] \in TaskRecs
  BY ForwardKeeps DEF DriverInv, TasksInv
<1>2. a \in Nat /\ row'.attempt \in Nat /\ a <= row'.attempt
  BY WorkingTask DEF Forward, Stored, Rows
<1> DEFINE k == [task[a] EXCEPT !.at = at]
<1>3. k.at = at /\ k.input = task[a].input /\ k.result = task[a].result
  BY <1>1, TaskResult DEF Steps
<1>4. TaskOk(a, k, row', target', stages')
  BY <1>1, <1>2, <1>3 DEF TaskOk
<1> QED
  BY <1>4, GotoKeeps DEF Steps

\* A task carries an end to terminalize_occurrence_inner.
LEMMA TerminalizeKeeps ==
  ASSUME DriverInv, Stored', Forward, NEW a \in Attempts, task[a].at # "none",
         NEW i \in Inputs \ {"Release"}, Terminalize(a, i),
         i = "Complete" => target.outcome = "Complete",
         i = "NotAdmitted" => "DispatchAccepted" \notin stages'
  PROVE  TasksInv'
<1> DEFINE k == [NoTask EXCEPT !.at = "route", !.input = i, !.result = task[a].result]
<1>1. /\ k \in TaskRecs /\ k.at = "route" /\ k.input = i /\ k.result = task[a].result
  BY DEF DriverInv, TasksInv, TaskRecs, NoTask, Steps
<1>2. a \in Nat /\ row'.attempt \in Nat /\ a <= row'.attempt
  BY WorkingTask DEF Forward, Stored, Rows
<1>3. task[a].result = "Complete" => target.outcome = "Complete"
  BY WorkingTask DEF TaskOk
<1>4. TaskOk(a, k, row', target', stages')
  BY <1>1, <1>2, <1>3 DEF TaskOk, Forward
<1> HIDE DEF k
<1>5. task' = [task EXCEPT ![a] = k]
  BY DEF Terminalize, k
<1> QED
  BY <1>1, <1>4, <1>5, OneTaskMoves

-----------------------------------------------------------------------------

\* The claim scan finds a row without a lease, or releases it first.
LEMMA DueResult ==
  ASSUME DriverInv
  PROVE  /\ Due \in Rows /\ Due.attempt = row.attempt /\ Due.late = row.late
         /\ Due = row \/ (Due = Release(row) /\ row.phase \in Leased)
         /\ Due.phase = "Pending" => ~Terminal(row)
BY ReleaseResult DEF DriverInv, Stored, Due, Terminal, TerminalPhases, Leased

\* A claim is the next attempt's: earlier tasks are behind it.
LEMMA ScanClaimsKeeps ==
  ASSUME DriverInv, ScanClaims
  PROVE  Stored' /\ TasksInv'
<1>1. Due \in Rows /\ Due.phase = "Pending" /\ Due.attempt = row.attempt /\ ~Terminal(row)
      /\ Due.late = row.late /\ row' = Claim(Due)
  BY DueResult DEF ScanClaims, Claimable
<1>2. /\ row' \in Rows /\ row'.phase = "Claimed" /\ row'.attempt = row.attempt + 1
      /\ row'.token = row'.attempt /\ row'.late = row.late
  BY <1>1, ClaimResult
<1>3. row.attempt \in Nat /\ row'.attempt \in Attempts
  BY BoundsAssumption, <1>2 DEF DriverInv, Stored, Rows, ScanClaims, Attempts
<1>4. ClaimInv'
  BY <1>2, <1>3, BoundsAssumption DEF ClaimInv, Attempts, Leased
<1>5. Stored'
  BY <1>1, <1>2, <1>4, LiveStays
     DEF DriverInv, Stored, AdmissionInv, ScanClaims, world, Terminal, TerminalPhases
<1>6. Forward
  BY <1>1, <1>2, <1>3 DEF Forward, ScanClaims, world, Terminal, TerminalPhases
<1> DEFINE k == [NoTask EXCEPT !.at = "claimed",
                               !.redelivery = Redelivery(Evidence(stages), overdue)]
<1>7. k \in TaskRecs /\ k.at = "claimed" /\ k.input = None /\ k.result = None
  BY DEF TaskRecs, NoTask, Steps, Redelivery
<1>8. TaskOk(row'.attempt, k, row', target', stages')
  BY <1>3, <1>7, NoneAssumption DEF TaskOk, Inputs, Attempts
<1> HIDE DEF k
<1>9. task' = [task EXCEPT ![row'.attempt] = k]
  BY DEF ScanClaims, k
<1> QED
  BY <1>3, <1>5, <1>6, <1>7, <1>8, <1>9, OneTaskMoves

\* A due row that ends without a delivery.
LEMMA EndsUndelivered ==
  ASSUME DriverInv, ~Terminal(row), NEW r \in Rows, r.attempt = row.attempt, r.late = row.late,
         NEW ph \in TerminalPhases \ {"Completed", "Superseded"},
         NEW why \in {None} \cup Failures,
         row' = EndUndelivered(r, ph, why), ends' = Append(ends, ph),
         ph = "Misfired" /\ why = None => "DispatchAccepted" \notin stages,
         UNCHANGED <<stages, target>>
  PROVE  Stored' /\ Forward
<1>1. /\ row' \in Rows /\ row'.phase = ph /\ row'.token = None /\ row'.failure = why
      /\ row'.attempt = row.attempt /\ row'.late = row.late
  BY EndResult
<1>2. ClaimInv'
  BY <1>1 DEF ClaimInv, DriverInv, Stored, TerminalPhases, Leased
<1>3. ReceiptsTellTheEnd' /\ ends' \in Seq(TerminalPhases)
  BY <1>1, EndIsTold
<1>4. CompletedMeansCompleted' /\ AdmittedNeverMisfires' /\ AdmissionInv'
  BY <1>1 DEF DriverInv, Stored, CompletedMeansCompleted, AdmittedNeverMisfires, AdmissionInv
<1>5. row.attempt \in Nat /\ row.phase # "Superseded"
  BY DEF DriverInv, Stored, Rows, Terminal, TerminalPhases
<1> QED
  BY <1>1, <1>2, <1>3, <1>4, <1>5 DEF DriverInv, Stored, Forward

\* A misfire is decided on an unrecorded dispatch.
LEMMA ScanMisfiresKeeps ==
  ASSUME DriverInv, ScanMisfires
  PROVE  Stored' /\ TasksInv'
<1>1. "DispatchAccepted" \notin stages /\ Due.phase = "Pending"
  BY DEF ScanMisfires, Misfires, Evidence
<1>2. Stored' /\ Forward
  <2>1. CASE row.phase = "Pending"
    BY <1>1, <2>1, EndsUndelivered
       DEF ScanMisfires, world, Terminal, TerminalPhases, DriverInv, Stored
  <2>2. CASE row.phase # "Pending"
    <3>1. row' = Release(row) /\ row.phase \in Leased /\ row \in Rows
      BY <1>1, <2>2, DueResult DEF ScanMisfires, DriverInv, Stored
    <3>2. /\ row' \in Rows /\ row'.phase = "Pending" /\ row'.token = None
          /\ row'.attempt = row.attempt /\ row'.late = row.late
      BY <3>1, ReleaseResult
    <3>3. ClaimInv'
      BY <3>2 DEF ClaimInv, Leased, DriverInv, Stored
    <3>4. ReceiptsTellTheEnd' /\ CompletedMeansCompleted' /\ AdmittedNeverMisfires'
      BY <2>2, <3>1, <3>2, <3>3, LiveStays
         DEF ScanMisfires, world, Terminal, TerminalPhases, Leased
    <3>5. row.attempt \in Nat /\ row.phase # "Superseded"
      BY <3>1 DEF Rows, Leased
    <3> QED
      BY <2>2, <3>2, <3>3, <3>4, <3>5
         DEF DriverInv, Stored, AdmissionInv, ScanMisfires, world, Forward
  <2> QED
    BY <2>1, <2>2
<1> QED
  BY <1>2, NoTaskMoves DEF ScanMisfires

\* Past the reclaim cap a recorded admission ends failed, and only an
\* unrecorded one misfires.
LEMMA ScanExhaustsKeeps ==
  ASSUME DriverInv, ScanExhausts
  PROVE  Stored' /\ TasksInv'
<1>1. Due \in Rows /\ Due.attempt = row.attempt /\ Due.late = row.late /\ ~Terminal(row)
  BY DueResult DEF ScanExhausts, Exhausted
<1>2. CASE "DispatchAccepted" \in stages
  <2>1. row' = EndUndelivered(Due, "DeliveryFailed", "LeaseLost")
    BY <1>2 DEF ScanExhausts, EndExhausted, Evidence
  <2>2. ends' = Append(ends, "DeliveryFailed")
    BY <1>1, <2>1, EndResult DEF ScanExhausts, TerminalPhases, Failures
  <2>3. Stored' /\ Forward
    BY <1>1, <2>1, <2>2, EndsUndelivered DEF ScanExhausts, world, TerminalPhases, Failures
  <2> QED
    BY <2>3, NoTaskMoves DEF ScanExhausts
<1>3. CASE "DispatchAccepted" \notin stages
  <2>1. row' = EndUndelivered(Due, "Misfired", None)
    BY <1>3 DEF ScanExhausts, EndExhausted, Evidence
  <2>2. ends' = Append(ends, "Misfired")
    BY <1>1, <2>1, EndResult DEF ScanExhausts, TerminalPhases
  <2>3. Stored' /\ Forward
    BY <1>1, <1>3, <2>1, <2>2, EndsUndelivered DEF ScanExhausts, world, TerminalPhases
  <2> QED
    BY <2>3, NoTaskMoves DEF ScanExhausts
<1> QED
  BY <1>2, <1>3

-----------------------------------------------------------------------------

\* The driver reconciles a claim with the schedule as it reads it.
LEMMA ReconcileKeeps ==
  ASSUME DriverInv, NEW a \in Attempts, Reconcile(a)
  PROVE  Stored' /\ TasksInv'
<1>1. Stored' /\ Forward
  BY QuietStore DEF Reconcile, world, store
<1>2. TaskOk(a, task[a], row', target', stages') /\ task[a] \in TaskRecs /\ task[a].at = "claimed"
  BY <1>1, ForwardKeeps DEF Reconcile, DriverInv, TasksInv
<1>3. CASE Goto(a, "release")
  BY <1>1, <1>2, <1>3, PlainGotoKeeps DEF TaskOk
<1>4. CASE Terminalize(a, "Supersede")
  BY <1>1, <1>2, <1>4, TerminalizeKeeps DEF Inputs
<1>5. CASE Goto(a, "probe")
  BY <1>1, <1>2, <1>5, PlainGotoKeeps DEF TaskOk
<1> QED
  BY <1>1, <1>3, <1>4, <1>5 DEF Reconcile

\* A claim of a paused schedule is released under the claim's screen.
LEMMA ReleaseFrozenKeeps ==
  ASSUME DriverInv, NEW a \in Attempts, ReleaseFrozen(a)
  PROVE  Stored' /\ TasksInv'
<1>1. CASE Current(a) /\ Accepts(row, "Release")
  <2>1. Stored' /\ Forward
    BY <1>1, CommitKeeps DEF ReleaseFrozen, Inputs, world
  <2> QED
    BY <2>1, StopKeeps DEF ReleaseFrozen
<1>2. CASE ~(Current(a) /\ Accepts(row, "Release"))
  <2>1. Stored' /\ Forward
    BY <1>2, QuietStore DEF ReleaseFrozen, world, store
  <2> QED
    BY <2>1, StopKeeps DEF ReleaseFrozen
<1> QED
  BY <1>1, <1>2

\* A probe ends only the attempt whose claim is current.
LEMMA ProbeTargetKeeps ==
  ASSUME DriverInv, NEW a \in Attempts, ProbeTarget(a)
  PROVE  Stored' /\ TasksInv'
<1>1. CASE UNCHANGED store /\ Goto(a, "start")
  <2>1. Stored' /\ Forward
    BY <1>1, QuietStore DEF ProbeTarget, world, store
  <2>2. TaskOk(a, task[a], row', target', stages') /\ task[a] \in TaskRecs /\ task[a].at = "probe"
    BY <2>1, ForwardKeeps DEF ProbeTarget, DriverInv, TasksInv
  <2> QED
    BY <1>1, <2>1, <2>2, PlainGotoKeeps DEF TaskOk
<1>2. CASE UNCHANGED store /\ Stop(a)
  BY <1>2, QuietStore, StopKeeps DEF ProbeTarget, world, store
<1>3. ASSUME NEW end \in {<<"Skipped", "TargetMissing">>, <<"Misfired", "TargetMissing">>,
                           <<"Skipped", "TargetBusy">>},
             row.phase = "Claimed", row' = EndUndelivered(row, end[1], end[2]),
             ends' = Append(ends, end[1]), Stop(a), UNCHANGED stages
      PROVE  Stored' /\ TasksInv'
  <2>1. /\ end[1] \in TerminalPhases \ {"Completed", "Superseded"}
        /\ end[2] \in {None} \cup Failures /\ end[2] # None
    BY NoneAssumption DEF TerminalPhases, Failures
  <2>2. row \in Rows /\ ~Terminal(row) /\ target' = target
    BY <1>3 DEF DriverInv, Stored, Terminal, TerminalPhases, ProbeTarget, world
  <2>3. Stored' /\ Forward
    BY <1>3, <2>1, <2>2, EndsUndelivered
  <2> QED
    BY <1>3, <2>3, StopKeeps
<1> QED
  BY <1>1, <1>2, <1>3 DEF ProbeTarget

\* The dispatch intent is committed on the current claim, and the driver
\* computes from the row it wrote.
LEMMA StartDispatchKeeps ==
  ASSUME DriverInv, NEW a \in Attempts, StartDispatch(a)
  PROVE  Stored' /\ TasksInv'
<1>1. CASE Current(a) /\ row.phase = "Claimed"
  <2>1. row' = [row EXCEPT !.phase = "Dispatching"] /\ stages' = stages \cup {"DispatchStarted"}
        /\ row \in Rows /\ UNCHANGED <<lapsed, ends, target>>
    BY <1>1 DEF StartDispatch, DriverInv, Stored, world
  <2>2. /\ row' \in Rows /\ row'.phase = "Dispatching" /\ row'.token = row.token
        /\ row'.attempt = row.attempt /\ row'.late = row.late /\ row'.token = a
        /\ row.attempt \in Nat
    BY <1>1, <2>1 DEF Rows, Leased, Current
  <2>3. ClaimInv'
    BY <1>1, <2>2 DEF ClaimInv, DriverInv, Stored, Leased
  <2>4. ReceiptsTellTheEnd' /\ CompletedMeansCompleted' /\ AdmittedNeverMisfires'
    BY <1>1, <2>1, <2>2, <2>3, LiveStays DEF Terminal, TerminalPhases
  <2>5. Stored' /\ Forward
    BY <1>1, <2>1, <2>2, <2>3, <2>4 DEF DriverInv, Stored, AdmissionInv, Forward
  <2> DEFINE k == [task[a] EXCEPT !.at = "deliver", !.seen = row']
  <2>6. TaskOk(a, task[a], row', target', stages') /\ task[a] \in TaskRecs /\ task[a].at = "start"
    BY <2>5, ForwardKeeps DEF StartDispatch, DriverInv, TasksInv
  <2>7. /\ k \in TaskRecs /\ k.at = "deliver" /\ k.seen = row' /\ k.input = task[a].input
        /\ k.result = task[a].result
    BY <2>2, <2>6 DEF TaskRecs, Steps
  <2>8. TaskOk(a, k, row', target', stages')
    BY <2>2, <2>6, <2>7 DEF TaskOk, NoTask, Dispatched
  <2> HIDE DEF k
  <2>9. task' = [task EXCEPT ![a] = k]
    BY <1>1 DEF StartDispatch, k
  <2> QED
    BY <2>5, <2>7, <2>8, <2>9, OneTaskMoves
<1>2. CASE ~(Current(a) /\ row.phase = "Claimed")
  <2>1. Stored' /\ Forward
    BY <1>2, QuietStore DEF StartDispatch, world, store
  <2> QED
    BY <1>2, <2>1, StopKeeps DEF StartDispatch
<1> QED
  BY <1>1, <1>2

\* The target admits once; its answers are what the task carries on.
LEMMA DeliverKeeps ==
  ASSUME DriverInv, NEW a \in Attempts, Deliver(a)
  PROVE  Stored' /\ TasksInv'
<1>1. task[a].at = "deliver" /\ task[a] \in TaskRecs /\ UNCHANGED <<row, stages, ends>>
  BY DEF Deliver, store, DriverInv, TasksInv
<1>2. ASSUME NEW at \in {"accept", "await"}, target' = [target EXCEPT !.admitted = TRUE],
             task' = [task EXCEPT ![a].at = at, ![a].redelivery = None]
      PROVE  Stored' /\ TasksInv'
  <2>1. /\ target' \in [admitted : BOOLEAN, outcome : {None, "Complete", "Fail"}]
        /\ target'.outcome = target.outcome /\ target'.admitted
    BY <1>2 DEF DriverInv, Stored
  <2>2. Stored' /\ Forward
    BY <1>1, <2>1, StoreStays
  <2>3. TaskOk(a, task[a], row', target', stages')
    BY <2>2, ForwardKeeps
  <2> DEFINE k == [task[a] EXCEPT !.at = at, !.redelivery = None]
  <2>4. /\ k \in TaskRecs /\ k.at = at /\ k.seen = task[a].seen /\ k.input = task[a].input
        /\ k.result = task[a].result
    BY <1>1 DEF TaskRecs, Steps
  <2>5. TaskOk(a, k, row', target', stages')
    BY <1>1, <2>1, <2>3, <2>4 DEF TaskOk, NoTask
  <2> HIDE DEF k
  <2>6. task' = [task EXCEPT ![a] = k]
    BY <1>2 DEF k
  <2> QED
    BY <2>2, <2>4, <2>5, <2>6, OneTaskMoves
<1>3. CASE target' = target /\ Terminalize(a, "Fail")
  BY <1>1, <1>3, QuietStore, TerminalizeKeeps DEF Inputs
<1>4. CASE target' = target /\ ~target.admitted /\ Terminalize(a, "NotAdmitted")
  <2>1. "DispatchAccepted" \notin stages'
    BY <1>1, <1>4 DEF DriverInv, Stored, AdmissionInv
  <2> QED
    BY <1>1, <1>4, <2>1, QuietStore, TerminalizeKeeps DEF Inputs
<1>5. CASE target' = [target EXCEPT !.admitted = TRUE] /\ Terminalize(a, "Fail")
  <2>1. /\ target' \in [admitted : BOOLEAN, outcome : {None, "Complete", "Fail"}]
        /\ target'.outcome = target.outcome /\ target'.admitted
    BY <1>5 DEF DriverInv, Stored
  <2>2. Stored' /\ Forward
    BY <1>1, <2>1, StoreStays
  <2> QED
    BY <1>1, <1>5, <2>2, TerminalizeKeeps DEF Inputs
<1> QED
  BY <1>2, <1>3, <1>4, <1>5 DEF Deliver

\* An admission is recorded on the current claim only, after the target made
\* it; the occurrence goes on dispatching.
LEMMA AcceptDispatchKeeps ==
  ASSUME DriverInv, NEW a \in Attempts, AcceptDispatch(a)
  PROVE  Stored' /\ TasksInv'
<1>1. CASE Current(a) /\ row.phase = "Dispatching"
  <2>1. /\ UNCHANGED <<row, ends, target>> /\ stages' = stages \cup {"DispatchAccepted"}
        /\ row \in Rows /\ task[a].at = "accept" /\ task[a] \in TaskRecs
        /\ TaskOk(a, task[a], row, target, stages)
    BY <1>1 DEF AcceptDispatch, DriverInv, Stored, TasksInv, world
  <2>2. target.admitted
    BY <2>1 DEF TaskOk
  <2>3. ReceiptsTellTheEnd' /\ CompletedMeansCompleted' /\ AdmittedNeverMisfires'
    BY <1>1, <2>1 DEF DriverInv, Stored, ReceiptsTellTheEnd, CompletedMeansCompleted,
                      AdmittedNeverMisfires, Terminal
  <2>4. Stored' /\ Forward
    BY <1>1, <2>1, <2>2, <2>3, WorkingTask DEF DriverInv, Stored, AdmissionInv, ClaimInv, Forward
  <2> DEFINE k == [task[a] EXCEPT !.at = "await", !.seen = row]
  <2>5. TaskOk(a, task[a], row', target', stages')
    BY <2>4, ForwardKeeps
  <2>6. /\ k \in TaskRecs /\ k.at = "await" /\ k.seen = row /\ k.input = task[a].input
        /\ k.result = task[a].result
    BY <2>1 DEF TaskRecs, Steps
  <2>7. TaskOk(a, k, row', target', stages')
    BY <1>1, <2>1, <2>5, <2>6 DEF TaskOk, NoTask, Dispatched, Current
  <2> HIDE DEF k
  <2>8. task' = [task EXCEPT ![a] = k]
    BY <1>1 DEF AcceptDispatch, k
  <2> QED
    BY <2>4, <2>6, <2>7, <2>8, OneTaskMoves
<1>2. CASE ~(Current(a) /\ row.phase = "Dispatching")
  <2>1. Stored' /\ Forward
    BY <1>2, QuietStore DEF AcceptDispatch, world, store
  <2> QED
    BY <1>2, <2>1, StopKeeps DEF AcceptDispatch
<1> QED
  BY <1>1, <1>2

\* The write that needs the exact row: it is the task's own dispatched row.
LEMMA AwaitCompletionKeeps ==
  ASSUME DriverInv, NEW a \in Attempts, AwaitCompletion(a)
  PROVE  Stored' /\ TasksInv'
<1>1. /\ task[a].at = "await" /\ task[a] \in TaskRecs /\ UNCHANGED <<stages, ends, target>>
      /\ TaskOk(a, task[a], row, target, stages)
  BY DEF AwaitCompletion, DriverInv, TasksInv, world
<1>2. CASE row = task[a].seen
  <2>1. row' = [row EXCEPT !.phase = "AwaitingCompletion"]
    BY <1>2 DEF AwaitCompletion
  <2>2. row \in Rows /\ row.phase \in Dispatched /\ row.token = a
    BY <1>1, <1>2 DEF TaskOk
  <2>3. /\ row' \in Rows /\ row'.phase = "AwaitingCompletion" /\ row'.token = row.token
        /\ row'.attempt = row.attempt /\ row'.late = row.late /\ row.attempt \in Nat
    BY <2>1, <2>2 DEF Rows, Leased
  <2>4. ClaimInv'
    BY <2>2, <2>3 DEF ClaimInv, DriverInv, Stored, Leased, Dispatched
  <2>5. ReceiptsTellTheEnd' /\ CompletedMeansCompleted' /\ AdmittedNeverMisfires'
    BY <1>1, <2>2, <2>3, <2>4, LiveStays DEF Terminal, TerminalPhases, Dispatched
  <2>6. Stored' /\ Forward
    BY <1>1, <2>2, <2>3, <2>4, <2>5 DEF DriverInv, Stored, AdmissionInv, Forward, Dispatched
  <2> DEFINE k == [task[a] EXCEPT !.at = "wait", !.seen = row']
  <2>7. TaskOk(a, task[a], row', target', stages')
    BY <2>6, ForwardKeeps
  <2>8. /\ k \in TaskRecs /\ k.at = "wait" /\ k.input = task[a].input
        /\ k.result = task[a].result
    BY <1>1, <2>3 DEF TaskRecs, Steps
  <2>9. TaskOk(a, k, row', target', stages')
    BY <1>1, <2>7, <2>8 DEF TaskOk, NoTask
  <2> HIDE DEF k
  <2>10. task' = [task EXCEPT ![a] = k]
    BY <1>2 DEF AwaitCompletion, k
  <2> QED
    BY <2>6, <2>8, <2>9, <2>10, OneTaskMoves
<1>3. CASE row # task[a].seen
  <2>1. UNCHANGED row /\ Goto(a, "refetch") /\ task[a].input = None
    BY <1>1, <1>3 DEF AwaitCompletion, TaskOk
  <2>2. Stored' /\ Forward
    BY <1>1, <2>1, QuietStore
  <2> QED
    BY <1>1, <2>1, <2>2, PlainGotoKeeps
<1> QED
  BY <1>2, <1>3

\* Only a superseded row is excused when the exact row is gone.
LEMMA RefetchKeeps ==
  ASSUME DriverInv, NEW a \in Attempts, Refetch(a)
  PROVE  Stored' /\ TasksInv'
<1>1. Stored' /\ Forward /\ row' = row
  BY QuietStore DEF Refetch, world, store
<1>2. CASE row.phase = "Superseded"
  <2>1. TaskOk(a, task[a], row', target', stages') /\ task[a] \in TaskRecs
        /\ task[a].at = "refetch" /\ row \in Rows
    BY <1>1, ForwardKeeps DEF Refetch, DriverInv, TasksInv, Stored
  <2> DEFINE k == [task[a] EXCEPT !.at = "wait", !.seen = row]
  <2>2. /\ k \in TaskRecs /\ k.at = "wait" /\ k.input = task[a].input
        /\ k.result = task[a].result
    BY <2>1 DEF TaskRecs, Steps
  <2>3. TaskOk(a, k, row', target', stages')
    BY <2>1, <2>2 DEF TaskOk, NoTask
  <2> HIDE DEF k
  <2>4. task' = [task EXCEPT ![a] = k]
    BY <1>2 DEF Refetch, k
  <2> QED
    BY <1>1, <2>2, <2>3, <2>4, OneTaskMoves
<1>3. CASE row.phase # "Superseded"
  BY <1>1, <1>3, StopKeeps DEF Refetch
<1> QED
  BY <1>2, <1>3

\* A waiter hears the outcome of the target, or that its channel is lost.
LEMMA HearKeeps ==
  ASSUME DriverInv, Stored', Forward, NEW a \in Attempts, task[a].at = "wait",
         NEW o \in {"Complete", "Fail"}, Hear(a, o), o = "Complete" => target.outcome = "Complete"
  PROVE  TasksInv'
<1>1. TaskOk(a, task[a], row', target', stages') /\ task[a] \in TaskRecs
  BY ForwardKeeps DEF DriverInv, TasksInv
<1> DEFINE k == [task[a] EXCEPT !.at = "finish", !.result = o]
<1>2. k \in TaskRecs /\ k.at = "finish" /\ k.input = task[a].input /\ k.result = o
  BY <1>1 DEF TaskRecs, Steps
<1>3. TaskOk(a, k, row', target', stages')
  BY <1>1, <1>2, NoneAssumption DEF TaskOk, NoTask, Forward, Inputs
<1> HIDE DEF k
<1>4. task' = [task EXCEPT ![a] = k]
  BY DEF Hear, k
<1> QED
  BY <1>2, <1>3, <1>4, OneTaskMoves

\* The waiter of the completion.
LEMMA WaitCompletionKeeps ==
  ASSUME DriverInv, NEW a \in Attempts, WaitCompletion(a) \/ LoseCompletion(a)
  PROVE  Stored' /\ TasksInv'
<1>1. Stored' /\ Forward
  BY QuietStore DEF WaitCompletion, LoseCompletion, world, store
<1>2. target.outcome \in {None, "Complete", "Fail"}
  BY DEF DriverInv, Stored
<1>3. CASE WaitCompletion(a)
  BY <1>1, <1>2, <1>3, HearKeeps DEF WaitCompletion
<1>4. CASE LoseCompletion(a)
  BY <1>1, <1>4, HearKeeps DEF LoseCompletion
<1> QED
  BY <1>1, <1>3, <1>4

\* The waiter carries what it heard, or a supersession.
LEMMA FinishCompletionKeeps ==
  ASSUME DriverInv, NEW a \in Attempts, FinishCompletion(a)
  PROVE  Stored' /\ TasksInv'
<1>1. Stored' /\ Forward
  BY QuietStore DEF FinishCompletion, world, store
<1>2. /\ task[a].at = "finish" /\ task[a] \in TaskRecs
      /\ TaskOk(a, task[a], row, target, stages)
  BY DEF FinishCompletion, DriverInv, TasksInv
<1>3. /\ task[a].result \in {"Complete", "Fail"}
      /\ task[a].result = "Complete" => target.outcome = "Complete"
  BY <1>2 DEF TaskOk, TaskRecs
<1>4. CASE Terminalize(a, "Supersede")
  BY <1>1, <1>2, <1>4, TerminalizeKeeps DEF Inputs
<1>5. CASE Terminalize(a, task[a].result)
  BY <1>1, <1>2, <1>3, <1>5, TerminalizeKeeps DEF Inputs
<1> QED
  BY <1>1, <1>4, <1>5 DEF FinishCompletion

\* The phase a task reads: a superseded row stays superseded until it writes.
LEMMA RouteKeeps ==
  ASSUME DriverInv, NEW a \in Attempts, Route(a)
  PROVE  Stored' /\ TasksInv'
<1>1. Stored' /\ Forward /\ row' = row
  BY QuietStore DEF Route, world, store
<1>2. TaskOk(a, task[a], row', target', stages') /\ task[a] \in TaskRecs /\ task[a].at = "route"
  BY <1>1, ForwardKeeps DEF Route, DriverInv, TasksInv
<1>3. ASSUME NEW at \in {"late", "commit"}, Goto(a, at), at = "late" => row.phase = "Superseded"
      PROVE  TasksInv'
  <2> DEFINE k == [task[a] EXCEPT !.at = at]
  <2>1. k.at = at /\ k.input = task[a].input /\ k.result = task[a].result
    BY <1>2, TaskResult DEF Steps
  <2>2. TaskOk(a, k, row', target', stages')
    BY <1>1, <1>2, <1>3, <2>1 DEF TaskOk, NoTask
  <2> QED
    BY <1>1, <1>3, <2>2, GotoKeeps DEF Steps
<1> QED
  BY <1>1, <1>3 DEF Route

\* A task whose end is not applied stops, or goes on with what it heard.
LEMMA NotAppliedKeeps ==
  ASSUME DriverInv, Stored', Forward, NEW a \in Attempts, task[a].at # "none",
         NEW at, NotApplied(a, at)
  PROVE  TasksInv'
<1>1. CASE Stop(a)
  BY <1>1, StopKeeps
<1>2. CASE task[a].result # None /\ Terminalize(a, task[a].result)
  <2>1. /\ task[a].result \in {"Complete", "Fail"}
        /\ task[a].result = "Complete" => target.outcome = "Complete"
    BY <1>2, WorkingTask DEF TaskOk, TaskRecs
  <2> QED
    BY <1>2, <2>1, TerminalizeKeeps DEF Inputs
<1>3. CASE Goto(a, "stale")
  BY <1>3, PlainGotoKeeps
<1> QED
  BY <1>1, <1>2, <1>3 DEF NotApplied

\* The end of an attempt is committed under the screen of its own claim.
LEMMA CommitTerminalKeeps ==
  ASSUME DriverInv, NEW a \in Attempts, CommitTerminal(a)
  PROVE  Stored' /\ TasksInv'
<1>1. task[a].at = "commit" /\ TaskOk(a, task[a], row, target, stages)
  BY DEF CommitTerminal, DriverInv, TasksInv
<1>2. CASE UNCHANGED store
  <2>1. Stored' /\ Forward
    BY <1>2, QuietStore DEF CommitTerminal, world, store
  <2> QED
    BY <1>1, <2>1, NotAppliedKeeps, StopKeeps DEF CommitTerminal
<1>3. CASE Current(a) /\ Accepts(row, task[a].input) /\ Commit(task[a].input) /\ Stop(a)
  <2>1. /\ task[a].input \in Inputs
        /\ task[a].input = "Complete" => target.outcome = "Complete"
        /\ task[a].input = "NotAdmitted" => "DispatchAccepted" \notin stages
    BY <1>1, <1>3 DEF TaskOk, Current
  <2>2. Stored' /\ Forward
    BY <1>3, <2>1, CommitKeeps DEF CommitTerminal, world
  <2> QED
    BY <1>3, <2>2, StopKeeps
<1> QED
  BY <1>2, <1>3 DEF CommitTerminal

\* A superseded row records the outcome of the delivery and nothing else.
LEMMA RecordLateKeeps ==
  ASSUME DriverInv, NEW a \in Attempts, RecordLate(a)
  PROVE  Stored' /\ TasksInv'
<1>1. /\ task[a].at = "late" /\ TaskOk(a, task[a], row, target, stages)
      /\ UNCHANGED <<stages, ends, target>>
  BY DEF RecordLate, DriverInv, TasksInv, world
<1>2. CASE row' = row
  BY <1>1, <1>2, QuietStore, StopKeeps, NotAppliedKeeps DEF RecordLate
<1>3. CASE row' = Apply(row, task[a].input) /\ task[a].input \in {"Complete", "Fail"} /\ Stop(a)
  <2>1. row \in Rows /\ row.phase = "Superseded" /\ task[a].input \in Inputs
    BY <1>1, <1>3 DEF TaskOk, DriverInv, Stored, Inputs
  <2>2. /\ row' \in Rows /\ row'.phase = "Superseded" /\ row'.token = row.token
        /\ row'.attempt = row.attempt /\ row'.late = task[a].input /\ row.attempt \in Nat
    BY <1>3, <2>1, ApplyResult DEF Rows
  <2>3. ClaimInv' /\ AdmissionInv' /\ ReceiptsTellTheEnd'
    BY <1>1, <2>1, <2>2 DEF DriverInv, Stored, ClaimInv, AdmissionInv, ReceiptsTellTheEnd, Terminal
  <2>4. CompletedMeansCompleted' /\ AdmittedNeverMisfires'
    BY <1>1, <2>2 DEF CompletedMeansCompleted, AdmittedNeverMisfires, TaskOk
  <2>5. Stored' /\ Forward
    BY <1>1, <2>2, <2>3, <2>4 DEF DriverInv, Stored, Forward
  <2> QED
    BY <1>3, <2>5, StopKeeps
<1> QED
  BY <1>2, <1>3 DEF RecordLate

\* A stale arrival is a count on whatever row is there.
LEMMA ClassifyStaleArrivalKeeps ==
  ASSUME DriverInv, NEW a \in Attempts, ClassifyStaleArrival(a)
  PROVE  Stored' /\ TasksInv'
<1>1. Stored' /\ Forward
  BY StoreStays DEF ClassifyStaleArrival, world, DriverInv, Stored
<1> QED
  BY <1>1, StopKeeps DEF ClassifyStaleArrival

\* The driver of the current claim goes on from the renewed row.
LEMMA RenewLeaseKeeps ==
  ASSUME DriverInv, NEW a \in Attempts, RenewLease(a)
  PROVE  Stored' /\ TasksInv'
<1>1. Stored' /\ Forward /\ row' = row
  BY QuietStore DEF RenewLease, world
<1>2. TaskOk(a, task[a], row', target', stages') /\ task[a] \in TaskRecs /\ row \in Rows
      /\ task[a].at \in {"deliver", "wait"} /\ row.phase \in Dispatched /\ row.token = a
  BY <1>1, ForwardKeeps DEF RenewLease, Calling, Current, Dispatched, DriverInv, TasksInv, Stored
<1> DEFINE k == [task[a] EXCEPT !.seen = IF task[a].at = "deliver" THEN row ELSE @]
<1>3. /\ k \in TaskRecs /\ k.at = task[a].at /\ k.input = task[a].input
      /\ k.result = task[a].result /\ k.at = "deliver" => k.seen = row
  BY <1>2 DEF TaskRecs
<1>4. TaskOk(a, k, row', target', stages')
  BY <1>2, <1>3 DEF TaskOk, NoTask
<1> HIDE DEF k
<1>5. task' = [task EXCEPT ![a] = k]
  BY DEF RenewLease, k
<1> QED
  BY <1>1, <1>3, <1>4, <1>5, OneTaskMoves

\* Time, faults, the target and the schedule's pauses leave the row alone.
LEMMA WorldKeeps ==
  ASSUME DriverInv, \/ \E a \in Attempts : TaskEnds(a)
                    \/ LeaseExpires \/ LeaseOutrun \/ DeadlinePasses \/ TargetEnds
                    \/ Pause \/ Resume
  PROVE  Stored' /\ TasksInv'
<1>1. ASSUME NEW a \in Attempts, TaskEnds(a) PROVE Stored' /\ TasksInv'
  BY <1>1, QuietStore, StopKeeps DEF TaskEnds, store
<1>2. CASE LeaseExpires \/ LeaseOutrun
  BY <1>2, QuietStore, NoTaskMoves DEF LeaseExpires, LeaseOutrun, world
<1>3. CASE DeadlinePasses \/ Pause \/ Resume
  BY <1>3, QuietStore, NoTaskMoves DEF DeadlinePasses, Pause, Resume, store
<1>4. CASE TargetEnds
  <2>1. /\ target' \in [admitted : BOOLEAN, outcome : {None, "Complete", "Fail"}]
        /\ target.outcome = "Complete" => target'.outcome = "Complete"
        /\ target.admitted => target'.admitted
    BY <1>4, NoneAssumption DEF TargetEnds, DriverInv, Stored, Inputs
  <2>2. Stored' /\ Forward
    BY <1>4, <2>1, StoreStays DEF TargetEnds, store
  <2> QED
    BY <1>4, <2>2, NoTaskMoves DEF TargetEnds
<1> QED
  BY <1>1, <1>2, <1>3, <1>4

\* A revision or deletion supersedes a live row and no other.
LEMMA SupersedeKeeps ==
  ASSUME DriverInv, NEW phase, Supersede(phase)
  PROVE  Stored' /\ TasksInv'
<1>1. CASE Terminal(row)
  BY <1>1, QuietStore, NoTaskMoves DEF Supersede, store
<1>2. CASE ~Terminal(row)
  <2>1. Accepts(row, "Supersede") /\ Commit("Supersede")
    BY <1>2 DEF Accepts, Supersede
  <2>2. Stored' /\ Forward
    BY <2>1, CommitKeeps DEF Supersede, Inputs
  <2> QED
    BY <2>2, NoTaskMoves DEF Supersede
<1> QED
  BY <1>1, <1>2

-----------------------------------------------------------------------------

\* The lease flag, the clock, the schedule and the counters keep their types.
LEMMA PlainKeeps ==
  ASSUME DriverInv, Next
  PROVE  Plain'
<1> USE BoundsAssumption DEF DriverInv, Plain
<1>1. CASE Scan
  BY <1>1 DEF Scan, ScanClaims, ScanMisfires, ScanExhausts, world
<1>2. ASSUME NEW a \in Attempts, TaskStep(a) PROVE Plain'
  BY <1>2 DEF TaskStep, Reconcile, ReleaseFrozen, ProbeTarget, StartDispatch, Deliver,
     AcceptDispatch, AwaitCompletion, Refetch, WaitCompletion, FinishCompletion, Route,
     CommitTerminal, RecordLate, ClassifyStaleArrival, Commit, world, store
<1>3. ASSUME NEW a \in Attempts, LoseCompletion(a) \/ RenewLease(a) \/ TaskEnds(a) PROVE Plain'
  <2>1. lapsed' \in BOOLEAN /\ UNCHANGED <<schedule, overdue, edits>>
    BY <1>3 DEF LoseCompletion, RenewLease, TaskEnds, world, store
  <2>2. faults' = faults \/ (faults < MaxFaults /\ faults' = faults + 1)
    BY <1>3 DEF LoseCompletion, RenewLease, TaskEnds, world
  <2>3. faults' \in 0..MaxFaults
    BY <2>2
  <2> QED
    BY <2>1, <2>3
<1>4. CASE LeaseExpires \/ LeaseOutrun \/ DeadlinePasses \/ TargetEnds
  <2>1. lapsed' \in BOOLEAN /\ overdue' \in BOOLEAN /\ UNCHANGED <<schedule, edits>>
    BY <1>4 DEF LeaseExpires, LeaseOutrun, DeadlinePasses, TargetEnds, world, store
  <2>2. faults' = faults \/ (faults < MaxFaults /\ faults' = faults + 1)
    BY <1>4 DEF LeaseExpires, LeaseOutrun, DeadlinePasses, TargetEnds, world
  <2>3. faults' \in 0..MaxFaults
    BY <2>2
  <2> QED
    BY <2>1, <2>3
<1>5. CASE Pause \/ Resume
  BY <1>5 DEF Pause, Resume, Edit, store
<1>6. CASE Update \/ Delete
  <2>1. PICK phase \in {"Active", "Paused", "Deleted"} : Supersede(phase)
    BY <1>6 DEF Update, Delete
  <2>2. lapsed' \in BOOLEAN /\ UNCHANGED <<overdue, faults>>
    BY <2>1 DEF Supersede, Commit, store
  <2>3. edits' \in 0..MaxEdits
    BY <2>1 DEF Supersede, Edit
  <2>4. schedule' \in [phase : {"Active", "Paused", "Deleted"}, revision : Nat]
    BY <2>1 DEF Supersede
  <2> QED
    BY <2>2, <2>3, <2>4
<1> QED
  BY <1>1, <1>2, <1>3, <1>4, <1>5, <1>6 DEF Next

\* The invariant holds of a planned occurrence.
LEMMA DriverInit == Init => DriverInv
<1> SUFFICES ASSUME Init PROVE DriverInv
  OBVIOUS
<1> USE BoundsAssumption, NoneAssumption, ReclaimCapAssumption DEF Init
<1>1. Plain
  <2>1. lapsed \in BOOLEAN /\ overdue \in BOOLEAN
    OBVIOUS
  <2>2. faults \in 0..MaxFaults /\ edits \in 0..MaxEdits
    OBVIOUS
  <2>3. schedule \in [phase : {"Active", "Paused", "Deleted"}, revision : Nat]
    OBVIOUS
  <2> QED
    BY <2>1, <2>2, <2>3 DEF Plain
<1>2. /\ row \in Rows /\ row.phase = "Pending"
      /\ row.attempt = 0 /\ row.token = None /\ row.late = None
  BY DEF Planned, Rows
<1>3. ClaimInv /\ AdmissionInv /\ CompletedMeansCompleted /\ AdmittedNeverMisfires
  BY <1>2 DEF ClaimInv, AdmissionInv, CompletedMeansCompleted, AdmittedNeverMisfires, Leased, Inputs
<1>4. ReceiptsTellTheEnd
  BY <1>2 DEF ReceiptsTellTheEnd, Terminal, TerminalPhases
<1>5. TasksInv
  BY NoTaskOk, TaskResult DEF TasksInv, TaskRecs, NoTask, Steps
<1> QED
  BY <1>1, <1>2, <1>3, <1>4, <1>5 DEF DriverInv, Stored

\* Every step keeps the invariant.
LEMMA DriverNext == DriverInv /\ [Next]_vars => DriverInv'
<1> SUFFICES ASSUME DriverInv, [Next]_vars
             PROVE  DriverInv'
  OBVIOUS
<1>1. CASE UNCHANGED vars
  BY <1>1 DEF vars, DriverInv, Plain, Stored, TasksInv, ClaimInv, AdmissionInv,
     ReceiptsTellTheEnd, CompletedMeansCompleted, AdmittedNeverMisfires, Terminal
<1>2. CASE Next
  <2>1. Plain'
    BY <1>2, PlainKeeps
  <2>2. CASE Scan
    BY <2>1, <2>2, ScanClaimsKeeps, ScanMisfiresKeeps, ScanExhaustsKeeps DEF Scan, DriverInv
  <2>3. ASSUME NEW a \in Attempts, TaskStep(a) PROVE DriverInv'
    BY <2>1, <2>3, ReconcileKeeps, ReleaseFrozenKeeps, ProbeTargetKeeps, StartDispatchKeeps,
       DeliverKeeps, AcceptDispatchKeeps, AwaitCompletionKeeps, RefetchKeeps,
       WaitCompletionKeeps, FinishCompletionKeeps, RouteKeeps, CommitTerminalKeeps,
       RecordLateKeeps, ClassifyStaleArrivalKeeps
       DEF TaskStep, DriverInv
  <2>4. ASSUME NEW a \in Attempts, LoseCompletion(a) \/ RenewLease(a) PROVE DriverInv'
    BY <2>1, <2>4, WaitCompletionKeeps, RenewLeaseKeeps DEF DriverInv
  <2>5. CASE Update \/ Delete
    BY <2>1, <2>5, SupersedeKeeps DEF Update, Delete, DriverInv
  <2>6. CASE \/ \E a \in Attempts : TaskEnds(a)
             \/ LeaseExpires \/ LeaseOutrun \/ DeadlinePasses \/ TargetEnds
             \/ Pause \/ Resume
    BY <2>1, <2>6, WorldKeeps DEF DriverInv
  <2> QED
    BY <1>2, <2>2, <2>3, <2>4, <2>5, <2>6 DEF Next
<1> QED
  BY <1>1, <1>2

\* The invariant holds in every reachable state.
LEMMA DriverSafe == Spec => []DriverInv
BY DriverInit, DriverNext, PTL DEF Spec

\* The driver's variables keep their types.
THEOREM DriverTypes == Spec => []TypeOK
<1>1. DriverInv => TypeOK
  BY DEF DriverInv, Plain, Stored, TasksInv, TaskRecs, TypeOK
<1> QED
  BY <1>1, DriverSafe, PTL

\* The receipts tell the end of the occurrence, for any number of attempts,
\* late tasks and schedule edits (transition_occurrence_with_receipt_if_current
\* and the commit-time supersession sweep).
THEOREM ReceiptsAreTrue == Spec => []ReceiptsTellTheEnd
<1>1. DriverInv => ReceiptsTellTheEnd
  BY DEF DriverInv, Stored
<1> QED
  BY <1>1, DriverSafe, PTL

\* An occurrence ends completed, or records a late completion, only when the
\* target's own input completed (DispatchDeduplicatedFromDispatching).
THEOREM CompletionIsTrue == Spec => []CompletedMeansCompleted
<1>1. DriverInv => CompletedMeansCompleted
  BY DEF DriverInv, Stored
<1> QED
  BY <1>1, DriverSafe, PTL

\* A recorded admission never ends as a late misfire, whichever attempt gave
\* up past the deadline (ClassifyDuePendingMisfire, ClaimPendingAfterAdmission).
THEOREM AdmissionNeverMisfires == Spec => []AdmittedNeverMisfires
<1>1. DriverInv => AdmittedNeverMisfires
  BY DEF DriverInv, Stored
<1> QED
  BY <1>1, DriverSafe, PTL

-----------------------------------------------------------------------------

\* The row, the recorded stages and the terminal receipts do not move.
Inert == row'.phase = row.phase /\ row'.token = row.token /\ stages' = stages /\ ends' = ends

\* A step of a task leaves the other tasks alone.
LEMMA StepIsOwn ==
  ASSUME NEW a \in Attempts, NEW b \in Attempts, a # b, DriverInv,
         TaskStep(b) \/ LoseCompletion(b) \/ RenewLease(b) \/ TaskEnds(b)
  PROVE  task'[a] = task[a]
BY DEF TaskStep, Reconcile, ReleaseFrozen, ProbeTarget, StartDispatch, Deliver, AcceptDispatch,
   AwaitCompletion, Refetch, WaitCompletion, FinishCompletion, Route, CommitTerminal, RecordLate,
   ClassifyStaleArrival, LoseCompletion, RenewLease, TaskEnds, NotApplied, Goto, Stop,
   Terminalize, Hear, DriverInv, TasksInv

\* A step of a task whose claim is gone moves nothing that is stored.
LEMMA StaleStepInert ==
  ASSUME DriverInv, NEW a \in Attempts, row.token # a,
         TaskStep(a) \/ LoseCompletion(a) \/ RenewLease(a) \/ TaskEnds(a)
  PROVE  Inert
<1>0. ~Current(a)
  BY DEF Current
<1>1. CASE Reconcile(a) \/ Deliver(a) \/ Refetch(a) \/ WaitCompletion(a) \/ FinishCompletion(a)
           \/ Route(a) \/ LoseCompletion(a) \/ TaskEnds(a)
  BY <1>1 DEF Reconcile, Deliver, Refetch, WaitCompletion, FinishCompletion, Route,
              LoseCompletion, TaskEnds, store, Inert
<1>2. CASE ReleaseFrozen(a) \/ ProbeTarget(a) \/ StartDispatch(a) \/ AcceptDispatch(a)
           \/ CommitTerminal(a)
  BY <1>0, <1>2 DEF ReleaseFrozen, ProbeTarget, StartDispatch, AcceptDispatch, CommitTerminal,
                    store, Inert
<1>3. CASE AwaitCompletion(a)
  <2>1. row # task[a].seen
    BY <1>3 DEF AwaitCompletion, DriverInv, TasksInv, TaskOk
  <2> QED
    BY <1>3, <2>1 DEF AwaitCompletion, Inert
<1>4. CASE RecordLate(a)
  <2>1. row \in Rows /\ row.phase = "Superseded" /\ task[a].input \in Inputs
    BY <1>4 DEF RecordLate, DriverInv, TasksInv, TaskOk, Stored
  <2>2. row' = row \/ row' = Apply(row, task[a].input)
    BY <1>4 DEF RecordLate
  <2> QED
    BY <1>4, <2>1, <2>2, ApplyResult DEF RecordLate, Inert
<1>5. CASE ClassifyStaleArrival(a)
  BY <1>5 DEF ClassifyStaleArrival, Inert, DriverInv, Stored, Rows
<1>6. CASE RenewLease(a)
  BY <1>0, <1>6 DEF RenewLease
<1> QED
  BY <1>1, <1>2, <1>3, <1>4, <1>5, <1>6 DEF TaskStep

\* A task whose claim is gone never moves the row, whatever it was doing when
\* its lease lapsed (transition_occurrence_if_current): the theorem for any
\* number of attempts.
THEOREM StaleTasksAreInert == Spec => StaleAttemptsInert
<1>1. ASSUME DriverInv, [Next]_vars, NEW a \in Attempts,
             task[a].at # "none", task'[a] # task[a], row.token # a
      PROVE  Inert
  <2>1. CASE ScanClaims
    <3>1. a <= row.attempt /\ a \in Nat /\ row.attempt \in Nat
      BY <1>1, WorkingTask
    <3>2. row'.attempt = row.attempt + 1
      BY <2>1, <1>1, DueResult, ClaimResult DEF ScanClaims
    <3>3. task'[a] = task[a]
      BY <2>1, <3>1, <3>2, <1>1 DEF ScanClaims, DriverInv, TasksInv
    <3> QED
      BY <1>1, <3>3
  <2>2. ASSUME NEW b \in Attempts,
               TaskStep(b) \/ LoseCompletion(b) \/ RenewLease(b) \/ TaskEnds(b)
        PROVE  Inert
    BY <1>1, <2>2, StepIsOwn, StaleStepInert
  <2> QED
    BY <1>1, <2>1, <2>2 DEF Next, vars, Scan, ScanMisfires, ScanExhausts, LeaseExpires,
       LeaseOutrun, DeadlinePasses, TargetEnds, Pause, Resume, Update, Delete, Supersede
<1>2. DriverInv /\ [Next]_vars =>
        [\A a \in Attempts :
           (task[a].at # "none" /\ task'[a] # task[a] /\ row.token # a)
             => /\ row'.phase = row.phase
                /\ row'.token = row.token
                /\ stages' = stages /\ ends' = ends]_vars
  BY <1>1 DEF Inert
<1> QED
  BY <1>2, DriverSafe, PTL DEF Spec, StaleAttemptsInert
=============================================================================
