-------------------------- MODULE CallbackRecovery --------------------------
(***************************************************************************)
(* The recovery pass for detached callback tools, reconcile_detached_jobs. *)
(* Every tools/register spawns one and nothing else does; passes of        *)
(* different registrations overlap and share no lock.  A pass offers the   *)
(* active attempts to its host, waits for the host to say which of them it *)
(* is still executing, observes the loss of the others once their lease    *)
(* ran out, and decides the loss from what it offered.  It then starts     *)
(* whatever is queued or due, each start in a task of its own.             *)
(*                                                                         *)
(* The worker runs in the callback host, not in the process of the pass.   *)
(***************************************************************************)
EXTENDS JobHost

CONSTANTS
    Registrations,  \* the tools/register calls whose pass may be running
    MaxStarting     \* bound: start tasks that run at a time

VARIABLES
    pass,           \* for each registration, its running pass, or None
    starting,       \* start tasks that have not claimed yet
    starts          \* claimed attempts whose callback/job/start is unanswered

callbackVars == <<pass, starting, starts>>
vars == <<hostVars, callbackVars>>

PassSteps == {"check", "reconcile", "observe", "decide", "start"}

\* offered is the job as listed; seen is the job after the pass's own last
\* access; now is the time of the host's reply.
Pass == [at : PassSteps, now : 0..MaxTime, offered : StoredJob, seen : StoredJob]

TypeOK ==
    /\ HostTypeOK
    /\ pass \in [Registrations -> Pass \cup {None}]
    /\ starting \in 0..MaxStarting
    /\ starts \in SUBSET Authority

Init ==
    /\ HostInit
    /\ pass = [r \in Registrations |-> None]
    /\ starting = 0
    /\ starts = {}

At(r, step) == pass[r] # None /\ pass[r].at = step

Goto(r, step) == pass' = [pass EXCEPT ![r].at = step, ![r].seen = job']

End(r) == pass' = [pass EXCEPT ![r] = None]

-----------------------------------------------------------------------------
(* A pass.                                                                 *)

\* Only running and waiting jobs are looked at.
BeginPass(r) ==
    /\ pass[r] = None
    /\ pass' = [pass EXCEPT ![r] = [at |-> IF Executing(job) THEN "check" ELSE "start",
                                    now |-> now, offered |-> job, seen |-> job]]
    /\ UNCHANGED <<hostVars, starting, starts>>

\* The job is offered unless the route does not own its tool or its
\* specification cannot be had at the moment, which leave it as it is, or the
\* route serves another binding or the specification is unreadable, which
\* hand it to a human.  A refused hand-over ends the pass.
Check(r) ==
    /\ At(r, "check")
    /\ \/ UNCHANGED job /\ \E step \in {"reconcile", "start"} : Goto(r, step)
       \/ MarkNeedsAttention(job, job', now) /\ Goto(r, "start")
       \/ UNCHANGED job /\ job # pass[r].seen /\ End(r)
    /\ UNCHANGED <<now, worker, overruled, failures, starting, starts>>

\* The host replies with the offered attempts it is executing; the clock is
\* read after the reply.
Reconcile(r) ==
    /\ At(r, "reconcile")
    /\ LET lost == /\ worker # CurrentAuthority(pass[r].offered)
                   /\ pass[r].offered.lease_expires_at_ms < now
       IN  pass' = [pass EXCEPT ![r].at = IF lost THEN "observe" ELSE "start",
                                ![r].now = now, ![r].seen = job]
    /\ UNCHANGED <<hostVars, starting, starts>>

ObserveExpired(r) ==
    /\ At(r, "observe")
    /\ LeaseExpired(job, job', CurrentAuthority(pass[r].offered), pass[r].now)
    /\ Goto(r, "decide")
    /\ UNCHANGED <<now, worker, overruled, failures, starting, starts>>

\* A stale revision or a refused transition is passed over, a stale attempt
\* ends the pass.
ExpiryRefused(r) ==
    /\ At(r, "observe")
    /\ job # pass[r].offered
    /\ UNCHANGED <<hostVars, starting, starts>>
    /\ \/ Goto(r, "start")
       \/ End(r)

\* What a pass does about the loss it observed.
DecideLoss(offered, t) ==
    \/ /\ offered.restart_class = "NonResumable"
       /\ ClassifyWorkerLoss(job, job', t)
    \/ /\ offered.restart_class = "CheckpointResumable"
       /\ offered.checkpoint_ref = 0
       /\ MarkNeedsAttention(job, job', t)
    \/ /\ \/ offered.restart_class \in {"Adoptable", "Replayable"}
          \/ offered.restart_class = "CheckpointResumable" /\ offered.checkpoint_ref # 0
       /\ ScheduleRetry(job, job', t)

Decide(r) ==
    /\ At(r, "decide")
    /\ DecideLoss(pass[r].offered, pass[r].now)
    /\ Goto(r, "start")
    /\ UNCHANGED <<now, worker, overruled, failures, starting, starts>>

\* Another writer committed since the pass last accessed the job, and the
\* deciding call fails.
LoseRace(r) ==
    /\ At(r, "decide")
    /\ job # pass[r].seen
    /\ End(r)
    /\ UNCHANGED <<hostVars, starting, starts>>

\* start_due_detached_jobs: a job that is queued or due is given a start task,
\* unless the route does not own its tool.
StartDue(r) ==
    /\ At(r, "start")
    /\ \/ /\ \/ job.lifecycle_phase = "Queued"
             \/ job.lifecycle_phase = "RetryScheduled" /\ now >= job.retry_due_at_ms
          /\ starting < MaxStarting
          /\ starting' = starting + 1
       \/ UNCHANGED starting
    /\ End(r)
    /\ UNCHANGED <<hostVars, starts>>

\* The store fails, or the host does not answer, and the pass ends.
AbortPass(r) ==
    /\ pass[r] # None
    /\ failures < MaxFailures
    /\ failures' = failures + 1
    /\ End(r)
    /\ UNCHANGED <<job, now, worker, overruled, starting, starts>>

-----------------------------------------------------------------------------
(* Start tasks.                                                            *)

\* The tool call that submits a job, or repeats a submission, spawns a start;
\* so does jobs/retry, through start_due_detached_jobs, once its time came.
SpawnStart ==
    /\ job.lifecycle_phase # "Unsubmitted"
    /\ starting < MaxStarting
    /\ starting' = starting + 1
    /\ UNCHANGED <<hostVars, pass, starts>>

\* The task claims the job and sends the start to the host.  A job whose
\* binding or specification is gone is handed to a human; one that is not
\* runnable, or bound to another declaration, or whose claim loses, is left.
Start ==
    /\ starting > 0
    /\ starting' = starting - 1
    /\ \/ \E id \in AttemptIds :
             /\ ClaimNow(id)
             /\ starts' = starts \cup {CurrentAuthority(job')}
       \/ /\ job.lifecycle_phase \in {"Queued", "RetryScheduled"}
          /\ MarkNeedsAttention(job, job', now)
          /\ UNCHANGED <<overruled, starts>>
       \/ UNCHANGED <<job, overruled, starts>>
    /\ UNCHANGED <<now, worker, failures, pass>>

\* The host accepts the attempt; or the request or its answer is lost, and
\* the attempt is left for a later reconciliation; or the host rejects it.
StartAnswered ==
    /\ \E start \in starts :
          /\ starts' = starts \ {start}
          /\ \/ worker' = start /\ UNCHANGED job
             \/ UNCHANGED <<job, worker>>
             \/ MarkNeedsAttention(job, job', now) /\ UNCHANGED worker
    /\ UNCHANGED <<now, overruled, failures, pass, starting>>

\* The process of the passes dies; the callback host does not.
Crash ==
    /\ failures < MaxFailures
    /\ failures' = failures + 1
    /\ pass' = [r \in Registrations |-> None]
    /\ starting' = 0
    /\ starts' = {}
    /\ UNCHANGED <<job, now, worker, overruled>>

-----------------------------------------------------------------------------

\* The steps of a pass that was spawned.
PassNext(r) ==
    \/ Check(r)
    \/ Reconcile(r)
    \/ ObserveExpired(r)
    \/ ExpiryRefused(r)
    \/ Decide(r)
    \/ LoseRace(r)
    \/ StartDue(r)

Next ==
    \/ HostNext /\ UNCHANGED callbackVars
    \/ \E r \in Registrations : BeginPass(r) \/ PassNext(r) \/ AbortPass(r)
    \/ SpawnStart
    \/ Start
    \/ StartAnswered
    \/ Crash

\* Time passes, and what was spawned runs on.  Nothing obliges a host to
\* register again, so no pass is bound to begin.
Fairness ==
    /\ WF_vars(Tick /\ UNCHANGED callbackVars)
    /\ \A r \in Registrations : WF_vars(PassNext(r))
    /\ WF_vars(Start)

Spec == Init /\ [][Next]_vars /\ Fairness

=============================================================================
