--------------------------- MODULE ShellRecovery ---------------------------
(***************************************************************************)
(* The recovery pass of the shell job manager, reconcile_recovered_jobs.   *)
(* The pass runs under the manager's recovery lock before every shell job  *)
(* operation.  It lists the jobs, observes the leases that ran out, lists  *)
(* again, decides every observed loss, lists again, and restarts what is   *)
(* due.  Any failing call ends the pass; a later one starts over.          *)
(***************************************************************************)
EXTENDS JobHost

VARIABLE
    pass            \* the running pass, or None

vars == <<hostVars, pass>>

PassSteps == {"observe", "relist", "decide", "relist_due", "restart"}

\* seen is the listed job, now the time the pass started.
Pass == [at : PassSteps, now : 0..MaxTime, seen : StoredJob]

TypeOK ==
    /\ HostTypeOK
    /\ pass \in Pass \cup {None}

Init ==
    /\ HostInit
    /\ pass = None

At(step) == pass # None /\ pass.at = step

Goto(step) == pass' = [pass EXCEPT !.at = step]

-----------------------------------------------------------------------------

BeginPass ==
    /\ pass = None
    /\ pass' = [at |-> "observe", now |-> now, seen |-> job]
    /\ UNCHANGED hostVars

\* Mutant: a lapsed lease is looked for in waiting jobs only.
LapsedWaiting(j) ==
    /\ j.lifecycle_phase = "WaitingExternal"
    /\ pass.now > j.lease_expires_at_ms

\* A listed running job whose lease had run out when the pass started.
Lapsed(j) ==
    /\ j.lifecycle_phase = "Running"
    /\ pass.now > j.lease_expires_at_ms

ObserveExpired ==
    /\ At("observe")
    /\ \/ /\ Lapsed(pass.seen)
          /\ LeaseExpired(job, job', CurrentAuthority(pass.seen), pass.now)
       \/ /\ ~Lapsed(pass.seen)
          /\ UNCHANGED job
    /\ Goto("relist")
    /\ UNCHANGED <<now, worker, overruled, failures>>

Relist ==
    /\ \/ At("relist") /\ pass' = [pass EXCEPT !.at = "decide", !.seen = job]
       \/ At("relist_due") /\ pass' = [pass EXCEPT !.at = "restart", !.seen = job]
    /\ UNCHANGED hostVars

\* Mutant: the cancellation request is not looked at.
DecideLossUncancelled(seen) ==
    \/ /\ \/ seen.restart_class = "Replayable"
          \/ seen.restart_class = "CheckpointResumable" /\ seen.checkpoint_ref # 0
       /\ ScheduleRetry(job, job', pass.now)
    \/ /\ \/ seen.restart_class = "Adoptable"
          \/ seen.restart_class = "CheckpointResumable" /\ seen.checkpoint_ref = 0
       /\ MarkNeedsAttention(job, job', pass.now)
    \/ /\ seen.restart_class = "NonResumable"
       /\ ClassifyWorkerLoss(job, job', pass.now)

\* Mutant: every checkpoint-resumable loss is given up.
DecideLossNoResume(seen) ==
    \/ /\ seen.cancel_requested
       /\ RequestCancel(job, job')
    \/ /\ ~seen.cancel_requested
       /\ seen.restart_class = "Replayable"
       /\ ScheduleRetry(job, job', pass.now)
    \/ /\ ~seen.cancel_requested
       /\ seen.restart_class \in {"Adoptable", "CheckpointResumable"}
       /\ MarkNeedsAttention(job, job', pass.now)
    \/ /\ ~seen.cancel_requested
       /\ seen.restart_class = "NonResumable"
       /\ ClassifyWorkerLoss(job, job', pass.now)

\* What the pass does about an observed loss.
DecideLoss(seen) ==
    \/ /\ seen.cancel_requested
       /\ RequestCancel(job, job')
    \/ /\ ~seen.cancel_requested
       /\ \/ seen.restart_class = "Replayable"
          \/ seen.restart_class = "CheckpointResumable" /\ seen.checkpoint_ref # 0
       /\ ScheduleRetry(job, job', pass.now)
    \/ /\ ~seen.cancel_requested
       /\ \/ seen.restart_class = "Adoptable"
          \/ seen.restart_class = "CheckpointResumable" /\ seen.checkpoint_ref = 0
       /\ MarkNeedsAttention(job, job', pass.now)
    \/ /\ ~seen.cancel_requested
       /\ seen.restart_class = "NonResumable"
       /\ ClassifyWorkerLoss(job, job', pass.now)

Decide ==
    /\ At("decide")
    /\ \/ /\ pass.seen.lifecycle_phase = "LossObserved"
          /\ DecideLoss(pass.seen)
       \/ /\ pass.seen.lifecycle_phase # "LossObserved"
          /\ UNCHANGED job
    /\ Goto("relist_due")
    /\ UNCHANGED <<now, worker, overruled, failures>>

\* Queued or due work of a class that may be started again.
Due(j) ==
    /\ \/ j.lifecycle_phase = "Queued"
       \/ j.lifecycle_phase = "RetryScheduled" /\ pass.now >= j.retry_due_at_ms
    /\ j.restart_class \in {"Replayable", "CheckpointResumable"}

\* The manager starts a due job it is not already executing.  A job that is
\* not a monitor is passed over.
Restart ==
    /\ At("restart")
    /\ \/ /\ Due(pass.seen)
          /\ worker = None
          /\ \E id \in AttemptIds :
                /\ ClaimNow(id)
                /\ worker' = CurrentAuthority(job')
       \/ UNCHANGED <<job, worker, overruled>>
    /\ pass' = None
    /\ UNCHANGED <<now, failures>>

\* Another writer committed since the listing: the machine may refuse the
\* call of the pass, or its swap may lose, and the pass ends with an error.
LoseRace ==
    /\ pass # None
    /\ pass.at \in {"observe", "decide", "restart"}
    /\ job # pass.seen
    /\ pass' = None
    /\ UNCHANGED hostVars

\* The store fails and the pass ends with an error.
AbortPass ==
    /\ pass # None
    /\ failures < MaxFailures
    /\ failures' = failures + 1
    /\ pass' = None
    /\ UNCHANGED <<job, now, worker, overruled>>

\* The tool call that submitted the job claims its first attempt; it may die
\* with the claim committed.
Launch ==
    /\ job.lifecycle_phase = "Queued"
    /\ worker = None
    /\ \E id \in AttemptIds :
          /\ ClaimNow(id)
          /\ worker' \in {CurrentAuthority(job'), None}
    /\ UNCHANGED <<now, failures, pass>>

\* The process that hosts the manager and its workers dies.
Crash ==
    /\ failures < MaxFailures
    /\ failures' = failures + 1
    /\ worker' = None
    /\ pass' = None
    /\ UNCHANGED <<job, now, overruled>>

PassNext ==
    \/ BeginPass
    \/ ObserveExpired
    \/ Relist
    \/ Decide
    \/ Restart
    \/ LoseRace

Next ==
    \/ HostNext /\ UNCHANGED pass
    \/ PassNext
    \/ AbortPass
    \/ Launch
    \/ Crash

\* Time passes, and the manager keeps being used: every shell job operation
\* runs the pass first.
Fairness == WF_vars(Tick /\ UNCHANGED pass) /\ WF_vars(PassNext)

Spec == Init /\ [][Next]_vars /\ Fairness

=============================================================================
