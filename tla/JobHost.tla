------------------------------ MODULE JobHost ------------------------------
(***************************************************************************)
(* What a recovery pass works against: one stored job, the worker that may *)
(* be executing its current attempt, a client that may cancel it, an       *)
(* operator who may retry it, and the clock.  ShellRecovery and            *)
(* CallbackRecovery extend this module with the two recovery passes of the *)
(* repository and are held to the contract stated at the end.              *)
(*                                                                         *)
(* Calls to the job service are atomic here (JobService shows why they may *)
(* be).  A call of a pass fails when another writer got in between its     *)
(* read and its swap, or when the store or the process fails; failures of  *)
(* the second kind are counted and bounded.                                *)
(***************************************************************************)
EXTENDS DetachedJobMachine

CONSTANTS
    LeaseTime,      \* the lease a claim or a renewal asks for
    MaxTime,        \* bound: the clock stops here
    MaxAttempts,    \* bound: the number of claims
    MaxFailures     \* bound: store errors and process crashes

ASSUME HostAssumption ==
    /\ LeaseTime \in Nat \ {0}
    /\ MaxTime \in Nat
    /\ MaxAttempts \in Nat
    /\ MaxFailures \in Nat

VARIABLES
    job,            \* the stored job
    now,            \* the wall clock
    worker,         \* the attempt a live worker is executing, or None
    overruled,      \* history: the operator scheduled the retry that waits
    failures        \* store errors and crashes so far

hostVars == <<job, now, worker, overruled, failures>>

HostTypeOK ==
    /\ job \in StoredJob
    /\ now \in 0..MaxTime
    /\ worker \in Authority \cup {None}
    /\ overruled \in BOOLEAN
    /\ failures \in 0..MaxFailures

\* The clock of a running system is past the epoch.
HostInit ==
    /\ job = InitJob
    /\ now = 1
    /\ worker = None
    /\ overruled = FALSE
    /\ failures = 0

Tick ==
    /\ now < MaxTime
    /\ now' = now + 1
    /\ UNCHANGED <<job, worker, overruled, failures>>

\* Leases end before the clock stops, so that every one of them can expire.
LeaseFits == now + LeaseTime < MaxTime

CurrentAuthority(j) ==
    [attempt_id |-> j.current_attempt_id, fence |-> j.current_fence]

-----------------------------------------------------------------------------
(* The client and the operator.                                            *)

Submit ==
    /\ \E class \in RestartClasses : SubmitQueued(job, job', class)
    /\ UNCHANGED <<now, worker, overruled, failures>>

Cancel ==
    /\ RequestCancel(job, job')
    /\ UNCHANGED <<now, worker, overruled, failures>>

\* jobs/retry: the operator schedules the retry of an observed loss himself,
\* at a time of his choice, whatever was requested of the job before.
OperatorRetry ==
    /\ \E due \in {now, MaxTime} : ScheduleRetry(job, job', due)
    /\ overruled' = TRUE
    /\ UNCHANGED <<now, worker, failures>>

-----------------------------------------------------------------------------
(* The worker.                                                             *)

\* The heartbeat: the lease is pushed out from the time of the heartbeat.
Heartbeat ==
    /\ worker # None
    /\ LeaseFits
    /\ RenewLease(job, job', worker, now, now + LeaseTime)
    /\ UNCHANGED <<now, worker, overruled, failures>>

Checkpoint ==
    /\ worker # None
    /\ RecordCheckpoint(job, job', worker, now)
    /\ UNCHANGED <<now, worker, overruled, failures>>

\* The worker settles its attempt and is gone.
Settle ==
    /\ worker # None
    /\ \/ CompleteAttempt(job, job', worker, now)
       \/ FailAttempt(job, job', worker, now)
       \/ AcknowledgeCancel(job, job', worker, now)
    /\ worker' = None
    /\ UNCHANGED <<now, overruled, failures>>

\* The worker is gone without settling: it died, or its settlement failed.
WorkerDies ==
    /\ worker # None
    /\ worker' = None
    /\ UNCHANGED <<job, now, overruled, failures>>

\* Attempt id is claimed now: no retry waits any more.
ClaimNow(id) ==
    /\ LeaseFits
    /\ job.attempt_count < MaxAttempts
    /\ ClaimAttempt(job, job', id, now, now + LeaseTime)
    /\ overruled' = FALSE

HostNext ==
    \/ Tick
    \/ Submit
    \/ Cancel
    \/ OperatorRetry
    \/ Heartbeat
    \/ Checkpoint
    \/ Settle
    \/ WorkerDies

-----------------------------------------------------------------------------
(* The recovery contract.                                                  *)

\* "A cancellation accepted before the worker lease expired remains the
\* durable lifecycle intent": no step of the client, the worker or the
\* recovery pass takes an accepted cancellation request back.  Only a claim of
\* a retry that the operator scheduled himself does.
CancellationIntentSurvives ==
    [][ job.cancel_requested => job'.cancel_requested \/ overruled ]_job

\* A checkpoint-resumable job whose loss was observed is given up for want of
\* a checkpoint only if it has none.
CheckpointNotOverlooked ==
    [][ /\ job.restart_class = "CheckpointResumable"
        /\ job.lifecycle_phase = "LossObserved"
        /\ job'.lifecycle_phase = "NeedsAttention"
        => job.checkpoint_ref = 0 ]_job

\* The loss of a worker does not go undecided, whatever the restart class: the
\* job ends or its retry is scheduled.
LostWorkIsDecided ==
    (Executing(job) /\ worker = None)
        ~> (Terminal(job) \/ job.lifecycle_phase = "RetryScheduled")

=============================================================================
