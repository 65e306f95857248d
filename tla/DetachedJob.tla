---------------------------- MODULE DetachedJob ----------------------------
(***************************************************************************)
(* One detached job whose operations happen atomically: what the job       *)
(* service promises its callers.  JobService shows that its reads and      *)
(* compare-and-swaps, interleaved in any order, implement this module.     *)
(*                                                                         *)
(* The actors are worker hosts and reconcilers.  Each remembers the last   *)
(* write authority it was given and keeps using it however stale it gets.  *)
(* Callers pass their own clock readings, so the times of an operation are *)
(* arbitrary: nothing here assumes that clocks agree.                      *)
(***************************************************************************)
EXTENDS DetachedJobMachine

CONSTANTS
    Actors,         \* worker hosts and reconcilers
    MaxTime,        \* bound: the largest clock reading
    MaxCursor,      \* bound: the largest progress cursor
    MaxAttempts     \* bound: the number of claims

ASSUME BoundsAssumption ==
    /\ MaxTime \in Nat
    /\ MaxCursor \in Nat
    /\ MaxAttempts \in Nat

VARIABLES
    job,            \* the stored job
    held            \* the write authority each actor believes it has

vars == <<job, held>>

Times == 0..MaxTime

TypeOK ==
    /\ job \in StoredJob
    /\ held \in [Actors -> Authority \cup {None}]

Init ==
    /\ job = InitJob
    /\ held = [a \in Actors |-> None]

-----------------------------------------------------------------------------

Submit ==
    /\ \E class \in RestartClasses : SubmitQueued(job, job', class)
    /\ UNCHANGED held

\* The reply to a committed claim may be lost with the process that sent it:
\* the claim stands and its claimer does not hold the receipt.
Claim(a) ==
    \E id \in AttemptIds, t, l \in Times :
        /\ job.attempt_count < MaxAttempts
        /\ ClaimAttempt(job, job', id, t, l)
        /\ \/ held' = [held EXCEPT ![a] =
                          [attempt_id |-> id, fence |-> job.current_fence + 1]]
           \/ UNCHANGED held

\* A restarted host or a reconciler takes the authority the record names.
Rehydrate(a) ==
    /\ job.current_attempt_id # None
    /\ held' = [held EXCEPT ![a] = [attempt_id |-> job.current_attempt_id,
                                    fence |-> job.current_fence]]
    /\ UNCHANGED job

Renew(a) ==
    /\ held[a] # None
    /\ \E h, l \in Times : RenewLease(job, job', held[a], h, l)
    /\ UNCHANGED held

Progress(a) ==
    /\ held[a] # None
    /\ \E c \in 1..MaxCursor, t \in Times :
            ReportProgress(job, job', held[a], c, t)
    /\ UNCHANGED held

Checkpoint(a) ==
    /\ held[a] # None
    /\ \E t \in Times : RecordCheckpoint(job, job', held[a], t)
    /\ UNCHANGED held

Wait(a) ==
    /\ held[a] # None
    /\ \E t \in Times : WaitExternal(job, job', held[a], t)
    /\ UNCHANGED held

Resume(a) ==
    /\ held[a] # None
    /\ \E t \in Times : ResumeRunning(job, job', held[a], t)
    /\ UNCHANGED held

Notify(a) ==
    /\ held[a] # None
    /\ \E n \in NoteIds, k \in Keys, t \in Times :
            EmitNotification(job, job', held[a], n, k, t)
    /\ UNCHANGED held

Complete(a) ==
    /\ held[a] # None
    /\ \E t \in Times : CompleteAttempt(job, job', held[a], t)
    /\ UNCHANGED held

Fail(a) ==
    /\ held[a] # None
    /\ \E t \in Times : FailAttempt(job, job', held[a], t)
    /\ UNCHANGED held

AckCancel(a) ==
    /\ held[a] # None
    /\ \E t \in Times : AcknowledgeCancel(job, job', held[a], t)
    /\ UNCHANGED held

ObserveExpiry(a) ==
    /\ held[a] # None
    /\ \E t \in Times : LeaseExpired(job, job', held[a], t)
    /\ UNCHANGED held

Retry ==
    /\ \E due \in Times : ScheduleRetry(job, job', due)
    /\ UNCHANGED held

ClassifyLoss ==
    /\ \E t \in Times : ClassifyWorkerLoss(job, job', t)
    /\ UNCHANGED held

NeedsAttention ==
    /\ \E t \in Times : MarkNeedsAttention(job, job', t)
    /\ UNCHANGED held

Cancel ==
    /\ RequestCancel(job, job')
    /\ UNCHANGED held

AckDelivery ==
    /\ \E s \in 1..Len(job.outbox) : MarkDeliveryApplied(job, job', s)
    /\ UNCHANGED held

AddSubscription ==
    /\ \E s \in Subs : Subscribe(job, job', s)
    /\ UNCHANGED held

RemoveSubscription ==
    /\ \E s \in Subs : Unsubscribe(job, job', s)
    /\ UNCHANGED held

Next ==
    \/ Submit
    \/ \E a \in Actors :
          \/ Claim(a)
          \/ Rehydrate(a)
          \/ Renew(a)
          \/ Progress(a)
          \/ Checkpoint(a)
          \/ Wait(a)
          \/ Resume(a)
          \/ Notify(a)
          \/ Complete(a)
          \/ Fail(a)
          \/ AckCancel(a)
          \/ ObserveExpiry(a)
    \/ Retry
    \/ ClassifyLoss
    \/ NeedsAttention
    \/ Cancel
    \/ AckDelivery
    \/ AddSubscription
    \/ RemoveSubscription

Spec == Init /\ [][Next]_vars

-----------------------------------------------------------------------------
(* Safety.                                                                 *)

\* validate_stored_job: the outbox carries exactly the deliveries the machine
\* sequenced, in order and without gaps; notifications agree with the
\* machine's maps and applied flags; there is one terminal entry when and
\* only when the job is terminal.  compare_and_swap refuses any record that
\* breaks this, so an admitted operation that broke it could never commit.
OutboxMatchesAuthority ==
    /\ Len(job.outbox) = job.delivery_sequence
    /\ \A i \in 1..Len(job.outbox) :
          LET e == job.outbox[i] IN
          /\ e.sequence = i
          /\ e.key # None =>
                /\ job.notification_id_by_key[e.key] = e.delivery_id
                /\ e.delivery_id \in NoteIds
                /\ job.notification_sequences[e.delivery_id] = i
                /\ e.applied <=> e.delivery_id \in job.notification_applied
          /\ e.key = None =>
                /\ job.terminal_kind # None
                /\ e.delivery_id = TerminalDelivery
                /\ job.terminal_delivery_sequence = i
                /\ e.applied <=> job.terminal_delivery_applied
    /\ job.terminal_kind = job.terminal_result
    /\ job.terminal_kind # None <=>
          \E i \in 1..Len(job.outbox) : job.outbox[i].key = None

\* A terminal job has said everything it will say: the terminal delivery is
\* sequenced after every notification and no operation appends behind it,
\* whatever a late worker, canceller or reconciler still tries.
TerminalDeliveryIsLast ==
    /\ Terminal(job) <=> job.terminal_kind # None
    /\ Terminal(job) => /\ job.terminal_delivery_sequence = job.delivery_sequence
                        /\ job.lifecycle_phase = job.terminal_kind
    /\ \A n \in NotificationIds(job) :
          job.terminal_kind # None =>
              job.notification_sequences[n] < job.terminal_delivery_sequence

\* Once a later attempt is claimed, an older worker commits nothing: the
\* attempts that wrote the outbox follow one another in fence order, and no
\* checkpoint or entry comes from a fence that was never minted.
FencedAuthorship ==
    /\ job.current_fence = job.attempt_count
    /\ job.checkpoint_ref <= job.current_fence
    /\ \A i, k \in 1..Len(job.outbox) :
          /\ job.outbox[i].by <= job.current_fence
          /\ i < k /\ job.outbox[k].by # 0 => job.outbox[i].by <= job.outbox[k].by

\* A notification key reaches the outbox once, whichever attempts replay it.
NotificationOncePerKey ==
    \A i, k \in 1..Len(job.outbox) :
        /\ job.outbox[i].key = job.outbox[k].key
        /\ i # k
        => FALSE

\* A non-resumable job never runs twice, and a checkpoint-resumable job never
\* runs again without a checkpoint to resume from.
RestartClassHonoured ==
    /\ job.restart_class = "NonResumable" => job.attempt_count <= 1
    /\ job.restart_class = "CheckpointResumable" /\ job.attempt_count > 1
          => job.checkpoint_ref # 0

\* Lease bookkeeping behind the fences: an executing record carries a live
\* lease, a lost one an expired lease, and a retry falls after the lease.
LeaseDiscipline ==
    /\ Executing(job) => /\ ~job.lease_expired
                         /\ job.heartbeat_at_ms < job.lease_expires_at_ms
                         /\ job.current_fence > 0
    /\ job.lifecycle_phase \in {"LossObserved", "RetryScheduled"} =>
          job.lease_expired /\ job.current_fence > 0
    /\ job.lifecycle_phase = "RetryScheduled" =>
          job.retry_due_at_ms > job.lease_expires_at_ms

-----------------------------------------------------------------------------
(* Action properties.                                                      *)

\* Deliveries are facts: a committed entry keeps its sequence, its payload
\* and the targets it was addressed to, whoever subscribes later, and an
\* acknowledgement is never taken back.
OutboxOnlyGrows ==
    [][ /\ Len(job.outbox) <= Len(job'.outbox)
        /\ \A i \in 1..Len(job.outbox) :
              \/ job'.outbox[i] = job.outbox[i]
              \/ job'.outbox[i] = [job.outbox[i] EXCEPT !.applied = TRUE] ]_job

\* A terminal outcome is final.
TerminalOutcomeIsFinal ==
    [][ Terminal(job) =>
          /\ job'.lifecycle_phase = job.lifecycle_phase
          /\ job'.terminal_result = job.terminal_result
          /\ Len(job'.outbox) = Len(job.outbox)
          /\ job'.checkpoint_ref = job.checkpoint_ref
          /\ job'.current_fence = job.current_fence ]_job

\* A new attempt starts, by its claimer's clock, strictly after the lease of
\* the attempt it replaces: two leases never cover the same instant.
LeasesNeverOverlap ==
    [][ job'.current_fence # job.current_fence =>
          /\ job'.current_fence = job.current_fence + 1
          /\ job.current_fence > 0 => job'.heartbeat_at_ms > job.lease_expires_at_ms ]_job

\* Within one attempt an accepted cancellation request cannot be overtaken by
\* the attempt's own outcome.
CancelBeatsOutcome ==
    [][ job.cancel_requested /\ job'.current_fence = job.current_fence =>
          /\ job'.lifecycle_phase \notin {"Succeeded", "Failed"}
          /\ job'.cancel_requested ]_job

=============================================================================
