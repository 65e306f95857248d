------------------------- MODULE DetachedJobMachine -------------------------
(***************************************************************************)
(* The durable record of one detached job and the operations on it.        *)
(*                                                                         *)
(* A stored job is the generated DetachedJobMachine state together with    *)
(* the projections the job service commits with it in the same             *)
(* compare-and-swap: the outbox, the subscriptions and the terminal        *)
(* result.  Every operation is a relation Op(j, jn, ...) between the       *)
(* record the service read (j) and the record it asks the store to write   *)
(* (jn): the conjunction of the machine's guard, its update, and the       *)
(* projection.  A call that no relation admits is an error to its caller   *)
(* and writes nothing.  The module has no variables: DetachedJob takes the *)
(* relations as atomic steps, JobService as read / compare-and-swap pairs. *)
(*                                                                         *)
(* Data: times are small numbers and 0 stands for an absent lease or retry *)
(* deadline (a present one is larger than some other time, so never 0).    *)
(* What an attempt writes (a checkpoint, a notification body, a result) is *)
(* represented by the fence of the attempt that wrote it; 0 is "none" for  *)
(* a checkpoint and "not written by an attempt" for an outbox entry.       *)
(***************************************************************************)
EXTENDS Integers, Sequences

CONSTANTS
    AttemptIds,     \* identities AttemptId::generated() may return
    NoteIds,        \* notification ids; "terminal" may be one of them
    Keys,           \* notification idempotency keys
    Subs,           \* subscriptions (an id with its target)
    None            \* an absent value

ASSUME NoneAssumption ==
    /\ None \notin AttemptIds
    /\ None \notin NoteIds
    /\ None \notin Keys

RestartClasses == {"Adoptable", "CheckpointResumable", "Replayable", "NonResumable"}

TerminalKinds == {"Succeeded", "Failed", "Cancelled", "WorkerLost", "NeedsAttention"}

Phases == {"Unsubmitted", "Queued", "Running", "WaitingExternal",
           "LossObserved", "RetryScheduled"} \cup TerminalKinds

ASSUME NoneIsNoKind == None \notin TerminalKinds

\* The authority a claim receipt carries: every worker call presents one.
Authority == [attempt_id : AttemptIds, fence : Nat \ {0}]

\* The delivery id of the terminal outbox entry.
TerminalDelivery == "terminal"

\* A committed outbox entry.  A notification carries its idempotency key,
\* the terminal entry carries None.
OutboxEntry ==
    [delivery_id : NoteIds \cup {TerminalDelivery},
     sequence    : Nat \ {0},
     key         : Keys \cup {None},
     by          : Nat,
     targets     : SUBSET Subs,
     applied     : BOOLEAN]

StoredJob ==
    [lifecycle_phase            : Phases,
     restart_class              : RestartClasses,
     attempt_count              : Nat,
     current_attempt_id         : AttemptIds \cup {None},
     current_fence              : Nat,
     lease_expires_at_ms        : Nat,
     heartbeat_at_ms            : Nat,
     checkpoint_ref             : Nat,
     progress_cursor            : Nat,
     lease_expired              : BOOLEAN,
     retry_due_at_ms            : Nat,
     cancel_requested           : BOOLEAN,
     delivery_sequence          : Nat,
     notification_id_by_key     : [Keys -> NoteIds \cup {None}],
     notification_sequences     : [NoteIds -> Nat],
     notification_applied       : SUBSET NoteIds,
     terminal_kind              : TerminalKinds \cup {None},
     terminal_delivery_sequence : Nat,
     terminal_delivery_applied  : BOOLEAN,
     terminal_result            : TerminalKinds \cup {None},
     subscriptions              : SUBSET Subs,
     outbox                     : Seq(OutboxEntry)]

InitJob ==
    [lifecycle_phase            |-> "Unsubmitted",
     restart_class              |-> "NonResumable",
     attempt_count              |-> 0,
     current_attempt_id         |-> None,
     current_fence              |-> 0,
     lease_expires_at_ms        |-> 0,
     heartbeat_at_ms            |-> 0,
     checkpoint_ref             |-> 0,
     progress_cursor            |-> 0,
     lease_expired              |-> FALSE,
     retry_due_at_ms            |-> 0,
     cancel_requested           |-> FALSE,
     delivery_sequence          |-> 0,
     notification_id_by_key     |-> [k \in Keys |-> None],
     notification_sequences     |-> [n \in NoteIds |-> 0],
     notification_applied       |-> {},
     terminal_kind              |-> None,
     terminal_delivery_sequence |-> 0,
     terminal_delivery_applied  |-> FALSE,
     terminal_result            |-> None,
     subscriptions              |-> {},
     outbox                     |-> << >>]

-----------------------------------------------------------------------------
(* Guards shared by the operations.                                        *)

Terminal(j) == j.lifecycle_phase \in TerminalKinds

Executing(j) == j.lifecycle_phase \in {"Running", "WaitingExternal"}

\* Mutant: the attempt and its fence are not compared.
CurrentWriterUnchecked(j, w) == TRUE

\* ensure_current_writer, repeated by every guard of the machine itself.
CurrentWriter(j, w) ==
    /\ j.current_attempt_id = w.attempt_id
    /\ j.current_fence = w.fence

\* The caller holds the current attempt and its lease covers time t.
LiveWriter(j, w, t) ==
    /\ Executing(j)
    /\ CurrentWriter(j, w)
    /\ ~j.lease_expired
    /\ t <= j.lease_expires_at_ms

\* The ids and keys of committed notifications.
NotificationIds(j) == {n \in NoteIds : j.notification_sequences[n] # 0}
NotificationKeys(j) == {k \in Keys : j.notification_id_by_key[k] # None}

-----------------------------------------------------------------------------
(* Submission, claims and leases.                                          *)

SubmitQueued(j, jn, class) ==
    /\ j.lifecycle_phase = "Unsubmitted"
    /\ jn = [j EXCEPT !.lifecycle_phase = "Queued",
                      !.restart_class = class]

\* Attempt id is claimed at time t with a lease until l; the claim mints the
\* next fence and clears a cancellation request left on the record.
Claimed(j, id, t, l) ==
    [j EXCEPT !.lifecycle_phase = "Running",
              !.attempt_count = j.attempt_count + 1,
              !.current_fence = j.current_fence + 1,
              !.current_attempt_id = id,
              !.lease_expires_at_ms = l,
              !.heartbeat_at_ms = t,
              !.lease_expired = FALSE,
              !.retry_due_at_ms = 0,
              !.cancel_requested = FALSE]

\* Mutant: a scheduled retry is claimed before it is due.
ClaimAttemptEarly(j, jn, id, t, l) ==
    /\ j.lifecycle_phase \in {"Queued", "RetryScheduled"}
    /\ id # j.current_attempt_id
    /\ l > t
    /\ jn = Claimed(j, id, t, l)

ClaimAttempt(j, jn, id, t, l) ==
    /\ \/ j.lifecycle_phase = "Queued"
       \/ /\ j.lifecycle_phase = "RetryScheduled"
          /\ t >= j.retry_due_at_ms
          /\ id # j.current_attempt_id
    /\ l > t
    /\ jn = Claimed(j, id, t, l)

\* A renewal needs an unexpired record, not an unexpired clock: until the
\* loss is recorded the holder may renew at any later time.
RenewLease(j, jn, w, h, l) ==
    /\ Executing(j)
    /\ CurrentWriter(j, w)
    /\ ~j.lease_expired
    /\ h > j.heartbeat_at_ms
    /\ l > h
    /\ l > j.lease_expires_at_ms
    /\ jn = [j EXCEPT !.heartbeat_at_ms = h, !.lease_expires_at_ms = l]

LeaseExpired(j, jn, w, t) ==
    /\ Executing(j)
    /\ CurrentWriter(j, w)
    /\ ~j.lease_expired
    /\ t > j.lease_expires_at_ms
    /\ jn = [j EXCEPT !.lifecycle_phase = "LossObserved",
                      !.lease_expired = TRUE]

\* Mutant: any lost job is retried, whatever its restart class.
ScheduleRetryAnyClass(j, jn, due) ==
    /\ j.lifecycle_phase = "LossObserved"
    /\ j.lease_expired
    /\ due > j.lease_expires_at_ms
    /\ jn = [j EXCEPT !.lifecycle_phase = "RetryScheduled",
                      !.retry_due_at_ms = due]

ScheduleRetry(j, jn, due) ==
    /\ j.lifecycle_phase = "LossObserved"
    /\ j.lease_expired
    /\ j.restart_class # "NonResumable"
    /\ j.restart_class = "CheckpointResumable" => j.checkpoint_ref # 0
    /\ due > j.lease_expires_at_ms
    /\ jn = [j EXCEPT !.lifecycle_phase = "RetryScheduled",
                      !.retry_due_at_ms = due]

-----------------------------------------------------------------------------
(* What a running attempt reports.                                         *)

ReportProgress(j, jn, w, cursor, t) ==
    /\ LiveWriter(j, w, t)
    /\ cursor > j.progress_cursor
    /\ jn = [j EXCEPT !.progress_cursor = cursor]

RecordCheckpoint(j, jn, w, t) ==
    /\ LiveWriter(j, w, t)
    /\ jn = [j EXCEPT !.checkpoint_ref = w.fence]

WaitExternal(j, jn, w, t) ==
    /\ LiveWriter(j, w, t)
    /\ j.lifecycle_phase = "Running"
    /\ jn = [j EXCEPT !.lifecycle_phase = "WaitingExternal"]

ResumeRunning(j, jn, w, t) ==
    /\ LiveWriter(j, w, t)
    /\ j.lifecycle_phase = "WaitingExternal"
    /\ jn = [j EXCEPT !.lifecycle_phase = "Running"]

\* Mutant: the entry is numbered before the sequence advances.
NextEntryUnadvanced(j, id, key, by) ==
    [delivery_id |-> id,
     sequence    |-> j.delivery_sequence,
     key         |-> key,
     by          |-> by,
     targets     |-> j.subscriptions,
     applied     |-> FALSE]

\* The outbox entry of the next delivery sequence, addressed to whoever is
\* subscribed now.
NextEntry(j, id, key, by) ==
    [delivery_id |-> id,
     sequence    |-> j.delivery_sequence + 1,
     key         |-> key,
     by          |-> by,
     targets     |-> j.subscriptions,
     applied     |-> FALSE]

\* Mutant: only the notification id is looked up, not the key.
EmitNotificationById(j, jn, w, n, key, t) ==
    /\ LiveWriter(j, w, t)
    /\ n \notin NotificationIds(j)
    /\ jn = [j EXCEPT !.delivery_sequence = j.delivery_sequence + 1,
                      !.notification_id_by_key[key] = n,
                      !.notification_sequences[n] = j.delivery_sequence + 1,
                      !.outbox = Append(j.outbox, NextEntry(j, n, key, w.fence))]

\* A new key with a new id commits an entry; a key already committed is
\* suppressed and the record is left as it is.
EmitNotification(j, jn, w, n, key, t) ==
    /\ LiveWriter(j, w, t)
    /\ \/ /\ n \notin NotificationIds(j)
          /\ key \notin NotificationKeys(j)
          /\ jn = [j EXCEPT !.delivery_sequence = j.delivery_sequence + 1,
                            !.notification_id_by_key[key] = n,
                            !.notification_sequences[n] = j.delivery_sequence + 1,
                            !.outbox = Append(j.outbox, NextEntry(j, n, key, w.fence))]
       \/ /\ key \in NotificationKeys(j)
          /\ jn = j

-----------------------------------------------------------------------------
(* Terminal outcomes.  Each commits the phase, the typed result and the    *)
(* terminal outbox entry together.                                         *)

Terminalized(j, kind, by) ==
    [j EXCEPT !.lifecycle_phase = kind,
              !.terminal_kind = kind,
              !.terminal_delivery_sequence = j.delivery_sequence + 1,
              !.delivery_sequence = j.delivery_sequence + 1,
              !.terminal_result = kind,
              !.outbox = Append(j.outbox, NextEntry(j, TerminalDelivery, None, by))]

AcknowledgeCancel(j, jn, w, t) ==
    /\ LiveWriter(j, w, t)
    /\ j.cancel_requested
    /\ jn = Terminalized(j, "Cancelled", w.fence)

\* Mutant: the worker's outcome is committed over a requested cancellation.
FinishAttemptOverCancel(j, jn, w, kind, t) ==
    /\ LiveWriter(j, w, t)
    /\ jn = Terminalized(j, kind, w.fence)

\* complete_attempt and fail_attempt: a requested cancellation turns the
\* worker's own outcome into the acknowledgement of the cancellation.
FinishAttempt(j, jn, w, kind, t) ==
    \/ /\ j.cancel_requested
       /\ AcknowledgeCancel(j, jn, w, t)
    \/ /\ LiveWriter(j, w, t)
       /\ ~j.cancel_requested
       /\ jn = Terminalized(j, kind, w.fence)

CompleteAttempt(j, jn, w, t) == FinishAttempt(j, jn, w, "Succeeded", t)

FailAttempt(j, jn, w, t) == FinishAttempt(j, jn, w, "Failed", t)

\* Mutant: a job that is not executing is cancelled, terminal or not.
RequestCancelAnyIdle(j, jn) ==
    \/ /\ Executing(j)
       /\ jn = [j EXCEPT !.cancel_requested = TRUE]
    \/ /\ ~Executing(j)
       /\ j.lifecycle_phase # "Unsubmitted"
       /\ jn = [Terminalized(j, "Cancelled", 0) EXCEPT !.cancel_requested = TRUE]

\* A live attempt is asked to stop; a job with no live attempt is cancelled
\* on the spot; a terminal job is returned as it is.
RequestCancel(j, jn) ==
    \/ /\ Executing(j)
       /\ jn = [j EXCEPT !.cancel_requested = TRUE]
    \/ /\ j.lifecycle_phase \in {"Queued", "RetryScheduled", "LossObserved"}
       /\ jn = [Terminalized(j, "Cancelled", 0) EXCEPT !.cancel_requested = TRUE]
    \/ /\ j.terminal_result # None
       /\ jn = j

ClassifyWorkerLoss(j, jn, t) ==
    /\ j.lifecycle_phase = "LossObserved"
    /\ j.lease_expired
    /\ j.restart_class = "NonResumable"
    /\ t > j.lease_expires_at_ms
    /\ jn = Terminalized(j, "WorkerLost", 0)

MarkNeedsAttention(j, jn, t) ==
    /\ j.lifecycle_phase \in {"Queued", "Running", "WaitingExternal",
                              "LossObserved", "RetryScheduled"}
    /\ t > 0
    /\ jn = Terminalized(j, "NeedsAttention", 0)

-----------------------------------------------------------------------------
(* Subscriptions and the acknowledgement of deliveries.                    *)

\* The position of the outbox entry that carries delivery sequence s.
EntryAt(j, s) == CHOOSE i \in 1..Len(j.outbox) : j.outbox[i].sequence = s

\* Mutant: the terminal delivery is told from a notification by its id.
TerminalDeliveryAppliedById(j, id, s) ==
    /\ Terminal(j)
    /\ id = TerminalDelivery

\* The machine's answer to an applied delivery id with sequence s.  Terminal
\* and notification deliveries are told apart by their sequence; one already
\* applied is observed again without a change.
TerminalDeliveryApplied(j, id, s) ==
    /\ Terminal(j)
    /\ id = TerminalDelivery
    /\ s = j.terminal_delivery_sequence

NotificationDeliveryApplied(j, id, s) ==
    /\ j.lifecycle_phase \notin {"Unsubmitted", "Queued"}
    /\ id \in NotificationIds(j)
    /\ s = j.notification_sequences[id]

\* The projector reports delivery sequence s as handed to the runtime inbox.
MarkDeliveryApplied(j, jn, s) ==
    /\ \E i \in 1..Len(j.outbox) : j.outbox[i].sequence = s
    /\ LET id == j.outbox[EntryAt(j, s)].delivery_id
           marked == [j.outbox EXCEPT ![EntryAt(j, s)].applied = TRUE]
       IN  \/ /\ TerminalDeliveryApplied(j, id, s)
              /\ jn = [j EXCEPT !.terminal_delivery_applied = TRUE,
                                !.outbox = marked]
           \/ /\ NotificationDeliveryApplied(j, id, s)
              /\ jn = [j EXCEPT !.notification_applied = @ \cup {id},
                                !.outbox = marked]

\* Subscribing is admitted after terminality too; committed entries keep the
\* targets they were committed with.
Subscribe(j, jn, s) ==
    /\ j.lifecycle_phase # "Unsubmitted"
    /\ jn = [j EXCEPT !.subscriptions = @ \cup {s}]

Unsubscribe(j, jn, s) ==
    /\ j.lifecycle_phase # "Unsubmitted"
    /\ jn = [j EXCEPT !.subscriptions = @ \ {s}]

=============================================================================
