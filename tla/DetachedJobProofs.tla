------------------------- MODULE DetachedJobProofs -------------------------
(***************************************************************************)
(* One detached job: its record, its outbox, what its steps may not do,    *)
(* the service that implements it, and the shell manager's recovery of it, *)
(* in five sections.                                                       *)
(*                                                                         *)
(* The record: types, attempts and leases. The                             *)
(* inductive invariant is TypeOK with ControlInv. TypeOK alone is not      *)
(* inductive: Rehydrate copies the attempt and fence of the record into    *)
(* an authority, whose fence is positive, so the record must not name an   *)
(* attempt without a fence. RestartClassHonoured needs the accounting of   *)
(* AttemptAccounting: a queued job has no attempt behind it, and a         *)
(* scheduled retry has been admitted for its class.                        *)
(*                                                                         *)
(* The proof that a step keeps the invariant has one case per action; the  *)
(* cases that leave the attempt fields alone are one lemma, ControlKept.   *)
(***************************************************************************)
EXTENDS JobService, TLAPS

-----------------------------------------------------------------------------
(* Types.                                                                  *)

\* The record never names an attempt without a fence.
AttemptHasFence == job.current_attempt_id # None => job.current_fence # 0

\* Attempts are counted by their fences, start with the first claim, and a
\* retry is scheduled only for a class that allows one.
AttemptAccounting ==
    /\ AttemptHasFence
    /\ job.current_fence = job.attempt_count
    /\ job.checkpoint_ref <= job.current_fence
    /\ job.lifecycle_phase \in {"Unsubmitted", "Queued"} => job.attempt_count = 0
    /\ job.lifecycle_phase = "RetryScheduled" =>
          /\ job.restart_class # "NonResumable"
          /\ job.restart_class = "CheckpointResumable" => job.checkpoint_ref # 0

ControlInv == AttemptAccounting /\ RestartClassHonoured /\ LeaseDiscipline

\* The fields of a record that only claims, renewals, checkpoints and loss
\* observations write.
AttemptFieldsKept(j, jn) ==
    /\ jn.restart_class = j.restart_class
    /\ jn.attempt_count = j.attempt_count
    /\ jn.current_attempt_id = j.current_attempt_id
    /\ jn.current_fence = j.current_fence
    /\ jn.lease_expires_at_ms = j.lease_expires_at_ms
    /\ jn.heartbeat_at_ms = j.heartbeat_at_ms
    /\ jn.checkpoint_ref = j.checkpoint_ref
    /\ jn.lease_expired = j.lease_expired
    /\ jn.retry_due_at_ms = j.retry_due_at_ms

\* NextEntry builds a well-typed outbox entry.
LEMMA EntryType ==
    ASSUME NEW j \in StoredJob, NEW id \in NoteIds \cup {TerminalDelivery},
           NEW key \in Keys \cup {None}, NEW by \in Nat
    PROVE  NextEntry(j, id, key, by) \in OutboxEntry
BY DEF StoredJob, OutboxEntry, NextEntry

\* A claim leaves a well-typed record.
LEMMA ClaimType ==
    ASSUME NEW j \in StoredJob, NEW id \in AttemptIds, NEW t \in Nat, NEW l \in Nat
    PROVE  Claimed(j, id, t, l) \in StoredJob
<1>1. /\ j.attempt_count + 1 \in Nat
      /\ j.current_fence + 1 \in Nat
      /\ 0 \in Nat
  BY DEF StoredJob
<1>2. "Running" \in Phases
  BY DEF Phases
<1> QED
  BY <1>1, <1>2, Zenon DEF Claimed, StoredJob

\* A terminal outcome leaves a well-typed record.
LEMMA TerminalizedType ==
    ASSUME NEW j \in StoredJob, NEW kind \in TerminalKinds, NEW by \in Nat
    PROVE  /\ Terminalized(j, kind, by) \in StoredJob
           /\ [Terminalized(j, kind, by) EXCEPT !.cancel_requested = TRUE] \in StoredJob
<1> DEFINE e == NextEntry(j, TerminalDelivery, None, by)
<1>1. e \in OutboxEntry
  BY EntryType
<1>2. Append(j.outbox, e) \in Seq(OutboxEntry)
  BY <1>1 DEF StoredJob
<1>3. j.delivery_sequence + 1 \in Nat
  BY DEF StoredJob
<1>4. kind \in Phases /\ kind \in TerminalKinds \cup {None}
  BY DEF Phases
<1>5. Terminalized(j, kind, by) \in StoredJob
  BY <1>2, <1>3, <1>4, Zenon DEF Terminalized, StoredJob
<1> QED
  BY <1>5, Zenon DEF StoredJob

\* emit_notification leaves a well-typed record.
LEMMA EmitType ==
    ASSUME NEW j \in StoredJob, NEW jn, NEW w \in Authority,
           NEW n \in NoteIds, NEW key \in Keys, NEW t,
           EmitNotification(j, jn, w, n, key, t)
    PROVE  jn \in StoredJob
<1> DEFINE e == NextEntry(j, n, key, w.fence)
<1>1. e \in OutboxEntry
  BY EntryType DEF Authority
<1>2. Append(j.outbox, e) \in Seq(OutboxEntry)
  BY <1>1 DEF StoredJob
<1>3. /\ [j.notification_id_by_key EXCEPT ![key] = n] \in [Keys -> NoteIds \cup {None}]
      /\ [j.notification_sequences EXCEPT ![n] = j.delivery_sequence + 1] \in [NoteIds -> Nat]
      /\ j.delivery_sequence + 1 \in Nat
  BY DEF StoredJob
<1>4. CASE jn = j
  BY <1>4
<1>5. CASE jn = [j EXCEPT !.delivery_sequence = j.delivery_sequence + 1,
                      !.notification_id_by_key[key] = n,
                      !.notification_sequences[n] = j.delivery_sequence + 1,
                      !.outbox = Append(j.outbox, NextEntry(j, n, key, w.fence))]
  <2> HIDE DEF e
  <2>1. jn = [j EXCEPT !.delivery_sequence = j.delivery_sequence + 1,
                  !.notification_id_by_key = [j.notification_id_by_key EXCEPT ![key] = n],
                  !.notification_sequences =
                      [j.notification_sequences EXCEPT ![n] = j.delivery_sequence + 1],
                  !.outbox = Append(j.outbox, e)]
    BY <1>5, Zenon DEF StoredJob, e
  <2> QED
    BY <1>2, <1>3, <2>1, Zenon DEF StoredJob
<1> QED
  BY <1>4, <1>5 DEF EmitNotification

\* mark_delivery_applied leaves a well-typed record: the acknowledged entry
\* exists and stays an entry.
LEMMA MarkType ==
    ASSUME NEW j \in StoredJob, NEW jn, NEW s, MarkDeliveryApplied(j, jn, s)
    PROVE  jn \in StoredJob
<1> DEFINE i == EntryAt(j, s)
           id == j.outbox[i].delivery_id
           marked == [j.outbox EXCEPT ![i].applied = TRUE]
<1>1. i \in 1..Len(j.outbox)
  BY DEF MarkDeliveryApplied, EntryAt
<1>2. j.outbox \in Seq(OutboxEntry) /\ j.outbox[i] \in OutboxEntry
  BY <1>1 DEF StoredJob
<1>3. [j.outbox[i] EXCEPT !.applied = TRUE] \in OutboxEntry
  BY <1>2 DEF OutboxEntry
<1>4. marked \in Seq(OutboxEntry)
  BY <1>1, <1>2, <1>3
<1>5. \/ jn = [j EXCEPT !.terminal_delivery_applied = TRUE, !.outbox = marked]
      \/ /\ id \in NoteIds
         /\ jn = [j EXCEPT !.notification_applied = @ \cup {id}, !.outbox = marked]
  BY Zenon DEF MarkDeliveryApplied, NotificationDeliveryApplied, NotificationIds
<1> HIDE DEF id, marked, i
<1>6. CASE jn = [j EXCEPT !.terminal_delivery_applied = TRUE, !.outbox = marked]
  BY <1>4, <1>6, Zenon DEF StoredJob
<1>7. CASE /\ id \in NoteIds
           /\ jn = [j EXCEPT !.notification_applied = @ \cup {id}, !.outbox = marked]
  <2>1. j.notification_applied \cup {id} \in SUBSET NoteIds
    BY <1>7 DEF StoredJob
  <2> QED
    BY <1>4, <1>7, <2>1, Zenon DEF StoredJob
<1> QED
  BY <1>5, <1>6, <1>7

\* The record before submission is well typed.
LEMMA InitType == Init => TypeOK
BY NoneAssumption DEF Init, TypeOK, InitJob, StoredJob, Phases, RestartClasses

\* Every step keeps the types.  A reconciler that takes the authority the
\* record names needs a fence there, hence AttemptHasFence.
LEMMA NextType == TypeOK /\ AttemptHasFence /\ [Next]_vars => TypeOK'
<1> SUFFICES ASSUME TypeOK, AttemptHasFence, [Next]_vars
             PROVE  TypeOK'
  OBVIOUS
<1> USE DEF TypeOK
<1>t. Times \subseteq Nat
  BY BoundsAssumption DEF Times
<1>h. \A a \in Actors : held[a] # None => held[a] \in Authority
  OBVIOUS
<1>w. \A kind \in TerminalKinds, a \in Actors :
        held[a] # None => Terminalized(job, kind, held[a].fence) \in StoredJob
  BY <1>h, TerminalizedType DEF Authority
<1>z. \A kind \in TerminalKinds :
        /\ Terminalized(job, kind, 0) \in StoredJob
        /\ [Terminalized(job, kind, 0) EXCEPT !.cancel_requested = TRUE] \in StoredJob
  BY TerminalizedType
<1>1. CASE Submit
  <2>1. PICK class \in RestartClasses : job' = [job EXCEPT !.lifecycle_phase = "Queued",
                                                          !.restart_class = class]
    BY <1>1 DEF Submit, SubmitQueued
  <2>2. "Queued" \in Phases
    BY DEF Phases
  <2>3. job' \in StoredJob
    BY <2>1, <2>2, Zenon DEF StoredJob
  <2> QED
    BY <1>1, <2>3 DEF Submit
<1>2. ASSUME NEW a \in Actors, Claim(a) PROVE TypeOK'
  <2>1. PICK id \in AttemptIds, t \in Times, l \in Times :
          /\ ClaimAttempt(job, job', id, t, l)
          /\ \/ held' = [held EXCEPT ![a] =
                            [attempt_id |-> id, fence |-> job.current_fence + 1]]
             \/ UNCHANGED held
    BY <1>2 DEF Claim
  <2>2. job' \in StoredJob
    BY <1>t, <2>1, ClaimType DEF ClaimAttempt
  <2>3. [attempt_id |-> id, fence |-> job.current_fence + 1] \in Authority
    BY DEF Authority, StoredJob
  <2> QED
    BY <2>1, <2>2, <2>3
<1>3. ASSUME NEW a \in Actors, Rehydrate(a) PROVE TypeOK'
  <2>1. [attempt_id |-> job.current_attempt_id, fence |-> job.current_fence] \in Authority
    BY <1>3 DEF Authority, StoredJob, Rehydrate, AttemptHasFence
  <2> QED
    BY <1>3, <2>1 DEF Rehydrate
<1>4. ASSUME NEW a \in Actors, Renew(a) PROVE TypeOK'
  <2>1. PICK h \in Nat, l \in Nat : job' = [job EXCEPT !.heartbeat_at_ms = h,
                                                     !.lease_expires_at_ms = l]
    BY <1>4, <1>t DEF Renew, RenewLease
  <2>2. job' \in StoredJob
    BY <2>1, Zenon DEF StoredJob
  <2> QED
    BY <1>4, <2>2 DEF Renew
<1>5. ASSUME NEW a \in Actors, Progress(a) PROVE TypeOK'
  <2>1. PICK c \in 1..MaxCursor : job' = [job EXCEPT !.progress_cursor = c]
    BY <1>5 DEF Progress, ReportProgress
  <2>2. c \in Nat
    BY BoundsAssumption
  <2>3. job' \in StoredJob
    BY <2>1, <2>2, Zenon DEF StoredJob
  <2> QED
    BY <1>5, <2>3 DEF Progress
<1>6. ASSUME NEW a \in Actors, Checkpoint(a) PROVE TypeOK'
  <2>1. job' = [job EXCEPT !.checkpoint_ref = held[a].fence]
    BY <1>6 DEF Checkpoint, RecordCheckpoint
  <2>2. held[a].fence \in Nat
    BY <1>6, <1>h DEF Checkpoint, Authority
  <2>3. job' \in StoredJob
    BY <2>1, <2>2, Zenon DEF StoredJob
  <2> QED
    BY <1>6, <2>3 DEF Checkpoint
<1>7. ASSUME NEW a \in Actors, Wait(a) \/ Resume(a) PROVE TypeOK'
  <2>1. PICK p \in Phases : job' = [job EXCEPT !.lifecycle_phase = p]
    BY <1>7 DEF Wait, Resume, WaitExternal, ResumeRunning, Phases
  <2>2. job' \in StoredJob
    BY <2>1, Zenon DEF StoredJob
  <2> QED
    BY <1>7, <2>2 DEF Wait, Resume
<1>8. ASSUME NEW a \in Actors, Notify(a) PROVE TypeOK'
  BY <1>8, <1>h, EmitType DEF Notify
<1>9. ASSUME NEW a \in Actors, Complete(a) \/ Fail(a) \/ AckCancel(a) PROVE TypeOK'
  BY <1>9, <1>w DEF Complete, Fail, AckCancel, CompleteAttempt, FailAttempt,
                   FinishAttempt, AcknowledgeCancel, TerminalKinds
<1>10. ASSUME NEW a \in Actors, ObserveExpiry(a) PROVE TypeOK'
  <2>1. job' = [job EXCEPT !.lifecycle_phase = "LossObserved", !.lease_expired = TRUE]
    BY <1>10 DEF ObserveExpiry, LeaseExpired
  <2>2. "LossObserved" \in Phases
    BY DEF Phases
  <2>3. job' \in StoredJob
    BY <2>1, <2>2, Zenon DEF StoredJob
  <2> QED
    BY <1>10, <2>3 DEF ObserveExpiry
<1>11. CASE Retry
  <2>1. PICK due \in Times : job' = [job EXCEPT !.lifecycle_phase = "RetryScheduled",
                                              !.retry_due_at_ms = due]
    BY <1>11 DEF Retry, ScheduleRetry
  <2>2. due \in Nat /\ "RetryScheduled" \in Phases
    BY <1>t DEF Phases
  <2>3. job' \in StoredJob
    BY <2>1, <2>2, Zenon DEF StoredJob
  <2> QED
    BY <1>11, <2>3 DEF Retry
<1>12. CASE ClassifyLoss \/ NeedsAttention
  BY <1>12, <1>z DEF ClassifyLoss, ClassifyWorkerLoss, NeedsAttention,
                    MarkNeedsAttention, TerminalKinds
<1>13. CASE Cancel
  <2>1. CASE job' = [job EXCEPT !.cancel_requested = TRUE]
    <3>1. job' \in StoredJob
      BY <2>1, Zenon DEF StoredJob
    <3> QED
      BY <1>13, <3>1 DEF Cancel
  <2> QED
    BY <2>1, <1>13, <1>z DEF Cancel, RequestCancel, TerminalKinds
<1>14. CASE AckDelivery
  BY <1>14, MarkType DEF AckDelivery
<1>15. CASE AddSubscription \/ RemoveSubscription
  <2>1. PICK subs \in SUBSET Subs : job' = [job EXCEPT !.subscriptions = subs]
    BY <1>15, Zenon DEF AddSubscription, RemoveSubscription, Subscribe, Unsubscribe, StoredJob
  <2>2. job' \in StoredJob
    BY <2>1, Zenon DEF StoredJob
  <2> QED
    BY <1>15, <2>2 DEF AddSubscription, RemoveSubscription
<1>16. CASE UNCHANGED vars
  BY <1>16 DEF vars
<1> QED
  BY <1>1, <1>2, <1>3, <1>4, <1>5, <1>6, <1>7, <1>8, <1>9, <1>10, <1>11, <1>12,
     <1>13, <1>14, <1>15, <1>16 DEF Next

-----------------------------------------------------------------------------

\* A terminal outcome leaves the attempt fields alone.
LEMMA TerminalizedFields ==
    ASSUME NEW j \in StoredJob, NEW kind, NEW by
    PROVE  LET jn == Terminalized(j, kind, by)
               jc == [jn EXCEPT !.cancel_requested = TRUE]
           IN  /\ AttemptFieldsKept(j, jn) /\ AttemptFieldsKept(j, jc)
               /\ jn.lifecycle_phase = kind /\ jc.lifecycle_phase = kind
BY DEF Terminalized, StoredJob, AttemptFieldsKept

\* A notification leaves the attempt fields and the phase alone.
LEMMA EmitFields ==
    ASSUME NEW j \in StoredJob, NEW jn, NEW w, NEW n, NEW key, NEW t,
           EmitNotification(j, jn, w, n, key, t)
    PROVE  /\ AttemptFieldsKept(j, jn)
           /\ jn.lifecycle_phase = j.lifecycle_phase
BY ZenonT(30) DEF EmitNotification, StoredJob, AttemptFieldsKept

\* An acknowledgement leaves the attempt fields and the phase alone.
LEMMA MarkFields ==
    ASSUME NEW j \in StoredJob, NEW jn, NEW s, MarkDeliveryApplied(j, jn, s)
    PROVE  /\ AttemptFieldsKept(j, jn)
           /\ jn.lifecycle_phase = j.lifecycle_phase
<1>1. \E id, marked :
        \/ jn = [j EXCEPT !.terminal_delivery_applied = TRUE, !.outbox = marked]
        \/ jn = [j EXCEPT !.notification_applied = @ \cup {id}, !.outbox = marked]
  BY Zenon DEF MarkDeliveryApplied
<1> QED
  BY <1>1, ZenonT(30) DEF StoredJob, AttemptFieldsKept

\* The accounting holds before submission.
LEMMA ControlInit == Init => ControlInv
BY DEF Init, InitJob, ControlInv, AttemptAccounting, AttemptHasFence, RestartClassHonoured,
       LeaseDiscipline, Executing

\* Ending a job, or leaving its attempt and its phase alone, cannot break the
\* accounting.
LEMMA ControlKept ==
    ASSUME ControlInv, AttemptFieldsKept(job, job'),
           job'.lifecycle_phase = job.lifecycle_phase \/ Terminal(job)'
    PROVE  ControlInv'
BY DEF ControlInv, AttemptAccounting, AttemptHasFence, RestartClassHonoured, LeaseDiscipline,
       Executing, Terminal, AttemptFieldsKept, TerminalKinds

\* Every step keeps the accounting of attempts, leases and retries.
LEMMA ControlNext == TypeOK /\ ControlInv /\ [Next]_vars => ControlInv'
<1> SUFFICES ASSUME TypeOK, ControlInv, [Next]_vars
             PROVE  ControlInv'
  OBVIOUS
<1> DEFINE Kept == /\ AttemptFieldsKept(job, job')
                   /\ job'.lifecycle_phase = job.lifecycle_phase \/ Terminal(job)'
<1>j. job \in StoredJob
  BY DEF TypeOK
<1>k. Kept => ControlInv'
  BY ControlKept
<1>t. Times \subseteq Nat
  BY BoundsAssumption DEF Times
<1>h. \A a \in Actors : held[a] # None => held[a] \in Authority
  BY DEF TypeOK
<1>e. \A kind \in TerminalKinds, by \in Nat :
        \/ job' = Terminalized(job, kind, by)
        \/ job' = [Terminalized(job, kind, by) EXCEPT !.cancel_requested = TRUE]
        => Kept
  <2> TAKE kind \in TerminalKinds, by \in Nat
  <2>1. /\ AttemptFieldsKept(job, Terminalized(job, kind, by))
        /\ Terminalized(job, kind, by).lifecycle_phase = kind
        /\ AttemptFieldsKept(job,
               [Terminalized(job, kind, by) EXCEPT !.cancel_requested = TRUE])
        /\ [Terminalized(job, kind, by) EXCEPT !.cancel_requested = TRUE]
               .lifecycle_phase = kind
    BY <1>j, TerminalizedFields, Zenon
  <2> QED
    BY <2>1, Zenon DEF Terminal
<1> USE DEF ControlInv, AttemptAccounting, AttemptHasFence, RestartClassHonoured,
            LeaseDiscipline, Executing
<1>1. CASE Submit
  BY <1>1, <1>j DEF Submit, SubmitQueued, StoredJob
<1>2. ASSUME NEW a \in Actors, Claim(a) PROVE ControlInv'
  <2>1. PICK id \in AttemptIds, t \in Times, l \in Times : ClaimAttempt(job, job', id, t, l)
    BY <1>2 DEF Claim
  <2>2. job' = Claimed(job, id, t, l) /\ l > t
        /\ job.lifecycle_phase \in {"Queued", "RetryScheduled"}
    BY <2>1 DEF ClaimAttempt
  <2>3. /\ job'.lifecycle_phase = "Running"
        /\ job'.restart_class = job.restart_class
        /\ job'.attempt_count = job.attempt_count + 1
        /\ job'.current_fence = job.current_fence + 1
        /\ job'.lease_expires_at_ms = l
        /\ job'.heartbeat_at_ms = t
        /\ job'.checkpoint_ref = job.checkpoint_ref
        /\ job'.lease_expired = FALSE
    BY ONLY <1>j, <2>2 DEF Claimed, StoredJob
  <2>4. /\ job.attempt_count \in Nat /\ job.checkpoint_ref \in Nat
        /\ t \in Nat /\ l \in Nat
    BY <1>j, <1>t DEF StoredJob
  <2> QED
    BY <2>2, <2>3, <2>4
<1>3. ASSUME NEW a \in Actors, Rehydrate(a) PROVE ControlInv'
  BY <1>3 DEF Rehydrate
<1>4. ASSUME NEW a \in Actors, Renew(a) PROVE ControlInv'
  BY <1>4, <1>t, <1>j DEF Renew, RenewLease, StoredJob
<1>5. ASSUME NEW a \in Actors, Progress(a) PROVE Kept
  BY <1>5, <1>j DEF Progress, ReportProgress, StoredJob, AttemptFieldsKept
<1>6. ASSUME NEW a \in Actors, Checkpoint(a) PROVE ControlInv'
  <2>1. /\ job' = [job EXCEPT !.checkpoint_ref = job.current_fence]
        /\ Executing(job)
    BY <1>6 DEF Checkpoint, RecordCheckpoint, LiveWriter, CurrentWriter
  <2>2. job.current_fence \in Nat
    BY <1>j DEF StoredJob
  <2> QED
    BY <1>j, <2>1, <2>2 DEF StoredJob
<1>7. ASSUME NEW a \in Actors, Wait(a) \/ Resume(a) PROVE ControlInv'
  <2>1. PICK p \in {"Running", "WaitingExternal"} : job' = [job EXCEPT !.lifecycle_phase = p]
    BY <1>7 DEF Wait, Resume, WaitExternal, ResumeRunning
  <2>2. Executing(job)
    BY <1>7 DEF Wait, Resume, WaitExternal, ResumeRunning
  <2> QED
    BY <1>j, <2>1, <2>2 DEF StoredJob
<1>8. ASSUME NEW a \in Actors, Notify(a) PROVE Kept
  BY <1>8, <1>j, EmitFields DEF Notify
<1>9. ASSUME NEW a \in Actors, Complete(a) \/ Fail(a) \/ AckCancel(a) PROVE Kept
  <2>1. /\ held[a] # None
        /\ \E kind \in TerminalKinds : job' = Terminalized(job, kind, held[a].fence)
    BY <1>9 DEF Complete, Fail, AckCancel, CompleteAttempt, FailAttempt, FinishAttempt,
                AcknowledgeCancel, TerminalKinds
  <2>2. held[a].fence \in Nat
    BY <1>h, <2>1 DEF Authority
  <2> QED
    BY <1>e, <2>1, <2>2, Zenon
<1>10. ASSUME NEW a \in Actors, ObserveExpiry(a) PROVE ControlInv'
  BY <1>10, <1>j DEF ObserveExpiry, LeaseExpired, StoredJob
<1>11. CASE Retry
  BY <1>11, <1>t, <1>j DEF Retry, ScheduleRetry, StoredJob
<1>12. CASE ClassifyLoss \/ NeedsAttention
  <2>1. \E kind \in TerminalKinds : job' = Terminalized(job, kind, 0)
    BY <1>12 DEF ClassifyLoss, ClassifyWorkerLoss, NeedsAttention, MarkNeedsAttention,
                 TerminalKinds
  <2> QED
    BY <1>e, <1>k, <2>1
<1>13. CASE Cancel
  <2>1. CASE job' = [job EXCEPT !.cancel_requested = TRUE]
    BY <2>1, <1>j DEF StoredJob
  <2>2. CASE job' = job
    BY <2>2
  <2> QED
    BY <2>1, <2>2, <1>13, <1>e, <1>k DEF Cancel, RequestCancel, TerminalKinds
<1>14. CASE AckDelivery
  BY <1>14, <1>k, <1>j, MarkFields DEF AckDelivery
<1>15. CASE AddSubscription \/ RemoveSubscription
  BY <1>15, <1>j, ZenonT(30) DEF AddSubscription, RemoveSubscription, Subscribe,
                                 Unsubscribe, StoredJob
<1>16. CASE UNCHANGED vars
  BY <1>16 DEF vars
<1> QED
  BY <1>1, <1>2, <1>3, <1>4, <1>5, <1>6, <1>7, <1>8, <1>9, <1>10, <1>11, <1>12,
     <1>13, <1>14, <1>15, <1>16, <1>k DEF Next

\* The types and the accounting hold in every reachable state.
LEMMA ControlSafe == Spec => [](TypeOK /\ ControlInv)
<1>1. TypeOK /\ ControlInv /\ [Next]_vars => (TypeOK /\ ControlInv)'
  BY NextType, ControlNext DEF ControlInv, AttemptAccounting
<1> QED
  BY InitType, ControlInit, <1>1, PTL DEF Spec

\* Every record a sequence of service calls can store is well typed, and
\* every authority an actor holds carries a minted fence, for any number of
\* actors, attempts, notifications and subscriptions.
THEOREM TypeCorrect == Spec => []TypeOK
BY ControlSafe, PTL

\* Whatever the order of loss observations, retries and claims, a
\* non-resumable job runs at most once and a checkpoint-resumable job runs
\* again only from a checkpoint (the guards of ScheduleRetry in the machine).
THEOREM RestartSafe == Spec => []RestartClassHonoured
<1>1. ControlInv => RestartClassHonoured
  BY DEF ControlInv
<1> QED
  BY ControlSafe, <1>1, PTL

\* Executing, lost and retried records carry the lease state their phase
\* calls for, under arbitrary clock readings of the callers.
THEOREM LeaseSafe == Spec => []LeaseDiscipline
<1>1. ControlInv => LeaseDiscipline
  BY DEF ControlInv
<1> QED
  BY ControlSafe, <1>1, PTL

-----------------------------------------------------------------------------
(***************************************************************************)
(* The outbox of one detached job. The inductive invariant is              *)
(* DeliveryInv, on top of the types and the attempt accounting above.      *)
(* OutboxMatchesAuthority is not inductive by itself:                      *)
(* an acknowledgement is matched to its entry by sequence, and that picks  *)
(* the right entry only because every notification is sequenced before     *)
(* the terminal entry (TerminalDeliveryIsLast) and no later than the last  *)
(* delivery (DeliveryBookkeeping).                                         *)
(*                                                                         *)
(* A step is silent in the outbox, commits a notification, ends the job,   *)
(* or acknowledges a delivery: one lemma each.                             *)
(***************************************************************************)

\* What OutboxMatchesAuthority and TerminalDeliveryIsLast leave unsaid and a
\* step that commits or acknowledges a delivery relies on.
DeliveryBookkeeping ==
    /\ \A n \in job.notification_applied : n \in NotificationIds(job)
    /\ \A n \in NoteIds : job.notification_sequences[n] <= job.delivery_sequence
    /\ job.terminal_kind = None => ~job.terminal_delivery_applied

DeliveryInv ==
    /\ OutboxMatchesAuthority
    /\ TerminalDeliveryIsLast
    /\ FencedAuthorship
    /\ DeliveryBookkeeping

\* The fields of a record that only deliveries write.
DeliveryFieldsKept(j, jn) ==
    /\ jn.delivery_sequence = j.delivery_sequence
    /\ jn.notification_id_by_key = j.notification_id_by_key
    /\ jn.notification_sequences = j.notification_sequences
    /\ jn.notification_applied = j.notification_applied
    /\ jn.terminal_kind = j.terminal_kind
    /\ jn.terminal_delivery_sequence = j.terminal_delivery_sequence
    /\ jn.terminal_delivery_applied = j.terminal_delivery_applied
    /\ jn.terminal_result = j.terminal_result
    /\ jn.outbox = j.outbox

\* A step that is silent in the outbox and neither ends nor revives the job.
Quiet(j, jn) ==
    /\ DeliveryFieldsKept(j, jn)
    /\ \/ jn.lifecycle_phase = j.lifecycle_phase
       \/ ~Terminal(j) /\ ~Terminal(jn)

\* An empty outbox matches an empty record.
LEMMA DeliveryInit == Init => DeliveryInv
BY DEF Init, InitJob, DeliveryInv, OutboxMatchesAuthority, TerminalDeliveryIsLast,
       FencedAuthorship, DeliveryBookkeeping, Terminal, TerminalKinds, NotificationIds

\* The entries of a well-typed outbox have well-typed fields.
LEMMA EntryFields ==
    ASSUME NEW j \in StoredJob
    PROVE  /\ Len(j.outbox) \in Nat
           /\ \A i \in 1..Len(j.outbox) :
                /\ j.outbox[i].key \in Keys \cup {None}
                /\ j.outbox[i].by \in Nat
                /\ j.outbox[i].applied \in BOOLEAN
<1>1. j.outbox \in Seq(OutboxEntry)
  BY DEF StoredJob
<1>2. \A i \in 1..Len(j.outbox) : j.outbox[i] \in OutboxEntry
  BY <1>1
<1> QED
  BY <1>1, <1>2 DEF OutboxEntry

\* A step that is silent in the outbox keeps the delivery invariant.
LEMMA QuietKeeps ==
    ASSUME TypeOK, TypeOK', DeliveryInv, ControlInv', Quiet(job, job'),
           job'.current_fence >= job.current_fence
    PROVE  DeliveryInv'
<1>1. OutboxMatchesAuthority'
  BY DEF DeliveryInv, OutboxMatchesAuthority, Quiet, DeliveryFieldsKept
<1>2. TerminalDeliveryIsLast'
  BY DEF DeliveryInv, TerminalDeliveryIsLast, Quiet, DeliveryFieldsKept, Terminal,
         NotificationIds
<1>3. FencedAuthorship'
  <2>1. \A i \in 1..Len(job.outbox) : job.outbox[i].by \in Nat
    BY EntryFields DEF TypeOK
  <2>2. job.current_fence \in Nat /\ job'.current_fence \in Nat
    BY DEF TypeOK, StoredJob
  <2> QED
    BY <2>1, <2>2 DEF DeliveryInv, FencedAuthorship, Quiet, DeliveryFieldsKept,
                     ControlInv, AttemptAccounting
<1>4. DeliveryBookkeeping'
  BY DEF DeliveryInv, DeliveryBookkeeping, Quiet, DeliveryFieldsKept, NotificationIds
<1> QED
  BY <1>1, <1>2, <1>3, <1>4 DEF DeliveryInv

\* Appending an entry: the old positions keep their entries.
LEMMA AppendEntry ==
    ASSUME NEW s \in Seq(OutboxEntry), NEW e \in OutboxEntry, NEW r, r = Append(s, e)
    PROVE  /\ r \in Seq(OutboxEntry)
           /\ Len(s) \in Nat
           /\ Len(r) = Len(s) + 1
           /\ \A i \in 1..Len(s) : r[i] = s[i]
           /\ r[Len(s) + 1] = e
OBVIOUS

\* A new notification under a new key and a new id keeps the delivery
\* invariant: no older entry has that key or that id.
LEMMA EmitKeeps ==
    ASSUME TypeOK, TypeOK', DeliveryInv, NEW w \in Authority, NEW n \in NoteIds,
           NEW key \in Keys, NEW t, EmitNotification(job, job', w, n, key, t), job' # job
    PROVE  DeliveryInv'
<1> DEFINE e == NextEntry(job, n, key, w.fence)
           d == job.delivery_sequence
<1>j. job \in StoredJob /\ job' \in StoredJob
  BY DEF TypeOK
<1>1. /\ n \notin NotificationIds(job)
      /\ key \notin NotificationKeys(job)
      /\ Executing(job)
      /\ w.fence = job.current_fence
      /\ job' = [job EXCEPT !.delivery_sequence = job.delivery_sequence + 1,
                        !.notification_id_by_key[key] = n,
                        !.notification_sequences[n] = job.delivery_sequence + 1,
                        !.outbox = Append(job.outbox, NextEntry(job, n, key, w.fence))]
  BY DEF EmitNotification, LiveWriter, CurrentWriter
<1>2. /\ job'.delivery_sequence = d + 1
      /\ job'.notification_id_by_key = [job.notification_id_by_key EXCEPT ![key] = n]
      /\ job'.notification_sequences = [job.notification_sequences EXCEPT ![n] = d + 1]
      /\ job'.outbox = Append(job.outbox, e)
      /\ job'.notification_applied = job.notification_applied
      /\ job'.terminal_kind = job.terminal_kind
      /\ job'.terminal_delivery_sequence = job.terminal_delivery_sequence
      /\ job'.terminal_delivery_applied = job.terminal_delivery_applied
      /\ job'.terminal_result = job.terminal_result
      /\ job'.lifecycle_phase = job.lifecycle_phase
      /\ job'.current_fence = job.current_fence
      /\ job'.attempt_count = job.attempt_count
      /\ job'.checkpoint_ref = job.checkpoint_ref
  BY <1>1, <1>j DEF StoredJob
<1>3. e \in OutboxEntry /\ job.outbox \in Seq(OutboxEntry) /\ d \in Nat
      /\ job.current_fence \in Nat /\ w.fence \in Nat
  BY <1>j, EntryType DEF StoredJob, Authority
<1>4. /\ e.delivery_id = n /\ e.sequence = d + 1 /\ e.key = key
      /\ e.by = w.fence /\ e.applied = FALSE
  BY DEF NextEntry
<1>5. /\ Len(job.outbox) = d /\ Len(job'.outbox) = d + 1
      /\ \A i \in 1..d : job'.outbox[i] = job.outbox[i]
      /\ job'.outbox[d + 1] = e
  BY <1>2, <1>3, AppendEntry DEF DeliveryInv, OutboxMatchesAuthority
<1>6. job.terminal_kind = None
  BY <1>1 DEF DeliveryInv, TerminalDeliveryIsLast, Terminal, Executing, TerminalKinds
<1>7. \A i \in 1..d : /\ job.outbox[i].key \in Keys
                      /\ job.outbox[i].key # key
                      /\ job.outbox[i].delivery_id # n
  <2> TAKE i \in 1..d
  <2>1. i \in 1..Len(job.outbox) /\ i # 0
    BY <1>3, <1>5
  <2>2. job.outbox[i].key \in Keys
    BY <1>j, <1>6, <2>1, EntryFields DEF DeliveryInv, OutboxMatchesAuthority
  <2>3. /\ job.notification_id_by_key[job.outbox[i].key] = job.outbox[i].delivery_id
        /\ job.outbox[i].delivery_id \in NoteIds
        /\ job.notification_sequences[job.outbox[i].delivery_id] = i
    BY <2>1, <2>2, NoneAssumption DEF DeliveryInv, OutboxMatchesAuthority
  <2> QED
    BY <1>1, <2>1, <2>2, <2>3, NoneAssumption DEF NotificationIds, NotificationKeys
<1> HIDE DEF e, d
<1>8. OutboxMatchesAuthority'
  <2>1. ASSUME NEW i \in 1..Len(job'.outbox)
        PROVE  /\ job'.outbox[i].sequence = i
               /\ job'.outbox[i].key \in Keys
               /\ job'.notification_id_by_key[job'.outbox[i].key] = job'.outbox[i].delivery_id
               /\ job'.outbox[i].delivery_id \in NoteIds
               /\ job'.notification_sequences[job'.outbox[i].delivery_id] = i
               /\ job'.outbox[i].applied <=>
                     job'.outbox[i].delivery_id \in job'.notification_applied
    <3>1. CASE i = d + 1
      <4>1. n \notin job.notification_applied
        BY <1>1 DEF DeliveryInv, DeliveryBookkeeping
      <4> QED
        BY <1>2, <1>4, <1>5, <1>j, <3>1, <4>1 DEF StoredJob
    <3>2. CASE i # d + 1
      <4>1. i \in 1..d
        BY <1>3, <1>5, <3>2
      <4>2. job.outbox[i].key # None
        BY <1>7, <4>1, NoneAssumption
      <4>3. /\ job.outbox[i].sequence = i
            /\ job.notification_id_by_key[job.outbox[i].key] = job.outbox[i].delivery_id
            /\ job.outbox[i].delivery_id \in NoteIds
            /\ job.notification_sequences[job.outbox[i].delivery_id] = i
            /\ job.outbox[i].applied <=>
                  job.outbox[i].delivery_id \in job.notification_applied
        BY <1>5, <4>1, <4>2 DEF DeliveryInv, OutboxMatchesAuthority
      <4>4. /\ job'.outbox[i] = job.outbox[i]
            /\ job.outbox[i].key \in Keys
            /\ job.outbox[i].key # key
            /\ job.outbox[i].delivery_id # n
        BY <1>5, <1>7, <4>1
      <4>5. /\ job'.notification_id_by_key[job.outbox[i].key] =
                 job.notification_id_by_key[job.outbox[i].key]
            /\ job'.notification_sequences[job.outbox[i].delivery_id] =
                 job.notification_sequences[job.outbox[i].delivery_id]
        BY <1>2, <1>j, <4>3, <4>4 DEF StoredJob
      <4> QED
        BY <1>2, <4>3, <4>4, <4>5
    <3> QED
      BY <3>1, <3>2
  <2> QED
    BY <1>2, <1>5, <1>6, <2>1, NoneAssumption DEF DeliveryInv, OutboxMatchesAuthority
<1>9. TerminalDeliveryIsLast'
  BY <1>1, <1>2, <1>6 DEF TerminalDeliveryIsLast, Terminal, Executing, TerminalKinds
<1>10. FencedAuthorship'
  <2>1. \A i \in 1..d : job.outbox[i].by \in Nat /\ job.outbox[i].by <= job.current_fence
    BY <1>j, <1>5, EntryFields DEF DeliveryInv, FencedAuthorship
  <2>2. \A i \in 1..Len(job'.outbox) : i \in 1..d \/ i = d + 1
    BY <1>3, <1>5
  <2> QED
    BY <1>1, <1>2, <1>3, <1>4, <1>5, <2>1, <2>2 DEF DeliveryInv, FencedAuthorship
<1>11. DeliveryBookkeeping'
  <2>1. \A m \in NoteIds : job'.notification_sequences[m] =
                             IF m = n THEN d + 1 ELSE job.notification_sequences[m]
    BY <1>2, <1>j DEF StoredJob
  <2>2. \A m \in NoteIds : job.notification_sequences[m] \in Nat
    BY <1>j DEF StoredJob
  <2>3. \A m \in NoteIds : job.notification_sequences[m] <= d
    BY DEF DeliveryInv, DeliveryBookkeeping, d
  <2> QED
    BY <1>2, <1>3, <1>6, <2>1, <2>2, <2>3
       DEF DeliveryInv, DeliveryBookkeeping, NotificationIds
<1> QED
  BY <1>8, <1>9, <1>10, <1>11 DEF DeliveryInv

\* Ending a job that has not ended keeps the delivery invariant: there is no
\* other terminal entry, and every notification was sequenced before.
LEMMA EndKeeps ==
    ASSUME TypeOK, TypeOK', DeliveryInv, ~Terminal(job), NEW kind \in TerminalKinds,
           NEW by \in {0, job.current_fence},
           \/ job' = Terminalized(job, kind, by)
           \/ job' = [Terminalized(job, kind, by) EXCEPT !.cancel_requested = TRUE]
    PROVE  DeliveryInv'
<1> DEFINE e == NextEntry(job, TerminalDelivery, None, by)
           d == job.delivery_sequence
<1>j. job \in StoredJob /\ job' \in StoredJob
  BY DEF TypeOK
<1>1. /\ job'.delivery_sequence = d + 1
      /\ job'.outbox = Append(job.outbox, e)
      /\ job'.terminal_kind = kind
      /\ job'.terminal_delivery_sequence = d + 1
      /\ job'.terminal_result = kind
      /\ job'.lifecycle_phase = kind
      /\ job'.notification_id_by_key = job.notification_id_by_key
      /\ job'.notification_sequences = job.notification_sequences
      /\ job'.notification_applied = job.notification_applied
      /\ job'.terminal_delivery_applied = job.terminal_delivery_applied
      /\ job'.current_fence = job.current_fence
      /\ job'.attempt_count = job.attempt_count
      /\ job'.checkpoint_ref = job.checkpoint_ref
  BY <1>j, ZenonT(30) DEF Terminalized, StoredJob
<1>2. /\ e \in OutboxEntry /\ job.outbox \in Seq(OutboxEntry) /\ d \in Nat
      /\ job.current_fence \in Nat /\ by \in Nat
  <2>1. job.outbox \in Seq(OutboxEntry) /\ d \in Nat /\ job.current_fence \in Nat
    BY <1>j DEF StoredJob
  <2>2. by \in Nat
    BY <2>1
  <2>3. e \in OutboxEntry
    BY <1>j, <2>2, EntryType
  <2> QED
    BY <2>1, <2>2, <2>3
<1>3. /\ e.delivery_id = TerminalDelivery /\ e.sequence = d + 1 /\ e.key = None
      /\ e.by = by /\ e.applied = FALSE
  BY DEF NextEntry
<1>4. /\ Len(job.outbox) = d /\ Len(job'.outbox) = d + 1
      /\ \A i \in 1..d : job'.outbox[i] = job.outbox[i]
      /\ job'.outbox[d + 1] = e
  BY <1>1, <1>2, AppendEntry DEF DeliveryInv, OutboxMatchesAuthority
<1>5. job.terminal_kind = None /\ kind # None /\ ~job.terminal_delivery_applied
  <2>1. job.terminal_kind = None
    BY DEF DeliveryInv, TerminalDeliveryIsLast
  <2> QED
    BY <2>1, NoneIsNoKind DEF DeliveryInv, DeliveryBookkeeping
<1>6. \A i \in 1..Len(job'.outbox) : i \in 1..d \/ i = d + 1
  BY <1>2, <1>4
<1> HIDE DEF e, d
<1>7. OutboxMatchesAuthority'
  <2>1. ASSUME NEW i \in 1..d
        PROVE  /\ job'.outbox[i].sequence = i
               /\ job'.outbox[i].key # None
               /\ job'.notification_id_by_key[job'.outbox[i].key] = job'.outbox[i].delivery_id
               /\ job'.outbox[i].delivery_id \in NoteIds
               /\ job'.notification_sequences[job'.outbox[i].delivery_id] = i
               /\ job'.outbox[i].applied <=>
                     job'.outbox[i].delivery_id \in job'.notification_applied
    BY <1>1, <1>4, <1>5 DEF DeliveryInv, OutboxMatchesAuthority
  <2>2. d + 1 \in 1..Len(job'.outbox)
    BY <1>2, <1>4
  <2> QED
    BY <1>1, <1>3, <1>4, <1>5, <1>6, <2>1, <2>2 DEF OutboxMatchesAuthority
<1>8. TerminalDeliveryIsLast'
  <2>1. \A n \in NoteIds : /\ job.notification_sequences[n] \in Nat
                           /\ job.notification_sequences[n] <= d
    BY <1>j DEF StoredJob, DeliveryInv, DeliveryBookkeeping, d
  <2> QED
    BY <1>1, <1>2, <1>5, <2>1 DEF TerminalDeliveryIsLast, Terminal, NotificationIds
<1>9. FencedAuthorship'
  <2>1. \A i \in 1..d : job.outbox[i].by \in Nat /\ job.outbox[i].by <= job.current_fence
    BY <1>j, <1>4, EntryFields DEF DeliveryInv, FencedAuthorship
  <2> QED
    BY <1>1, <1>2, <1>3, <1>4, <1>6, <2>1 DEF DeliveryInv, FencedAuthorship
<1>10. DeliveryBookkeeping'
  <2>1. \A n \in NoteIds : /\ job.notification_sequences[n] \in Nat
                           /\ job.notification_sequences[n] <= d
    BY <1>j DEF StoredJob, DeliveryInv, DeliveryBookkeeping, d
  <2> QED
    BY <1>1, <1>2, <1>5, <2>1 DEF DeliveryInv, DeliveryBookkeeping, NotificationIds
<1> QED
  BY <1>7, <1>8, <1>9, <1>10 DEF DeliveryInv

\* An acknowledgement keeps the delivery invariant: the sequence tells the
\* terminal entry from a notification that is itself called "terminal".
LEMMA MarkKeeps ==
    ASSUME TypeOK, TypeOK', DeliveryInv, NEW s, MarkDeliveryApplied(job, job', s)
    PROVE  DeliveryInv'
<1> DEFINE p == EntryAt(job, s)
           id == job.outbox[p].delivery_id
           marked == [job.outbox EXCEPT ![p].applied = TRUE]
<1>j. job \in StoredJob /\ job' \in StoredJob /\ job.outbox \in Seq(OutboxEntry)
  BY DEF TypeOK, StoredJob
<1>1. p \in 1..Len(job.outbox) /\ job.outbox[p].sequence = s
  BY DEF MarkDeliveryApplied, EntryAt
<1>2. p = s
  BY <1>1 DEF DeliveryInv, OutboxMatchesAuthority
<1>3. /\ Len(marked) = Len(job.outbox)
      /\ \A i \in 1..Len(job.outbox) :
            marked[i] = IF i = p THEN [job.outbox[p] EXCEPT !.applied = TRUE]
                                 ELSE job.outbox[i]
  BY <1>j, <1>1
<1>4. /\ \A i \in 1..Len(job.outbox) :
            /\ marked[i].sequence = job.outbox[i].sequence
            /\ marked[i].key = job.outbox[i].key
            /\ marked[i].delivery_id = job.outbox[i].delivery_id
            /\ marked[i].by = job.outbox[i].by
            /\ i # p => marked[i].applied = job.outbox[i].applied
      /\ marked[p].applied = TRUE
  <2>1. job.outbox[p] \in OutboxEntry
    BY <1>j, <1>1
  <2>2. marked[p] = [job.outbox[p] EXCEPT !.applied = TRUE]
    BY <1>1, <1>3
  <2>3. /\ marked[p].sequence = job.outbox[p].sequence
        /\ marked[p].key = job.outbox[p].key
        /\ marked[p].delivery_id = job.outbox[p].delivery_id
        /\ marked[p].by = job.outbox[p].by
        /\ marked[p].applied = TRUE
    BY <2>1, <2>2 DEF OutboxEntry
  <2>4. \A i \in 1..Len(job.outbox) : i # p => marked[i] = job.outbox[i]
    BY <1>3
  <2> HIDE DEF marked, p
  <2> QED
    BY <2>3, <2>4
<1>5. \/ /\ TerminalDeliveryApplied(job, id, s)
         /\ job' = [job EXCEPT !.terminal_delivery_applied = TRUE, !.outbox = marked]
      \/ /\ NotificationDeliveryApplied(job, id, s)
         /\ job' = [job EXCEPT !.notification_applied = @ \cup {id}, !.outbox = marked]
  BY Zenon DEF MarkDeliveryApplied
<1> HIDE DEF p, id, marked
<1>6. /\ job'.outbox = marked
      /\ job'.delivery_sequence = job.delivery_sequence
      /\ job'.notification_id_by_key = job.notification_id_by_key
      /\ job'.notification_sequences = job.notification_sequences
      /\ job'.terminal_kind = job.terminal_kind
      /\ job'.terminal_delivery_sequence = job.terminal_delivery_sequence
      /\ job'.terminal_result = job.terminal_result
      /\ job'.lifecycle_phase = job.lifecycle_phase
      /\ job'.current_fence = job.current_fence
      /\ job'.attempt_count = job.attempt_count
      /\ job'.checkpoint_ref = job.checkpoint_ref
  BY <1>5, <1>j, ZenonT(30) DEF StoredJob
<1>7. TerminalDeliveryIsLast'
  BY <1>6 DEF DeliveryInv, TerminalDeliveryIsLast, Terminal, NotificationIds
<1>8. FencedAuthorship'
  BY <1>3, <1>4, <1>6 DEF DeliveryInv, FencedAuthorship
\* Which kind of entry carries the sequence: a notification's is below the
\* terminal one, even when the notification is called "terminal".
<1>9. \/ /\ job.outbox[p].key = None /\ job.terminal_delivery_sequence = p
         /\ Terminal(job)
         /\ job'.terminal_delivery_applied = TRUE
         /\ job'.notification_applied = job.notification_applied
      \/ /\ job.outbox[p].key # None
         /\ id \in NotificationIds(job) /\ job.notification_sequences[id] = p
         /\ job'.notification_applied = job.notification_applied \cup {id}
         /\ job'.terminal_delivery_applied = job.terminal_delivery_applied
  <2>1. job.outbox[p].key # None =>
           /\ job.outbox[p].delivery_id \in NoteIds
           /\ job.notification_sequences[job.outbox[p].delivery_id] = p
    BY <1>1 DEF DeliveryInv, OutboxMatchesAuthority
  <2>2. job.outbox[p].key = None => /\ job.terminal_kind # None
                                    /\ job.terminal_delivery_sequence = p
    BY <1>1 DEF DeliveryInv, OutboxMatchesAuthority
  <2>3. \A n \in NotificationIds(job) :
           job.terminal_kind # None =>
               job.notification_sequences[n] < job.terminal_delivery_sequence
    BY DEF DeliveryInv, TerminalDeliveryIsLast
  <2>4. Terminal(job) => job.terminal_kind # None
    BY DEF DeliveryInv, TerminalDeliveryIsLast
  <2>5. p \in Nat /\ p # 0
    BY <1>1
  <2>6. CASE TerminalDeliveryApplied(job, id, s)
             /\ job' = [job EXCEPT !.terminal_delivery_applied = TRUE, !.outbox = marked]
    <3>1. Terminal(job) /\ job.terminal_delivery_sequence = p
      BY <1>2, <2>6 DEF TerminalDeliveryApplied
    <3>2. job.outbox[p].key = None
      BY <2>1, <2>3, <2>4, <2>5, <3>1 DEF NotificationIds, id
    <3> QED
      BY <1>j, <2>6, <3>1, <3>2 DEF StoredJob
  <2>7. CASE NotificationDeliveryApplied(job, id, s)
             /\ job' = [job EXCEPT !.notification_applied = @ \cup {id}, !.outbox = marked]
    <3>1. id \in NotificationIds(job) /\ job.notification_sequences[id] = p
      BY <1>2, <2>7 DEF NotificationDeliveryApplied
    <3>2. job.outbox[p].key # None
      BY <2>2, <2>3, <2>5, <3>1
    <3> QED
      BY <1>j, <2>7, <3>1, <3>2 DEF StoredJob
  <2> QED
    BY <1>5, <2>6, <2>7
<1>10. OutboxMatchesAuthority'
  <2>1. ASSUME NEW i \in 1..Len(job'.outbox), job'.outbox[i].key # None
        PROVE  /\ job'.notification_id_by_key[job'.outbox[i].key] = job'.outbox[i].delivery_id
               /\ job'.outbox[i].delivery_id \in NoteIds
               /\ job'.notification_sequences[job'.outbox[i].delivery_id] = i
               /\ job'.outbox[i].applied <=>
                     job'.outbox[i].delivery_id \in job'.notification_applied
    <3>1. i \in 1..Len(job.outbox) /\ job.outbox[i].key # None
      BY <1>3, <1>4, <1>6, <2>1
    <3>2. /\ job.notification_id_by_key[job.outbox[i].key] = job.outbox[i].delivery_id
          /\ job.outbox[i].delivery_id \in NoteIds
          /\ job.notification_sequences[job.outbox[i].delivery_id] = i
          /\ job.outbox[i].applied <=> job.outbox[i].delivery_id \in job.notification_applied
      BY <3>1 DEF DeliveryInv, OutboxMatchesAuthority
    <3>3. job'.outbox[i].applied <=> job'.outbox[i].delivery_id \in job'.notification_applied
      <4>1. CASE i = p
        BY <1>4, <1>6, <1>9, <3>1, <4>1 DEF id
      <4>2. CASE i # p
        <5>1. job'.outbox[i].applied = job.outbox[i].applied
          BY <1>4, <1>6, <3>1, <4>2
        <5>2. \/ job.outbox[i].delivery_id # id
              \/ job'.notification_applied = job.notification_applied
          BY <1>9, <3>2, <4>2
        <5> QED
          BY <1>4, <1>6, <1>9, <3>1, <3>2, <5>1, <5>2
      <4> QED
        BY <4>1, <4>2
    <3> QED
      BY <1>4, <1>6, <3>1, <3>2, <3>3
  <2>2. ASSUME NEW i \in 1..Len(job'.outbox), job'.outbox[i].key = None
        PROVE  /\ job'.terminal_kind # None
               /\ job'.outbox[i].delivery_id = TerminalDelivery
               /\ job'.terminal_delivery_sequence = i
               /\ job'.outbox[i].applied <=> job'.terminal_delivery_applied
    <3>1. i \in 1..Len(job.outbox) /\ job.outbox[i].key = None
      BY <1>3, <1>4, <1>6, <2>2
    <3>2. /\ job.terminal_kind # None
          /\ job.outbox[i].delivery_id = TerminalDelivery
          /\ job.terminal_delivery_sequence = i
          /\ job.outbox[i].applied <=> job.terminal_delivery_applied
      BY <3>1 DEF DeliveryInv, OutboxMatchesAuthority
    <3>3. CASE i = p
      BY <1>4, <1>6, <1>9, <3>1, <3>2, <3>3
    <3>4. CASE i # p
      BY <1>4, <1>6, <1>9, <3>1, <3>2, <3>4
    <3> QED
      BY <3>3, <3>4
  <2>3. \A i \in 1..Len(job'.outbox) : job'.outbox[i].sequence = i
    BY <1>3, <1>4, <1>6 DEF DeliveryInv, OutboxMatchesAuthority
  <2>4. (\E i \in 1..Len(job'.outbox) : job'.outbox[i].key = None)
           <=> \E i \in 1..Len(job.outbox) : job.outbox[i].key = None
    BY <1>3, <1>4, <1>6
  <2> QED
    BY <1>3, <1>6, <2>1, <2>2, <2>3, <2>4 DEF DeliveryInv, OutboxMatchesAuthority
<1>11. DeliveryBookkeeping'
  <2>1. CASE job.terminal_kind = None
    BY <1>6, <1>9, <2>1 DEF DeliveryInv, DeliveryBookkeeping, NotificationIds,
                            TerminalDeliveryIsLast
  <2>2. CASE job.terminal_kind # None
    BY <1>6, <1>9, <2>2 DEF DeliveryInv, DeliveryBookkeeping, NotificationIds
  <2> QED
    BY <2>1, <2>2
<1> QED
  BY <1>7, <1>8, <1>10, <1>11 DEF DeliveryInv

\* Every step keeps the delivery invariant.
LEMMA DeliveryNext ==
    TypeOK /\ TypeOK' /\ ControlInv /\ ControlInv' /\ DeliveryInv /\ [Next]_vars
        => DeliveryInv'
<1> SUFFICES ASSUME TypeOK, TypeOK', ControlInv, ControlInv', DeliveryInv, [Next]_vars
             PROVE  DeliveryInv'
  OBVIOUS
<1>j. /\ job \in StoredJob
      /\ job.current_fence \in Nat
  BY DEF TypeOK, StoredJob
<1>h. \A a \in Actors : held[a] # None => held[a] \in Authority
  BY DEF TypeOK
<1> DEFINE Silent == Quiet(job, job') /\ job'.current_fence >= job.current_fence
<1>q. Silent => DeliveryInv'
  BY QuietKeeps
<1>e. \A kind \in TerminalKinds, by \in {0, job.current_fence} :
        /\ ~Terminal(job)
        /\ \/ job' = Terminalized(job, kind, by)
           \/ job' = [Terminalized(job, kind, by) EXCEPT !.cancel_requested = TRUE]
        => DeliveryInv'
  BY EndKeeps
<1>u. job' = job => Silent
  BY <1>j DEF Quiet, DeliveryFieldsKept
<1> USE DEF Quiet, DeliveryFieldsKept
<1>1. CASE Submit
  BY <1>1, <1>j, <1>q DEF Submit, SubmitQueued, StoredJob, Terminal, TerminalKinds
<1>2. ASSUME NEW a \in Actors, Claim(a) PROVE Silent
  BY <1>2, <1>j DEF Claim, ClaimAttempt, Claimed, StoredJob, Terminal, TerminalKinds
<1>3. ASSUME NEW a \in Actors, Rehydrate(a) PROVE Silent
  BY <1>3, <1>u DEF Rehydrate
<1>4. ASSUME NEW a \in Actors, Renew(a) PROVE Silent
  BY <1>4, <1>j DEF Renew, RenewLease, StoredJob
<1>5. ASSUME NEW a \in Actors, Progress(a) PROVE Silent
  BY <1>5, <1>j DEF Progress, ReportProgress, StoredJob
<1>6. ASSUME NEW a \in Actors, Checkpoint(a) PROVE Silent
  BY <1>6, <1>j DEF Checkpoint, RecordCheckpoint, StoredJob
<1>7. ASSUME NEW a \in Actors, Wait(a) \/ Resume(a) PROVE Silent
  <2>1. /\ job.lifecycle_phase \in {"Running", "WaitingExternal"}
        /\ \E p \in {"Running", "WaitingExternal"} : job' = [job EXCEPT !.lifecycle_phase = p]
    BY <1>7 DEF Wait, Resume, WaitExternal, ResumeRunning
  <2> QED
    BY <1>j, <2>1 DEF StoredJob, Terminal, TerminalKinds
<1>8. ASSUME NEW a \in Actors, Notify(a) PROVE DeliveryInv'
  <2>1. PICK n \in NoteIds, k \in Keys, t \in Times :
            EmitNotification(job, job', held[a], n, k, t)
    BY <1>8 DEF Notify
  <2> QED
    BY <1>8, <1>h, <1>q, <1>u, <2>1, EmitKeeps DEF Notify
<1>9. ASSUME NEW a \in Actors, Complete(a) \/ Fail(a) \/ AckCancel(a) PROVE DeliveryInv'
  <2>1. /\ \E kind \in TerminalKinds : job' = Terminalized(job, kind, held[a].fence)
        /\ Executing(job) /\ held[a].fence = job.current_fence
    BY <1>9 DEF Complete, Fail, AckCancel, CompleteAttempt, FailAttempt, FinishAttempt,
                AcknowledgeCancel, TerminalKinds, LiveWriter, CurrentWriter
  <2> QED
    BY <2>1, <1>e DEF Executing, Terminal, TerminalKinds
<1>10. ASSUME NEW a \in Actors, ObserveExpiry(a) PROVE Silent
  BY <1>10, <1>j DEF ObserveExpiry, LeaseExpired, StoredJob, Terminal, TerminalKinds,
                     Executing
<1>11. CASE Retry
  BY <1>11, <1>j, <1>q DEF Retry, ScheduleRetry, StoredJob, Terminal, TerminalKinds
<1>12. CASE ClassifyLoss \/ NeedsAttention
  <2>1. /\ \E kind \in TerminalKinds : job' = Terminalized(job, kind, 0)
        /\ ~Terminal(job)
    BY <1>12 DEF ClassifyLoss, ClassifyWorkerLoss, NeedsAttention, MarkNeedsAttention,
                 TerminalKinds, Terminal
  <2> QED
    BY <2>1, <1>e
<1>13. CASE Cancel
  <2>1. CASE job' = [job EXCEPT !.cancel_requested = TRUE]
    BY <2>1, <1>j, <1>q DEF StoredJob
  <2>2. CASE job' = job
    BY <2>2, <1>q, <1>u
  <2>3. CASE /\ job.lifecycle_phase \in {"Queued", "RetryScheduled", "LossObserved"}
             /\ job' = [Terminalized(job, "Cancelled", 0) EXCEPT !.cancel_requested = TRUE]
    BY <2>3, <1>e DEF Terminal, TerminalKinds
  <2> QED
    BY <2>1, <2>2, <2>3, <1>13 DEF Cancel, RequestCancel
<1>14. CASE AckDelivery
  BY <1>14, MarkKeeps DEF AckDelivery
<1>15. CASE AddSubscription \/ RemoveSubscription
  BY <1>15, <1>j, <1>q DEF AddSubscription, RemoveSubscription, Subscribe, Unsubscribe,
                           StoredJob
<1>16. CASE UNCHANGED vars
  BY <1>16, <1>q, <1>u DEF vars
<1> QED
  BY <1>1, <1>2, <1>3, <1>4, <1>5, <1>6, <1>7, <1>8, <1>9, <1>10, <1>11, <1>12,
     <1>13, <1>14, <1>15, <1>16, <1>q DEF Next

\* The delivery invariant holds in every reachable state.
LEMMA DeliverySafe == Spec => []DeliveryInv
<1>1. Init => DeliveryInv
  BY DeliveryInit
<1> QED
  BY <1>1, DeliveryNext, ControlSafe, PTL DEF Spec

\* The outbox the service commits always passes validate_stored_job: it
\* carries exactly the deliveries the machine sequenced, for any number of
\* subscriptions, keys and notification ids, "terminal" included.
THEOREM OutboxConsistent == Spec => []OutboxMatchesAuthority
<1>1. DeliveryInv => OutboxMatchesAuthority
  BY DEF DeliveryInv
<1> QED
  BY <1>1, DeliverySafe, PTL

\* The terminal delivery follows every notification in the outbox.
THEOREM TerminalLast == Spec => []TerminalDeliveryIsLast
<1>1. DeliveryInv => TerminalDeliveryIsLast
  BY DEF DeliveryInv
<1> QED
  BY <1>1, DeliverySafe, PTL

\* Fencing works for any number of actors and attempts: entries and
\* checkpoints come from minted fences, in fence order.
THEOREM StaleWritersFenced == Spec => []FencedAuthorship
<1>1. DeliveryInv => FencedAuthorship
  BY DEF DeliveryInv
<1> QED
  BY <1>1, DeliverySafe, PTL

\* A notification key is committed at most once, over all attempts.
THEOREM NotifiedOnce == Spec => []NotificationOncePerKey
<1>1. DeliveryInv => NotificationOncePerKey
  BY DEF DeliveryInv, OutboxMatchesAuthority, NotificationOncePerKey
<1> QED
  BY <1>1, DeliverySafe, PTL

-----------------------------------------------------------------------------
(***************************************************************************)
(* What a step of the atomic job may never do. The four action properties  *)
(* of DetachedJob are proved together, action by action, from the          *)
(* invariants of the two sections above and CancelInv.                     *)
(***************************************************************************)

\* The actions of the four properties.
OutboxGrows ==
    /\ Len(job.outbox) <= Len(job'.outbox)
    /\ \A i \in 1..Len(job.outbox) :
          \/ job'.outbox[i] = job.outbox[i]
          \/ job'.outbox[i] = [job.outbox[i] EXCEPT !.applied = TRUE]

OutcomeKept ==
    Terminal(job) =>
        /\ job'.lifecycle_phase = job.lifecycle_phase
        /\ job'.terminal_result = job.terminal_result
        /\ Len(job'.outbox) = Len(job.outbox)
        /\ job'.checkpoint_ref = job.checkpoint_ref
        /\ job'.current_fence = job.current_fence

LeasesApart ==
    job'.current_fence # job.current_fence =>
        /\ job'.current_fence = job.current_fence + 1
        /\ job.current_fence > 0 => job'.heartbeat_at_ms > job.lease_expires_at_ms

CancelWins ==
    job.cancel_requested /\ job'.current_fence = job.current_fence =>
        /\ job'.lifecycle_phase \notin {"Succeeded", "Failed"}
        /\ job'.cancel_requested

\* A job that was asked to stop is not recorded as having succeeded or failed.
CancelInv == job.cancel_requested => job.lifecycle_phase \notin {"Succeeded", "Failed"}

StepSafe == OutboxGrows /\ OutcomeKept /\ LeasesApart /\ CancelWins /\ CancelInv'

\* A live job is left alive, by its current attempt, with nothing said.
LEMMA SilentStep ==
    ASSUME TypeOK, ~Terminal(job), ~Terminal(job)',
           job'.outbox = job.outbox,
           job'.current_fence = job.current_fence,
           job.cancel_requested => job'.cancel_requested
    PROVE  StepSafe
<1>1. Len(job.outbox) \in Nat
  BY EntryFields DEF TypeOK
<1> QED
  BY <1>1 DEF StepSafe, OutboxGrows, OutcomeKept, LeasesApart, CancelWins, CancelInv,
                Terminal, TerminalKinds

\* A live job commits one more entry; a cancelled one does not succeed or fail.
LEMMA CommitStep ==
    ASSUME TypeOK, ~Terminal(job), NEW e \in OutboxEntry,
           job'.outbox = Append(job.outbox, e),
           job'.current_fence = job.current_fence,
           job.cancel_requested => job'.cancel_requested,
           job'.cancel_requested => job'.lifecycle_phase \notin {"Succeeded", "Failed"}
    PROVE  StepSafe
<1>1. job.outbox \in Seq(OutboxEntry)
  BY DEF TypeOK, StoredJob
<1>2. /\ Len(job.outbox) \in Nat
      /\ Len(job'.outbox) = Len(job.outbox) + 1
      /\ \A i \in 1..Len(job.outbox) : job'.outbox[i] = job.outbox[i]
  BY <1>1, AppendEntry
<1> QED
  BY <1>2 DEF StepSafe, OutboxGrows, OutcomeKept, LeasesApart, CancelWins, CancelInv

\* What an operation leaves alone after the job ended.
LEMMA SettledStep ==
    ASSUME TypeOK, CancelInv, OutboxGrows,
           job'.lifecycle_phase = job.lifecycle_phase,
           job'.terminal_result = job.terminal_result,
           Len(job'.outbox) = Len(job.outbox),
           job'.checkpoint_ref = job.checkpoint_ref,
           job'.current_fence = job.current_fence,
           job'.cancel_requested = job.cancel_requested
    PROVE  StepSafe
BY DEF StepSafe, OutboxGrows, OutcomeKept, LeasesApart, CancelWins, CancelInv

\* An acknowledgement marks one entry of the outbox and changes no other.
LEMMA MarkOutbox ==
    ASSUME NEW j \in StoredJob, NEW jn, NEW s, MarkDeliveryApplied(j, jn, s)
    PROVE  /\ Len(jn.outbox) = Len(j.outbox)
           /\ \A i \in 1..Len(j.outbox) :
                \/ jn.outbox[i] = j.outbox[i]
                \/ jn.outbox[i] = [j.outbox[i] EXCEPT !.applied = TRUE]
           /\ jn.terminal_result = j.terminal_result
           /\ jn.cancel_requested = j.cancel_requested
<1> DEFINE p == EntryAt(j, s)
           id == j.outbox[p].delivery_id
           marked == [j.outbox EXCEPT ![p].applied = TRUE]
<1>1. p \in 1..Len(j.outbox) /\ j.outbox \in Seq(OutboxEntry)
  BY DEF MarkDeliveryApplied, EntryAt, StoredJob
<1>2. /\ Len(marked) = Len(j.outbox)
      /\ \A i \in 1..Len(j.outbox) :
            marked[i] = IF i = p THEN [j.outbox[p] EXCEPT !.applied = TRUE] ELSE j.outbox[i]
  BY <1>1
<1>3. \/ jn = [j EXCEPT !.terminal_delivery_applied = TRUE, !.outbox = marked]
      \/ jn = [j EXCEPT !.notification_applied = @ \cup {id}, !.outbox = marked]
  BY Zenon DEF MarkDeliveryApplied
<1> HIDE DEF p, id, marked
<1>4. /\ jn.outbox = marked
      /\ jn.terminal_result = j.terminal_result
      /\ jn.cancel_requested = j.cancel_requested
  BY <1>3 DEF StoredJob
<1> QED
  BY <1>2, <1>4

\* Every step satisfies the four action properties.
LEMMA StepsAreSafe ==
    TypeOK /\ ControlInv /\ CancelInv /\ [Next]_vars => StepSafe
<1> SUFFICES ASSUME TypeOK, ControlInv, CancelInv, [Next]_vars
             PROVE  StepSafe
  OBVIOUS
<1>j. /\ job \in StoredJob
      /\ job.current_fence \in Nat
      /\ Len(job.outbox) \in Nat
  BY EntryFields DEF TypeOK, StoredJob
<1>t. Times \subseteq Nat
  BY BoundsAssumption DEF Times
<1>h. \A a \in Actors : held[a] # None => held[a] \in Authority
  BY DEF TypeOK
<1> DEFINE Silent == /\ ~Terminal(job) /\ ~Terminal(job)'
                     /\ job'.outbox = job.outbox
                     /\ job'.current_fence = job.current_fence
                     /\ job.cancel_requested => job'.cancel_requested
           Settled == /\ OutboxGrows
                      /\ job'.lifecycle_phase = job.lifecycle_phase
                      /\ job'.terminal_result = job.terminal_result
                      /\ Len(job'.outbox) = Len(job.outbox)
                      /\ job'.checkpoint_ref = job.checkpoint_ref
                      /\ job'.current_fence = job.current_fence
                      /\ job'.cancel_requested = job.cancel_requested
<1>s. Silent => StepSafe
  BY SilentStep
<1>d. Settled => StepSafe
  BY SettledStep
<1>u. job' = job => Settled
  BY <1>j DEF OutboxGrows
<1> HIDE DEF Silent, Settled
\* Ending a job that has not ended.
<1>e. ASSUME NEW kind \in TerminalKinds, NEW by \in Nat, ~Terminal(job),
             \/ /\ job' = Terminalized(job, kind, by)
                /\ job.cancel_requested => kind \notin {"Succeeded", "Failed"}
             \/ /\ job' = [Terminalized(job, kind, by) EXCEPT !.cancel_requested = TRUE]
                /\ kind \notin {"Succeeded", "Failed"}
      PROVE  StepSafe
  <2> DEFINE e == NextEntry(job, TerminalDelivery, None, by)
  <2>1. e \in OutboxEntry
    BY <1>j, EntryType
  <2>2. CASE /\ job' = Terminalized(job, kind, by)
             /\ job.cancel_requested => kind \notin {"Succeeded", "Failed"}
    <3>1. /\ job'.outbox = Append(job.outbox, e)
          /\ job'.lifecycle_phase = kind
          /\ job'.current_fence = job.current_fence
          /\ job'.cancel_requested = job.cancel_requested
      BY <2>2, <1>j DEF Terminalized, StoredJob
    <3> HIDE DEF e
    <3> QED
      BY <1>e, <2>1, <2>2, <3>1, CommitStep
  <2>3. CASE /\ job' = [Terminalized(job, kind, by) EXCEPT !.cancel_requested = TRUE]
             /\ kind \notin {"Succeeded", "Failed"}
    <3>1. /\ job'.outbox = Append(job.outbox, e)
          /\ job'.lifecycle_phase = kind
          /\ job'.current_fence = job.current_fence
          /\ job'.cancel_requested = TRUE
      BY <2>3, <1>j DEF Terminalized, StoredJob
    <3> HIDE DEF e
    <3> QED
      BY <1>e, <2>1, <2>3, <3>1, CommitStep
  <2> QED
    BY <1>e, <2>2, <2>3
<1> USE DEF Terminal, TerminalKinds
<1>1. CASE Submit
  BY <1>1, <1>j, <1>s DEF Submit, SubmitQueued, StoredJob, Silent
<1>2. ASSUME NEW a \in Actors, Claim(a) PROVE StepSafe
  <2>1. PICK id \in AttemptIds, t \in Times, l \in Times : ClaimAttempt(job, job', id, t, l)
    BY <1>2 DEF Claim
  <2>2. /\ job'.lifecycle_phase = "Running"
        /\ job'.current_fence = job.current_fence + 1
        /\ job'.heartbeat_at_ms = t
        /\ job'.outbox = job.outbox
        /\ job'.cancel_requested = FALSE
    BY <1>j, <2>1 DEF ClaimAttempt, Claimed, StoredJob
  <2>3. job.current_fence > 0 => t > job.lease_expires_at_ms
    <3>1. job.lifecycle_phase = "Queued" => job.current_fence = 0
      BY DEF ControlInv, AttemptAccounting
    <3>2. job.lifecycle_phase = "RetryScheduled" =>
             t >= job.retry_due_at_ms /\ job.retry_due_at_ms > job.lease_expires_at_ms
      BY <2>1 DEF ClaimAttempt, ControlInv, LeaseDiscipline
    <3>3. t \in Nat /\ job.retry_due_at_ms \in Nat /\ job.lease_expires_at_ms \in Nat
      BY <1>j, <1>t DEF StoredJob
    <3> QED
      BY <2>1, <3>1, <3>2, <3>3 DEF ClaimAttempt
  <2>4. ~Terminal(job)
    BY <2>1 DEF ClaimAttempt
  <2> QED
    BY <1>j, <2>2, <2>3, <2>4 DEF StepSafe, OutboxGrows, OutcomeKept, LeasesApart,
                                  CancelWins, CancelInv
<1>3. ASSUME NEW a \in Actors, Rehydrate(a) PROVE StepSafe
  BY <1>3, <1>u, <1>d DEF Rehydrate
<1>4. ASSUME NEW a \in Actors, Renew(a) PROVE Silent
  BY <1>4, <1>j DEF Renew, RenewLease, StoredJob, Silent, Executing
<1>5. ASSUME NEW a \in Actors, Progress(a) PROVE Silent
  BY <1>5, <1>j DEF Progress, ReportProgress, StoredJob, Silent, LiveWriter, Executing
<1>6. ASSUME NEW a \in Actors, Checkpoint(a) PROVE Silent
  BY <1>6, <1>j DEF Checkpoint, RecordCheckpoint, StoredJob, Silent, LiveWriter, Executing
<1>7. ASSUME NEW a \in Actors, Wait(a) \/ Resume(a) PROVE Silent
  BY <1>7, <1>j, ZenonT(30) DEF Wait, Resume, WaitExternal, ResumeRunning, StoredJob, Silent
<1>8. ASSUME NEW a \in Actors, Notify(a) PROVE StepSafe
  <2>1. PICK n \in NoteIds, k \in Keys, t \in Times :
            EmitNotification(job, job', held[a], n, k, t)
    BY <1>8 DEF Notify
  <2> DEFINE e == NextEntry(job, n, k, held[a].fence)
  <2>2. e \in OutboxEntry
    BY <1>8, <1>j, <1>h, EntryType DEF Notify, Authority
  <2>3. CASE job' = [job EXCEPT !.delivery_sequence = job.delivery_sequence + 1,
                        !.notification_id_by_key[k] = n,
                        !.notification_sequences[n] = job.delivery_sequence + 1,
                        !.outbox = Append(job.outbox, NextEntry(job, n, k, held[a].fence))]
    <3>1. /\ job'.outbox = Append(job.outbox, e)
          /\ job'.lifecycle_phase = job.lifecycle_phase
          /\ job'.current_fence = job.current_fence
          /\ job'.cancel_requested = job.cancel_requested
      BY <1>j, <2>3 DEF StoredJob
    <3>2. job.lifecycle_phase \in {"Running", "WaitingExternal"}
      BY <2>1 DEF EmitNotification, LiveWriter, Executing
    <3> HIDE DEF e
    <3> QED
      BY <2>2, <3>1, <3>2, CommitStep
  <2> QED
    BY <2>1, <2>3, <1>u, <1>d DEF EmitNotification
<1>9. ASSUME NEW a \in Actors, Complete(a) \/ Fail(a) \/ AckCancel(a) PROVE StepSafe
  <2>1. PICK kind \in TerminalKinds :
          /\ job' = Terminalized(job, kind, held[a].fence)
          /\ Executing(job) /\ held[a] # None
          /\ job.cancel_requested => kind \notin {"Succeeded", "Failed"}
    BY <1>9 DEF Complete, Fail, AckCancel, CompleteAttempt, FailAttempt, FinishAttempt,
                AcknowledgeCancel, LiveWriter
  <2>2. held[a].fence \in Nat
    BY <1>h, <2>1 DEF Authority
  <2>3. ~Terminal(job)
    BY <2>1 DEF Executing
  <2> QED
    BY <2>1, <2>2, <2>3, <1>e
<1>10. ASSUME NEW a \in Actors, ObserveExpiry(a) PROVE Silent
  BY <1>10, <1>j DEF ObserveExpiry, LeaseExpired, StoredJob, Silent, Executing
<1>11. CASE Retry
  BY <1>11, <1>j, <1>s DEF Retry, ScheduleRetry, StoredJob, Silent
<1>12. CASE ClassifyLoss \/ NeedsAttention
  <2>1. PICK kind \in {"WorkerLost", "NeedsAttention"} : job' = Terminalized(job, kind, 0)
    BY <1>12 DEF ClassifyLoss, ClassifyWorkerLoss, NeedsAttention, MarkNeedsAttention
  <2>2. ~Terminal(job)
    BY <1>12 DEF ClassifyLoss, ClassifyWorkerLoss, NeedsAttention, MarkNeedsAttention
  <2> QED
    BY <2>1, <2>2, <1>e
<1>13. CASE Cancel
  <2>1. CASE Executing(job) /\ job' = [job EXCEPT !.cancel_requested = TRUE]
    BY <2>1, <1>j, <1>s DEF StoredJob, Silent, Executing
  <2>2. CASE job' = job
    BY <2>2, <1>u, <1>d
  <2>3. CASE /\ job.lifecycle_phase \in {"Queued", "RetryScheduled", "LossObserved"}
             /\ job' = [Terminalized(job, "Cancelled", 0) EXCEPT !.cancel_requested = TRUE]
    BY <2>3, <1>e
  <2> QED
    BY <2>1, <2>2, <2>3, <1>13 DEF Cancel, RequestCancel
<1>14. CASE AckDelivery
  <2>1. PICK s \in 1..Len(job.outbox) : MarkDeliveryApplied(job, job', s)
    BY <1>14 DEF AckDelivery
  <2>2. AttemptFieldsKept(job, job') /\ job'.lifecycle_phase = job.lifecycle_phase
    BY <1>j, <2>1, MarkFields
  <2>3. /\ Len(job'.outbox) = Len(job.outbox)
        /\ OutboxGrows
        /\ job'.terminal_result = job.terminal_result
        /\ job'.cancel_requested = job.cancel_requested
    BY <1>j, <2>1, MarkOutbox DEF OutboxGrows
  <2> QED
    BY <1>d, <2>2, <2>3 DEF Settled, AttemptFieldsKept
<1>15. CASE AddSubscription \/ RemoveSubscription
  <2>1. \E subs : job' = [job EXCEPT !.subscriptions = subs]
    BY <1>15, Zenon DEF AddSubscription, RemoveSubscription, Subscribe, Unsubscribe
  <2> QED
    BY <1>d, <1>j, <2>1 DEF StoredJob, Settled, OutboxGrows
<1>16. CASE UNCHANGED vars
  BY <1>16, <1>u, <1>d DEF vars
<1> QED
  BY <1>1, <1>2, <1>3, <1>4, <1>5, <1>6, <1>7, <1>8, <1>9, <1>10, <1>11, <1>12,
     <1>13, <1>14, <1>15, <1>16, <1>s DEF Next

\* CancelInv holds in every reachable state.
LEMMA CancelSafe == Spec => []CancelInv
<1>1. Init => CancelInv
  BY DEF Init, InitJob, CancelInv
<1>2. TypeOK /\ ControlInv /\ CancelInv /\ [Next]_vars => CancelInv'
  BY StepsAreSafe DEF StepSafe
<1> QED
  BY <1>1, <1>2, ControlSafe, PTL DEF Spec

\* No operation rewrites, drops or un-acknowledges a committed delivery.
THEOREM DeliveriesAreFacts == Spec => OutboxOnlyGrows
<1>1. TypeOK /\ ControlInv /\ CancelInv /\ [Next]_vars => [OutboxGrows]_job
  BY StepsAreSafe DEF StepSafe
<1>2. [][OutboxGrows]_job => OutboxOnlyGrows
  BY PTL DEF OutboxOnlyGrows, OutboxGrows
<1> QED
  BY <1>1, <1>2, CancelSafe, ControlSafe, PTL DEF Spec

\* No operation of a late worker, canceller, reconciler, projector or
\* subscriber changes the outcome of a job that ended.
THEOREM OutcomesAreFinal == Spec => TerminalOutcomeIsFinal
<1>1. TypeOK /\ ControlInv /\ CancelInv /\ [Next]_vars => [OutcomeKept]_job
  BY StepsAreSafe DEF StepSafe
<1>2. [][OutcomeKept]_job => TerminalOutcomeIsFinal
  BY PTL DEF TerminalOutcomeIsFinal, OutcomeKept
<1> QED
  BY <1>1, <1>2, CancelSafe, ControlSafe, PTL DEF Spec

\* Fences grow by one, and a later attempt starts after the lease of the
\* earlier one ran out: a claim follows a scheduled retry, whose due time lies
\* beyond the lease, whatever clocks the callers use.
THEOREM OneLeaseAtATime == Spec => LeasesNeverOverlap
<1>1. TypeOK /\ ControlInv /\ CancelInv /\ [Next]_vars => [LeasesApart]_job
  BY StepsAreSafe DEF StepSafe
<1>2. [][LeasesApart]_job => LeasesNeverOverlap
  BY PTL DEF LeasesNeverOverlap, LeasesApart
<1> QED
  BY <1>1, <1>2, CancelSafe, ControlSafe, PTL DEF Spec

\* Within an attempt an accepted cancellation request is never overtaken by
\* the attempt's own success or failure.
THEOREM CancelNotOvertaken == Spec => CancelBeatsOutcome
<1>1. TypeOK /\ ControlInv /\ CancelInv /\ [Next]_vars => [CancelWins]_job
  BY StepsAreSafe DEF StepSafe
<1>2. [][CancelWins]_job => CancelBeatsOutcome
  BY PTL DEF CancelBeatsOutcome, CancelWins
<1> QED
  BY <1>1, <1>2, CancelSafe, ControlSafe, PTL DEF Spec

-----------------------------------------------------------------------------
(***************************************************************************)
(* The compare-and-swap calls of the job service implement the atomic      *)
(* operations on a job. The inductive invariant is CasInv: a pending call  *)
(* has read a revision that is not ahead of the stored one, and if it is   *)
(* the stored one, the call holds the stored record. A swap that commits   *)
(* therefore works on the current record, and its step is the atomic       *)
(* operation.                                                              *)
(***************************************************************************)

\* What the induction needs of the types.
Numbered ==
    /\ revision \in Nat
    /\ call = [a \in Actors |-> call[a]]
    /\ \A a \in Actors : call[a] # None => call[a].expected_revision \in Nat

CasInv == Numbered /\ RevisionNamesRecord

\* The invariant holds before submission.
LEMMA CasInit == ServiceInit => CasInv
BY DEF ServiceInit, CasInv, Numbered, RevisionNamesRecord

\* After a committed swap every pending call is behind the revision.
LEMMA SwapKeeps ==
    ASSUME CasInv, NEW a \in Actors, call[a] # None, CompareAndSwap(a)
    PROVE  CasInv'
<1>1. Numbered'
  BY DEF CasInv, Numbered, CompareAndSwap
<1>2. \A b \in Actors : call'[b] # None => call'[b].expected_revision < revision'
  BY DEF CasInv, Numbered, RevisionNamesRecord, CompareAndSwap
<1> QED
  BY <1>1, <1>2 DEF CasInv, Numbered, RevisionNamesRecord

\* Every step keeps the invariant.
LEMMA CasNext == CasInv /\ [ServiceNext]_serviceVars => CasInv'
<1> SUFFICES ASSUME CasInv, [ServiceNext]_serviceVars
             PROVE  CasInv'
  OBVIOUS
<1>1. CASE Insert
  BY <1>1 DEF Insert, CasInv, Numbered, RevisionNamesRecord
<1>2. ASSUME NEW a \in Actors, Read(a) PROVE CasInv'
  BY <1>2 DEF Read, CasInv, Numbered, RevisionNamesRecord
<1>3. ASSUME NEW a \in Actors, EndCall(a) PROVE CasInv'
  BY <1>3 DEF EndCall, CasInv, Numbered, RevisionNamesRecord
<1>4. ASSUME NEW a \in Actors, ClaimCall(a) \/ WriterCall(a) \/ HostCall(a) PROVE CasInv'
  BY <1>4, SwapKeeps DEF ClaimCall, WriterCall, HostCall
<1>5. CASE UNCHANGED serviceVars
  BY <1>5 DEF serviceVars, CasInv, Numbered, RevisionNamesRecord
<1> QED
  BY <1>1, <1>2, <1>3, <1>4, <1>5 DEF ServiceNext

\* The invariant holds in every reachable state.
LEMMA CasSafe == ServiceSpec => []CasInv
BY CasInit, CasNext, PTL DEF ServiceSpec

\* A pending call whose expected revision is still current holds the record
\* as it is stored, for any number of processes.
THEOREM RevisionIsIdentity == ServiceSpec => []RevisionNamesRecord
<1>1. CasInv => RevisionNamesRecord
  BY DEF CasInv
<1> QED
  BY <1>1, CasSafe, PTL

-----------------------------------------------------------------------------

\* A swap that commits works on the job as it stands.
LEMMA SwapReadsCurrent ==
    ASSUME CasInv, NEW a \in Actors, call[a] # None, CompareAndSwap(a)
    PROVE  call[a].read = job
BY DEF CasInv, RevisionNamesRecord, CompareAndSwap

\* Every step of the service is a step of the atomic job or leaves it alone.
LEMMA StepRefines == CasInv /\ [ServiceNext]_serviceVars => [Next]_vars
<1> SUFFICES ASSUME CasInv, ServiceNext
             PROVE  Next \/ UNCHANGED <<job, held>>
  BY DEF vars, serviceVars
<1>1. CASE Insert
  BY <1>1 DEF Insert, Next
<1>2. ASSUME NEW a \in Actors, Read(a) PROVE Rehydrate(a) \/ UNCHANGED <<job, held>>
  BY <1>2 DEF Read, Rehydrate
<1>3. ASSUME NEW a \in Actors, EndCall(a) PROVE UNCHANGED <<job, held>>
  BY <1>3 DEF EndCall
<1>4. ASSUME NEW a \in Actors, ClaimCall(a) PROVE Claim(a)
  <2>1. call[a].read = job
    BY <1>4, SwapReadsCurrent DEF ClaimCall
  <2> QED
    BY <1>4, <2>1 DEF ClaimCall, Claim
<1>5. ASSUME NEW a \in Actors, WriterCall(a) PROVE Next
  <2>1. call[a].read = job
    BY <1>5, SwapReadsCurrent DEF WriterCall
  <2> QED
    BY <1>5, <2>1 DEF WriterCall, Next, Renew, ObserveExpiry, Progress, Checkpoint, Wait,
                      Resume, Notify, AckCancel, Complete, Fail
<1>6. ASSUME NEW a \in Actors, HostCall(a) PROVE Next
  <2>1. call[a].read = job
    BY <1>6, SwapReadsCurrent DEF HostCall
  <2> QED
    BY <1>6, <2>1 DEF HostCall, Next, Retry, ClassifyLoss, NeedsAttention, Cancel, AckDelivery,
                      AddSubscription, RemoveSubscription
<1> QED
  BY <1>1, <1>2, <1>3, <1>4, <1>5, <1>6 DEF ServiceNext, Next

\* The read / compare-and-swap calls of any number of processes, interleaved
\* in any order, implement the atomic operations: what is proved of
\* DetachedJob holds of the service.
THEOREM ServiceIsAtomic == ServiceSpec => CallsAreAtomic
<1>1. ServiceInit => Init
  BY DEF ServiceInit
<1> QED
  BY <1>1, CasSafe, StepRefines, PTL DEF ServiceSpec, CallsAreAtomic, Spec

-----------------------------------------------------------------------------
(***************************************************************************)
(* The recovery pass of the shell manager keeps a cancellation that was    *)
(* accepted and a checkpoint that was recorded.  A claim clears the        *)
(* request, so a job that waits for a claim may carry one only if the      *)
(* operator put it there (CancelledIsNotWaiting); and the pass decides a   *)
(* loss from a listing, so the loss it listed must still be the job, or    *)
(* the job must have ended or been retried by the operator                 *)
(* (LossStandsStill): the recovery lock admits one pass.                   *)
(***************************************************************************)

CONSTANTS LeaseTime, MaxFailures

VARIABLES now, worker, overruled, failures, pass

Shell == INSTANCE ShellRecovery

\* What the induction needs of the type of the record.
Recorded ==
    {"lifecycle_phase", "restart_class", "checkpoint_ref", "cancel_requested"} \subseteq DOMAIN job

CancelledIsNotWaiting ==
    job.cancel_requested
        => \/ job.lifecycle_phase \notin {"Unsubmitted", "Queued", "RetryScheduled"}
           \/ job.lifecycle_phase = "RetryScheduled" /\ overruled

\* A loss the pass is about to decide is the job's, or the job has ended or
\* its retry was scheduled.
LossStandsStill ==
    Shell!At("decide") /\ pass.seen.lifecycle_phase = "LossObserved"
        => job = pass.seen \/ Terminal(job) \/ job.lifecycle_phase = "RetryScheduled"

ShellInv ==
    /\ Recorded
    /\ pass # None => {"at", "seen"} \subseteq DOMAIN pass
    /\ CancelledIsNotWaiting
    /\ LossStandsStill

\* What a step of the recovery contract may do to the record.
ContractKept ==
    /\ job.cancel_requested => job'.cancel_requested \/ overruled
    /\ /\ job.restart_class = "CheckpointResumable"
       /\ job.lifecycle_phase = "LossObserved"
       /\ job'.lifecycle_phase = "NeedsAttention"
       => job.checkpoint_ref = 0

\* The invariant holds when nothing was submitted.
LEMMA ShellInit == Shell!Init => ShellInv
BY DEF Shell!Init, Shell!HostInit, Shell!InitJob, Shell!At, ShellInv, Recorded,
       CancelledIsNotWaiting, LossStandsStill

\* The calls of the client, the operator and the worker: an observed loss is
\* left as it is, ends or is retried, and no cancellation is taken back.
LEMMA HostCallKeeps ==
    ASSUME Recorded, CancelledIsNotWaiting, Shell!HostNext
    PROVE  /\ Recorded'
           /\ CancelledIsNotWaiting'
           /\ ContractKept
           /\ job.lifecycle_phase \in {"LossObserved", "RetryScheduled"} \/ Terminal(job)
                => job' = job \/ Terminal(job') \/ job'.lifecycle_phase = "RetryScheduled"
<1> USE DEF Recorded, CancelledIsNotWaiting, ContractKept, Terminal, TerminalKinds
<1>1. CASE Shell!Tick \/ Shell!WorkerDies
  BY <1>1 DEF Shell!Tick, Shell!WorkerDies
<1>2. CASE Shell!Submit
  BY <1>2 DEF Shell!Submit, Shell!SubmitQueued
<1>3. CASE Shell!Cancel
  <2>1. overruled' = overruled
    BY <1>3 DEF Shell!Cancel
  <2>2. CASE job' = job
    BY <2>1, <2>2
  <2>3. CASE Shell!Executing(job) /\ job' = [job EXCEPT !.cancel_requested = TRUE]
    BY <2>3 DEF Shell!Executing
  <2>4. CASE job' = [Shell!Terminalized(job, "Cancelled", 0) EXCEPT !.cancel_requested = TRUE]
    BY <2>4 DEF Shell!Terminalized
  <2> QED
    BY <1>3, <2>2, <2>3, <2>4 DEF Shell!Cancel, Shell!RequestCancel
<1>4. CASE Shell!Heartbeat
  BY <1>4 DEF Shell!Heartbeat, Shell!RenewLease, Shell!Executing
<1>5. CASE Shell!Checkpoint
  BY <1>5 DEF Shell!Checkpoint, Shell!RecordCheckpoint, Shell!LiveWriter, Shell!Executing
<1>6. CASE Shell!Settle
  BY <1>6 DEF Shell!Settle, Shell!CompleteAttempt, Shell!FailAttempt, Shell!FinishAttempt,
              Shell!AcknowledgeCancel, Shell!LiveWriter, Shell!Executing, Shell!Terminalized
<1>7. CASE Shell!OperatorRetry
  BY <1>7 DEF Shell!OperatorRetry, Shell!ScheduleRetry
<1> QED
  BY <1>1, <1>2, <1>3, <1>4, <1>5, <1>6, <1>7 DEF Shell!HostNext

\* A claim starts a job that waits, whose record carries no cancellation the
\* operator did not overrule.
LEMMA ClaimKeeps ==
    ASSUME Recorded, CancelledIsNotWaiting, NEW id, Shell!ClaimNow(id)
    PROVE  /\ Recorded'
           /\ CancelledIsNotWaiting'
           /\ ContractKept
           /\ job.lifecycle_phase \in {"Queued", "RetryScheduled"}
BY DEF Recorded, CancelledIsNotWaiting, ContractKept, Shell!ClaimNow, Shell!ClaimAttempt,
       Shell!Claimed

\* The pass decides the loss it listed by what the record says now.
LEMMA DecisionKeeps ==
    ASSUME ShellInv, Shell!Decide
    PROVE  Recorded' /\ CancelledIsNotWaiting' /\ ContractKept
<1> USE DEF Recorded, CancelledIsNotWaiting, ContractKept
<1>1. CASE UNCHANGED job
  BY <1>1 DEF ShellInv, Shell!Decide
<1>2. CASE /\ pass.seen.lifecycle_phase = "LossObserved"
           /\ Shell!DecideLoss(pass.seen)
  <2>1. job = pass.seen \/ Terminal(job) \/ job.lifecycle_phase = "RetryScheduled"
    BY <1>2 DEF ShellInv, LossStandsStill, Shell!Decide
  <2>2. CASE Terminal(job)
    BY <1>2, <2>2 DEF ShellInv, Terminal, TerminalKinds, Shell!DecideLoss, Shell!RequestCancel,
                      Shell!Executing, Shell!ScheduleRetry, Shell!MarkNeedsAttention,
                      Shell!ClassifyWorkerLoss
  <2>3. CASE job = pass.seen
    BY <1>2, <2>3 DEF ShellInv, Shell!DecideLoss, Shell!RequestCancel, Shell!Executing,
                      Shell!ScheduleRetry, Shell!MarkNeedsAttention, Shell!ClassifyWorkerLoss,
                      Shell!Terminalized
  <2>4. CASE job.lifecycle_phase = "RetryScheduled"
    <3>1. \/ job' = [Shell!Terminalized(job, "Cancelled", 0) EXCEPT !.cancel_requested = TRUE]
          \/ job' = Shell!Terminalized(job, "NeedsAttention", 0)
          \/ job' = job
      BY <1>2, <2>4 DEF ShellInv, Shell!DecideLoss, Shell!RequestCancel, Shell!Executing,
                        Shell!ScheduleRetry, Shell!MarkNeedsAttention, Shell!ClassifyWorkerLoss
    <3>2. CASE job' = [Shell!Terminalized(job, "Cancelled", 0) EXCEPT !.cancel_requested = TRUE]
      BY <2>4, <3>2 DEF ShellInv, Shell!Terminalized
    <3>3. CASE job' = Shell!Terminalized(job, "NeedsAttention", 0)
      BY <2>4, <3>3 DEF ShellInv, Shell!Terminalized
    <3> QED
      BY <1>1, <3>1, <3>2, <3>3
  <2> QED
    BY <2>1, <2>2, <2>3, <2>4
<1> QED
  BY <1>1, <1>2 DEF Shell!Decide

\* Every step keeps the invariant and the recovery contract.
LEMMA ShellNext ==
    ShellInv /\ [Shell!Next]_(Shell!vars) => ShellInv' /\ (ContractKept \/ UNCHANGED job)
<1> SUFFICES ASSUME ShellInv, [Shell!Next]_(Shell!vars)
             PROVE  ShellInv' /\ (ContractKept \/ UNCHANGED job)
  OBVIOUS
<1>1. CASE Shell!HostNext /\ UNCHANGED pass
  BY <1>1, HostCallKeeps DEF ShellInv, LossStandsStill, Shell!At
<1>2. CASE Shell!BeginPass \/ Shell!LoseRace \/ Shell!AbortPass \/ Shell!Crash
  BY <1>2 DEF Shell!BeginPass, Shell!LoseRace, Shell!AbortPass, Shell!Crash, Shell!hostVars,
              ShellInv, Recorded, CancelledIsNotWaiting, LossStandsStill, Shell!At
<1>3. CASE Shell!ObserveExpired
  <2>1. (pass # None => {"at", "seen"} \subseteq DOMAIN pass)' /\ ~Shell!At("decide")'
    BY <1>3 DEF ShellInv, Shell!ObserveExpired, Shell!Goto, Shell!At
  <2>2. CASE UNCHANGED job
    <3>1. overruled' = overruled
      BY <1>3 DEF Shell!ObserveExpired
    <3> QED
      BY <2>1, <2>2, <3>1 DEF ShellInv, Recorded, CancelledIsNotWaiting, LossStandsStill
  <2>3. CASE job' = [job EXCEPT !.lifecycle_phase = "LossObserved", !.lease_expired = TRUE]
    <3>1. /\ job'.lifecycle_phase = "LossObserved"
          /\ job'.cancel_requested = job.cancel_requested
          /\ Recorded'
      BY <2>3 DEF ShellInv, Recorded
    <3> QED
      BY <2>1, <3>1 DEF ShellInv, CancelledIsNotWaiting, LossStandsStill, ContractKept
  <2> QED
    BY <1>3, <2>2, <2>3 DEF Shell!ObserveExpired, Shell!LeaseExpired
<1>4. CASE Shell!Relist
  <2>1. job' = job /\ overruled' = overruled /\ (pass # None => {"at", "seen"} \subseteq DOMAIN pass)'
    BY <1>4 DEF Shell!Relist, Shell!hostVars, ShellInv, Shell!At
  <2>2. Shell!At("decide")' => pass'.seen = job
    BY <1>4 DEF Shell!Relist, ShellInv, Shell!At
  <2> QED
    BY <2>1, <2>2 DEF ShellInv, Recorded, CancelledIsNotWaiting, LossStandsStill
<1>5. CASE Shell!Decide
  <2>1. (pass # None => {"at", "seen"} \subseteq DOMAIN pass)' /\ ~Shell!At("decide")'
    BY <1>5 DEF ShellInv, Shell!Decide, Shell!Goto, Shell!At
  <2> QED
    BY <1>5, <2>1, DecisionKeeps DEF ShellInv, LossStandsStill
<1>6. CASE Shell!Restart
  BY <1>6, ClaimKeeps DEF Shell!Restart, ShellInv, Recorded, CancelledIsNotWaiting,
                          LossStandsStill, Shell!At
<1>7. CASE Shell!Launch
  BY <1>7, ClaimKeeps DEF Shell!Launch, ShellInv, LossStandsStill, Shell!At, Terminal, TerminalKinds
<1>8. CASE UNCHANGED Shell!vars
  BY <1>8 DEF Shell!vars, Shell!hostVars, ShellInv, Recorded, CancelledIsNotWaiting,
              LossStandsStill, Shell!At
<1> QED
  BY <1>1, <1>2, <1>3, <1>4, <1>5, <1>6, <1>7, <1>8 DEF Shell!Next, Shell!PassNext

\* The invariant holds in every reachable state of the shell manager.
LEMMA ShellSafe == Shell!Spec => []ShellInv
BY ShellInit, ShellNext, PTL DEF Shell!Spec

\* No step of the client, the worker, the recovery pass or a crash takes back
\* a cancellation that was accepted (reconcile_recovered_jobs decides it
\* before it looks at the restart class); only the claim of a retry that the
\* operator scheduled by jobs/retry clears one.
THEOREM ShellKeepsCancellation == Shell!Spec => Shell!CancellationIntentSurvives
<1>1. ShellInv /\ [Shell!Next]_(Shell!vars)
        => [job.cancel_requested => job'.cancel_requested \/ overruled]_job
  BY ShellNext DEF ContractKept
<1> QED
  BY <1>1, ShellSafe, PTL DEF Shell!Spec, Shell!CancellationIntentSurvives

\* A checkpoint-resumable job whose loss was observed is handed to a human
\* only if no checkpoint was recorded, although the pass decides from a
\* listing it took before.
THEOREM ShellSeesCheckpoint == Shell!Spec => Shell!CheckpointNotOverlooked
<1>1. ShellInv /\ [Shell!Next]_(Shell!vars)
        => [/\ job.restart_class = "CheckpointResumable"
            /\ job.lifecycle_phase = "LossObserved"
            /\ job'.lifecycle_phase = "NeedsAttention"
            => job.checkpoint_ref = 0]_job
  BY ShellNext DEF ContractKept
<1> QED
  BY <1>1, ShellSafe, PTL DEF Shell!Spec, Shell!CheckpointNotOverlooked
=============================================================================
