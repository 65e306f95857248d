----------------------------- MODULE JobService -----------------------------
(***************************************************************************)
(* DetachedJobService over a DetachedJobStore, with the job and the held    *)
(* authorities of DetachedJob, whose operations are atomic.  Here a call    *)
(* reads the stored job, applies one machine input to its private copy, and *)
(* asks the store to replace the record if its revision is still the one    *)
(* that was read.                                                           *)
(* Reads and swaps of different actors interleave freely; a process may     *)
(* stop between the two.                                                    *)
(*                                                                          *)
(* A pending call is the copy it works on.  Which operation it is, and with *)
(* what arguments, is chosen when it writes: nothing reads them before.     *)
(* Loops that re-read after a lost swap (request_cancel, subscribe,         *)
(* mark_delivery_applied) are a new read by the same actor.                 *)
(***************************************************************************)
EXTENDS DetachedJob

CONSTANT MaxRevision    \* bound: the number of committed writes

ASSUME RevisionAssumption == MaxRevision \in Nat

VARIABLES
    revision,       \* the revision of the stored job; 0 until it is inserted
    call            \* the record a pending call read, or None

serviceVars == <<job, revision, held, call>>

Call == [read : StoredJob, expected_revision : Nat]

ServiceTypeOK ==
    /\ TypeOK
    /\ revision \in Nat
    /\ call \in [Actors -> Call \cup {None}]

ServiceInit ==
    /\ Init
    /\ revision = 0
    /\ call = [a \in Actors |-> None]

-----------------------------------------------------------------------------

\* insert_deduplicated: one job per submission key, whoever submits first.
Insert ==
    /\ revision = 0
    /\ Submit
    /\ revision' = 1
    /\ UNCHANGED call

\* required: a call starts by reading the stored job and its revision.  A
\* restarted host or a reconciler also takes the authority the record names.
Read(a) ==
    /\ revision > 0
    /\ call[a] = None
    /\ call' = [call EXCEPT ![a] = [read |-> job, expected_revision |-> revision]]
    /\ \/ UNCHANGED held
       \/ /\ job.current_attempt_id # None
          /\ held' = [held EXCEPT ![a] = [attempt_id |-> job.current_attempt_id,
                                          fence |-> job.current_fence]]
    /\ UNCHANGED <<job, revision>>

\* The call ends without a write: the machine refused the input, the input
\* changed nothing, the swap lost, or the process stopped.
EndCall(a) ==
    /\ call[a] # None
    /\ call' = [call EXCEPT ![a] = None]
    /\ UNCHANGED <<job, revision, held>>

\* Mutant: the expected revision is not compared.
CompareAndSwapUnchecked(a) ==
    /\ revision < MaxRevision
    /\ revision' = revision + 1
    /\ call' = [call EXCEPT ![a] = None]

\* compare_and_swap: the replacement is written only over the revision that
\* was read.
CompareAndSwap(a) ==
    /\ call[a].expected_revision = revision
    /\ revision < MaxRevision
    /\ revision' = revision + 1
    /\ call' = [call EXCEPT ![a] = None]

ClaimCall(a) ==
    /\ call[a] # None
    /\ \E id \in AttemptIds, t, l \in Times :
          /\ call[a].read.attempt_count < MaxAttempts
          /\ ClaimAttempt(call[a].read, job', id, t, l)
          /\ \/ held' = [held EXCEPT ![a] =
                            [attempt_id |-> id,
                             fence |-> call[a].read.current_fence + 1]]
             \/ UNCHANGED held
    /\ CompareAndSwap(a)

\* A call of the actor that presents the authority it holds.
WriterCall(a) ==
    /\ call[a] # None
    /\ held[a] # None
    /\ LET j == call[a].read
           w == held[a]
       IN  \/ \E h, l \in Times : RenewLease(j, job', w, h, l)
           \/ \E c \in 1..MaxCursor, t \in Times :
                  ReportProgress(j, job', w, c, t)
           \/ \E t \in Times : RecordCheckpoint(j, job', w, t)
           \/ \E t \in Times : WaitExternal(j, job', w, t)
           \/ \E t \in Times : ResumeRunning(j, job', w, t)
           \/ \E n \in NoteIds, k \in Keys, t \in Times :
                  EmitNotification(j, job', w, n, k, t)
           \/ \E t \in Times : CompleteAttempt(j, job', w, t)
           \/ \E t \in Times : FailAttempt(j, job', w, t)
           \/ \E t \in Times : AcknowledgeCancel(j, job', w, t)
           \/ \E t \in Times : LeaseExpired(j, job', w, t)
    /\ job' # call[a].read
    /\ CompareAndSwap(a)
    /\ UNCHANGED held

\* A call that needs no attempt authority.
HostCall(a) ==
    /\ call[a] # None
    /\ LET j == call[a].read
       IN  \/ \E due \in Times : ScheduleRetry(j, job', due)
           \/ \E t \in Times : ClassifyWorkerLoss(j, job', t)
           \/ \E t \in Times : MarkNeedsAttention(j, job', t)
           \/ RequestCancel(j, job')
           \/ \E s \in 1..Len(j.outbox) : MarkDeliveryApplied(j, job', s)
           \/ \E s \in Subs : Subscribe(j, job', s)
           \/ \E s \in Subs : Unsubscribe(j, job', s)
    /\ job' # call[a].read
    /\ CompareAndSwap(a)
    /\ UNCHANGED held

ServiceNext ==
    \/ Insert
    \/ \E a \in Actors :
          \/ Read(a)
          \/ EndCall(a)
          \/ ClaimCall(a)
          \/ WriterCall(a)
          \/ HostCall(a)

ServiceSpec == ServiceInit /\ [][ServiceNext]_serviceVars

-----------------------------------------------------------------------------

\* A revision names one record: a call that may still swap works on the job
\* as it is stored now, whatever the other actors did since it read.
RevisionNamesRecord ==
    \A a \in Actors :
        call[a] # None =>
            /\ call[a].expected_revision <= revision
            /\ call[a].expected_revision = revision => call[a].read = job

\* The interleaved reads and swaps implement the atomic operations: every
\* committed swap is one operation on the job as it stood at the commit.
CallsAreAtomic == Spec

=============================================================================
