--------------------------- MODULE JobProjection ---------------------------
(***************************************************************************)
(* The way of one job's deliveries from its outbox into the inbox of its   *)
(* runtime.  The delivery owners of several processes project every pending *)
(* entry they list; the shell projects the entries of its own job.  Each    *)
(* entry takes three calls (read the job again, submit to the inbox, mark   *)
(* it applied on the job), other projectors run in between, and processes   *)
(* stop anywhere.                                                           *)
(*                                                                          *)
(* Inbox calls are single steps (see DeliveryInbox); so is the swap of      *)
(* mark_delivery_applied, which gives up after too many conflicts.          *)
(***************************************************************************)
EXTENDS RuntimeDeliveryMachine, Sequences

CONSTANTS
    Hosts,          \* processes with a delivery owner
    Shells,         \* the processes whose shell projects the job
    MaxGap,         \* PROJECTION_RETRY_MAX_WAKES
    MaxFaults       \* bound: stopped processes, lost signals and failed calls

ASSUME ProjectionAssumption ==
    /\ IsFiniteSet(DeliveryIds) /\ DeliveryIds = 1..Cardinality(DeliveryIds)
    /\ Shells \subseteq Hosts
    /\ MaxGap \in Nat \ {0}
    /\ MaxFaults \in Nat

VARIABLES
    outbox,             \* the job's entries: terminal? applied?
    producer_applied,   \* the terminal's effect is its producer's to apply
    authority,          \* the inbox of the job's runtime
    executed,           \* rows whose sink the applier ran
    owner,              \* each process's wakes and retry schedule
    projector,          \* the projectors' progress
    faults

vars == <<outbox, producer_applied, authority, executed, owner, projector, faults>>

Entry == [terminal : BOOLEAN, applied : BOOLEAN]

Projectors == {<<"owner", h>> : h \in Hosts} \cup {<<"shell", h>> : h \in Shells}

Host(x) == x[2]

\* job_commit and reconcile are signals; wakes_left is 0 when no retry is owed.
Owner == [job_commit : BOOLEAN, reconcile : BOOLEAN, retry_due : BOOLEAN,
          wakes_left : Nat, failures : Nat]

ArmedOwner == [job_commit |-> FALSE, reconcile |-> TRUE, retry_due |-> FALSE,
               wakes_left |-> 0, failures |-> 0]

\* Listed entries are projected in the order of the outbox.
Projector == [at : {"idle", "list", "prepare", "submit", "mark", "acknowledge"},
              todo : SUBSET DeliveryIds, projected : BOOLEAN, skipped : BOOLEAN]

Idle == [at |-> "idle", todo |-> {}, projected |-> FALSE, skipped |-> FALSE]

TypeOK ==
    /\ outbox \in Seq(Entry)
    /\ producer_applied \in BOOLEAN
    /\ authority \in DeliveryAuthority
    /\ executed \in SUBSET DeliveryIds
    /\ owner \in [Hosts -> Owner]
    /\ projector \in [Projectors -> Projector]
    /\ faults \in Nat

Init ==
    /\ outbox = <<>>
    /\ producer_applied \in BOOLEAN
    /\ authority = EmptyAuthority
    /\ executed = {}
    /\ owner = [h \in Hosts |-> ArmedOwner]
    /\ projector = [x \in Projectors |-> Idle]
    /\ faults = 0

Finished == outbox # <<>> /\ outbox[Len(outbox)].terminal

Fault == faults < MaxFaults /\ faults' = faults + 1

-----------------------------------------------------------------------------

\* The job commits an entry; afterwards the process raises its commit signal.
CommitEntry(h, terminal) ==
    /\ ~Finished
    /\ Len(outbox) < Cardinality(DeliveryIds)
    /\ outbox' = Append(outbox, [terminal |-> terminal, applied |-> FALSE])
    /\ owner' = [owner EXCEPT ![h].job_commit = TRUE]
    /\ UNCHANGED <<producer_applied, authority, executed, projector, faults>>

Stopped(h) == [x \in Projectors |-> IF Host(x) = h THEN Idle ELSE projector[x]]

\* The process stops and starts again: its owner is armed with a reconcile.
Crash(h) ==
    /\ Fault
    /\ owner' = [owner EXCEPT ![h] = ArmedOwner]
    /\ projector' = Stopped(h)
    /\ UNCHANGED <<outbox, producer_applied, authority, executed>>

\* The process stops between the commit and the signal.
CommitUnsignalled(h, terminal) ==
    /\ ~Finished
    /\ Len(outbox) < Cardinality(DeliveryIds)
    /\ Fault
    /\ outbox' = Append(outbox, [terminal |-> terminal, applied |-> FALSE])
    /\ owner' = [owner EXCEPT ![h] = ArmedOwner]
    /\ projector' = Stopped(h)
    /\ UNCHANGED <<producer_applied, authority, executed>>

\* due_on_wake: a wake of the process counts the owed retry down.
Wake(h) ==
    /\ projector[<<"owner", h>>].at = "idle"
    /\ owner[h].wakes_left > 0
    /\ owner' = [owner EXCEPT ![h].wakes_left = @ - 1,
                              ![h].retry_due = owner[h].wakes_left = 1]
    /\ UNCHANGED <<outbox, producer_applied, authority, executed, projector, faults>>

\* The applier runs the sink of the first row, unless it is acknowledged.
Apply(id) ==
    /\ Committed(authority, id)
    /\ AtCursor(authority, id)
    /\ ~Acknowledged(authority, id)
    /\ executed' = executed \cup {id}
    /\ MarkDeliveryApplied(authority, authority', id)
    /\ UNCHANGED <<outbox, producer_applied, owner, projector, faults>>

-----------------------------------------------------------------------------

\* A pass of the owner projects on a commit, a reconcile or a due retry; the
\* wake that starts it counts too.
BeginPass(h) ==
    LET x == <<"owner", h>>
    IN  /\ projector[x].at = "idle"
        /\ owner[h].job_commit \/ owner[h].reconcile \/ owner[h].retry_due
        /\ owner' = [owner EXCEPT ![h].job_commit = FALSE, ![h].reconcile = FALSE,
                                  ![h].retry_due = FALSE,
                                  ![h].wakes_left = IF @ > 0 THEN @ - 1 ELSE 0]
        /\ projector' = [projector EXCEPT ![x].at = "list"]
        /\ UNCHANGED <<outbox, producer_applied, authority, executed, faults>>

\* The shell projects its finished job, when it completes and on recovery.
BeginShell(h) ==
    LET x == <<"shell", h>>
    IN  /\ projector[x].at = "idle"
        /\ producer_applied
        /\ Finished
        /\ \E i \in 1..Len(outbox) : ~outbox[i].applied
        /\ projector' = [projector EXCEPT ![x].at = "list"]
        /\ UNCHANGED <<outbox, producer_applied, authority, executed, owner, faults>>

\* ProjectionRetry::failed
Gap(failures) == IF 2 ^ failures < MaxGap THEN 2 ^ failures ELSE MaxGap

\* Mutant: a failed projection waits for the next commit.
ScheduledNever(o, skipped) == [o EXCEPT !.wakes_left = 0, !.failures = 0]

Scheduled(o, skipped) ==
    IF skipped
    THEN [o EXCEPT !.wakes_left = Gap(o.failures), !.failures = @ + 1]
    ELSE [o EXCEPT !.wakes_left = 0, !.failures = 0]

PendingEntries == {i \in 1..Len(outbox) : ~outbox[i].applied}

\* The owner lists every pending entry; a pass ends when none was projected.
ListPending(h) ==
    LET x == <<"owner", h>>
    IN  /\ projector[x].at = "list"
        /\ projector' = [projector EXCEPT ![x].at = "prepare",
                                          ![x].todo = PendingEntries,
                                          ![x].projected = FALSE]
        /\ UNCHANGED <<outbox, producer_applied, authority, executed, owner, faults>>

\* The outbox cannot be read: the reconcile is owed to the next wake.
ListFails(h) ==
    LET x == <<"owner", h>>
    IN  /\ projector[x].at = "list"
        /\ Fault
        /\ projector' = [projector EXCEPT ![x] = Idle]
        /\ owner' = [owner EXCEPT ![h].reconcile = TRUE]
        /\ UNCHANGED <<outbox, producer_applied, authority, executed>>

PageDone(h) ==
    LET x == <<"owner", h>>
    IN  /\ projector[x].at = "prepare"
        /\ projector[x].todo = {}
        /\ IF projector[x].projected
           THEN /\ projector' = [projector EXCEPT ![x].at = "list"]
                /\ UNCHANGED owner
           ELSE /\ projector' = [projector EXCEPT ![x] = Idle]
                /\ owner' = [owner EXCEPT ![h] = Scheduled(@, projector[x].skipped)]
        /\ UNCHANGED <<outbox, producer_applied, authority, executed, faults>>

\* The shell projects the first pending entry of the job; when there is none the
\* terminal's own effect is projected and acknowledged.
FirstPending(h) ==
    LET x == <<"shell", h>>
    IN  /\ projector[x].at = "list"
        /\ projector' = [projector EXCEPT ![x] =
               IF PendingEntries = {}
               THEN [Idle EXCEPT !.at = "acknowledge"]
               ELSE [Idle EXCEPT !.at = "prepare", !.todo = PendingEntries]]
        /\ UNCHANGED <<outbox, producer_applied, authority, executed, owner, faults>>

\* acknowledge_applied: acknowledge the terminal's row if it is still pending.
AcknowledgeApplied(h) ==
    LET x == <<"shell", h>>
        id == Len(outbox)
    IN  /\ projector[x].at = "acknowledge"
        /\ IF Committed(authority, id) /\ ~Passed(authority, id)
           THEN AcknowledgeDelivery(authority, authority', id)
           ELSE UNCHANGED authority
        /\ projector' = [projector EXCEPT ![x] = Idle]
        /\ UNCHANGED <<outbox, producer_applied, executed, owner, faults>>

-----------------------------------------------------------------------------

\* The entry the projector is at: the first of its list.
Current(x, id) ==
    id \in projector[x].todo /\ \A i \in projector[x].todo : id <= i

\* After an entry: the owner goes on with its list, the shell reads the job.
Advance(p, x, id) ==
    IF x[1] = "owner"
    THEN [p EXCEPT !.at = "prepare", !.todo = @ \ {id}]
    ELSE [Idle EXCEPT !.at = "list"]

\* Mutant: a failed entry does not hold its job back.
FailPassing(x) ==
    \E id \in DeliveryIds :
        /\ Current(x, id)
        /\ projector' = [projector EXCEPT ![x] = [Advance(@, x, id) EXCEPT !.skipped = TRUE]]

\* A failed entry holds the rest of the job back; the shell's call fails.
Fail(x) ==
    projector' = [projector EXCEPT ![x] =
        IF x[1] = "owner"
        THEN [@ EXCEPT !.at = "prepare", !.todo = {}, !.skipped = TRUE]
        ELSE Idle]

\* prepare_revalidated reads the job again: an entry another projector has
\* acknowledged is passed over.
Prepare(x, id) ==
    /\ projector[x].at = "prepare"
    /\ Current(x, id)
    /\ projector' = [projector EXCEPT ![x] =
           IF outbox[id].applied THEN Advance(@, x, id) ELSE [@ EXCEPT !.at = "submit"]]
    /\ UNCHANGED <<outbox, producer_applied, authority, executed, owner, faults>>

\* Mutant: only the shell commits its terminal acknowledged.
SubmitByProjector(x, id) ==
    /\ projector[x].at = "submit"
    /\ Current(x, id)
    /\ IF /\ outbox[id].terminal /\ producer_applied /\ x[1] = "shell"
          /\ ~Committed(authority, id)
       THEN AcknowledgeDelivery(CommittedNew(authority, id, id), authority', id)
       ELSE CommitDelivery(authority, authority', id, id)
    /\ projector' = [projector EXCEPT ![x].at = "mark"]
    /\ UNCHANGED <<outbox, producer_applied, executed, owner, faults>>

\* The row of a producer-applied terminal is committed already acknowledged; a
\* repeat finds the committed row.
Submit(x, id) ==
    /\ projector[x].at = "submit"
    /\ Current(x, id)
    /\ IF outbox[id].terminal /\ producer_applied /\ ~Committed(authority, id)
       THEN AcknowledgeDelivery(CommittedNew(authority, id, id), authority', id)
       ELSE CommitDelivery(authority, authority', id, id)
    /\ projector' = [projector EXCEPT ![x].at = "mark"]
    /\ UNCHANGED <<outbox, producer_applied, executed, owner, faults>>

\* The inbox cannot be written.
SubmitFails(x) ==
    /\ projector[x].at = "submit"
    /\ Fault
    /\ Fail(x)
    /\ UNCHANGED <<outbox, producer_applied, authority, executed, owner>>

\* Mutant: every entry of the job is marked.
MarkAll(x, id) ==
    /\ projector[x].at = "mark"
    /\ Current(x, id)
    /\ outbox' = [i \in 1..Len(outbox) |-> [outbox[i] EXCEPT !.applied = TRUE]]
    /\ projector' = [projector EXCEPT ![x] = [Advance(@, x, id) EXCEPT !.projected = TRUE]]
    /\ UNCHANGED <<producer_applied, authority, executed, owner, faults>>

Mark(x, id) ==
    /\ projector[x].at = "mark"
    /\ Current(x, id)
    /\ outbox' = [outbox EXCEPT ![id].applied = TRUE]
    /\ projector' = [projector EXCEPT ![x] = [Advance(@, x, id) EXCEPT !.projected = TRUE]]
    /\ UNCHANGED <<producer_applied, authority, executed, owner, faults>>

\* mark_delivery_applied lost too many swaps.  The shell looks whether another
\* projector marked the entry and goes on.
MarkGivesUp(x, id) ==
    /\ projector[x].at = "mark"
    /\ Current(x, id)
    /\ Fault
    /\ IF x[1] = "shell" /\ outbox[id].applied
       THEN projector' = [projector EXCEPT ![x] = Advance(@, x, id)]
       ELSE Fail(x)
    /\ UNCHANGED <<outbox, producer_applied, authority, executed, owner>>

ProjectorStep(x) ==
    \/ \E id \in DeliveryIds : Prepare(x, id) \/ Submit(x, id) \/ Mark(x, id)
    \/ x[1] = "owner" /\ (BeginPass(Host(x)) \/ ListPending(Host(x)) \/ PageDone(Host(x)))
    \/ x[1] = "shell" /\ (FirstPending(Host(x)) \/ AcknowledgeApplied(Host(x)))

Next ==
    \/ \E x \in Projectors :
          \/ ProjectorStep(x)
          \/ SubmitFails(x)
          \/ \E id \in DeliveryIds : MarkGivesUp(x, id)
    \/ \E h \in Hosts :
          \/ \E terminal \in BOOLEAN : CommitEntry(h, terminal) \/ CommitUnsignalled(h, terminal)
          \/ Crash(h) \/ Wake(h) \/ ListFails(h)
    \/ \E h \in Shells : BeginShell(h)
    \/ \E id \in DeliveryIds : Apply(id)

\* Projector tasks run, and the sweep of the store watch keeps waking owners.
Fairness ==
    /\ \A x \in Projectors : WF_vars(ProjectorStep(x))
    /\ \A h \in Hosts : WF_vars(Wake(h))

Spec == Init /\ [][Next]_vars /\ Fairness

-----------------------------------------------------------------------------

\* The inbox keeps the order of the job's outbox, with no entry missing,
\* whichever projectors carried the entries over.
InboxKeepsJobOrder ==
    \A i, j \in DeliveryIds :
        i < j /\ Committed(authority, j)
            => Committed(authority, i)
               /\ authority.delivery_sequences[i] < authority.delivery_sequences[j]

\* An entry marked applied on the job is a row of the inbox: a crash between
\* the two writes repeats the submission and never loses it.
AppliedMeansCommitted ==
    \A i \in 1..Len(outbox) : outbox[i].applied => Committed(authority, i)

\* The applier never runs the sink of a terminal that its producer applies,
\* although the owner may project it before the producer does.
ProducerEffectOnce ==
    producer_applied => \A id \in executed : ~outbox[id].terminal

\* Every committed entry reaches the inbox and is marked on the job.
EntriesReachInbox ==
    \A id \in DeliveryIds :
        Len(outbox) >= id ~> Len(outbox) >= id /\ outbox[id].applied

=============================================================================
