# TLA+ models of Meerkat's durable work and sessions

Meerkat is a platform for running LLM agents. Agents start work that outlives a
turn, a session or a process: shell commands, callback tools executed by an
external host, scheduled prompts. This directory models the part of the repository
that keeps such work correct across processes, crashes and lost messages: durable
jobs and their recovery, the way of their deliveries into sessions, the sessions'
hosting claims and turns, and schedule occurrences. It holds the modules, the TLC
configurations that check them on small instances, and the TLAPS proofs of what
matters most for every value of the constants.

Paths below are relative to `src/crates/`.

## 1. Inventory

### What a detached job is

A *detached job* is one durable record (`meerkat-jobs`). Its lifecycle is a
machine written in the repository's DSL
(`meerkat-machine-schema/src/catalog/dsl/detached_job.rs`) from which the Rust
transition code is generated. The job service (`meerkat-jobs/src/service.rs`)
reads a record, applies one machine input to a private copy, adds the
*projections* that belong to the transition (outbox entry, terminal result,
subscriptions) and asks the store (`store.rs`) for a compare-and-swap on the
record's revision. Nothing else serialises writers.

Attempts to run a job are *claimed*: a claim mints the next *fence* and a lease.
Every call of a worker presents its attempt id and fence. A lease that runs out
is *observed* by somebody, and the loss is then *decided*: retried, declared
lost, cancelled, or handed to a human, depending on the job's restart class
(adoptable, checkpoint resumable, replayable, non-resumable).

What a job says (notifications, one terminal delivery) goes through an outbox in
the record. A projector carries outbox entries into the ordered durable inbox of
each subscribed runtime, and an applier hands them to sessions.

### How it reaches a session

Every runtime has a *delivery inbox*: rows in sequence order with one *authority*
record (cursor, settlements, recipients), changed by read and compare-and-swap like a
job. The *delivery owner* of each process runs passes: it projects the outbox entries
of jobs into inboxes, and applies the pending rows of an inbox page by page to the
sessions it serves. Owners of several processes work on one store and tell each other
about commits through its generation counters.

A process serves a session only under a *hosting claim*: an OS lock on a file, a
registry entry that points weakly at the current claim lineage, and one settlement of
what the owner before it left unfinished. A live session is a task with a command
channel; a *turn slot*, a generated machine behind a mutex, admits one turn at a time
and takes interrupts, suspensions and the shutdown of the session.

A *schedule* plans occurrences. A scan claims a due occurrence with a lease, a driver
dispatches it to its target under a stable identity, and a waiter resolves it with the
target's outcome; an edit of the schedule supersedes what is under way.

### Components

| Component | State | Operations | Interacts with |
|---|---|---|---|
| Detached job machine (`detached_job.rs`) | phase, attempt, fence, lease, checkpoint, retry deadline, cancellation, delivery sequence, notification maps, terminal outcome | submit, claim, renew, progress, checkpoint, wait / resume, notify, complete, fail, cancel, acknowledge cancel, expire, retry, classify loss, needs attention, delivery applied | applied by the job service only |
| Job service (`meerkat-jobs/src/service.rs`) | none of its own | the calls above, subscribe / unsubscribe, two predicate evaluations | store; called by workers, reconcilers, clients, the projector |
| Job store (`store.rs`, `sqlite.rs`) | records with revisions, submission keys, predicate receipts | deduplicated insert, read, list, compare-and-swap, record validation | job service |
| Shell job manager (`meerkat-tools/src/builtin/shell/job_manager.rs`) | live attempts in memory, a recovery lock | recovery pass before every operation, launch, heartbeat, settle, cancel | job service |
| Callback dispatcher (`meerkat-rpc/src/callback_dispatcher.rs`) | registered callback hosts | reconcile active attempts with the host, start queued and due jobs, start answers, cancel | job service, callback hosts over RPC |
| Runtime delivery machine and inbox (`runtime_delivery.rs`, `meerkat-runtime/src/delivery_inbox.rs`) | delivery ids, sequences, applied cursor, early acknowledgements, refusals, recipient groups | submit, list pending, mark applied / refused, acknowledge, bind / settle / finish recipients | projector, applier |
| Job delivery (`meerkat/src/job_delivery.rs`) | none of its own | project an outbox entry into an inbox, apply pending rows, acknowledge the job | outbox, inbox, sessions |
| Delivery owner (`meerkat/src/runtime_delivery_owner.rs`) | wake flags, retry backoff | wake, tick, pass | job delivery |
| Predicate monitors (`meerkat-jobs/src/predicate.rs`) | last observation | edge-triggered evaluation | job service |
| Session hosting claims (`meerkat-core/src/session_hosting.rs`, `meerkat-runtime/src/meerkat_machine/session_management.rs`) | lock file, registry entry, lineage, owner-loss settlement | claim, join, take over, write, publish, drop, destroy | runtime owners, delivery owner |
| Session turns (`meerkat-session/src/ephemeral.rs`, `turn_admission.rs`, `session_turn_admission.rs` of the catalog) | turn slot, command channel, active run, staged prompt | start turn, interrupt, suspend, run, finish, archive, drain | agents, runtime |
| Schedule and occurrences (`meerkat-schedule`, `occurrence_lifecycle.rs`, `schedule_lifecycle.rs`) | occurrence rows with leases and tokens, receipts, schedule phase and revision | scan, claim, probe, dispatch, accept, await, complete, renew, expire, supersede, pause, revise, delete | targets (runtimes, mobs) |
| WorkGraph, authorization, comms, mobs, MCP, providers, surfaces | see `PROJECT.json` | | |

### What is hard

Concurrency without locks (read / swap pairs of many processes), workers that
keep a stale authority, clocks that disagree, renewals that are still admitted
after the nominal expiry, cancellations racing outcomes, retries that replay
notifications, recovery passes that stop half-way, decisions taken from a
snapshot that is older than the answer they waited for, and two stores that
cannot be written together; destructors and blocking writes that outlive the task that
started them; a future dropped between two awaits; a wake that arrives between a check
and a wait; an edit that sweeps a row while its delivery completes. `PROJECT.json` lists each hazard at its line.

### What makes each component correct

* Machine and service: a stale worker writes nothing after a newer claim; an
  outcome is final and its delivery the last one; the outbox is exactly what the
  machine sequenced and only grows; a key is notified once; leases of successive
  attempts do not overlap; restart classes are honoured; an accepted cancellation
  is not overtaken.
* Store: a committed swap works on the record as it stands, so every call is atomic.
* Recovery passes: every loss the shell pass meets is observed and decided, whatever stops
  the pass; cancellations and checkpoints are not lost on the way, unless the operator
  retries the job himself.
* Inbox: an ordered log, each row settled once and in order; no order of calls writes a
  record that cannot be read back; an acknowledged row is never executed.
* Projector and owner: the inbox keeps the order of the outbox with nothing missing; a
  session sees its rows in order; settlements are true; no committed entry or row is
  slept on.
* Hosting: one owner hosts a session at a time; it holds the lock and nobody else does;
  the loss of the earlier owner is settled once, before anything is published, when a
  consent owner is there to settle it.
* Turns: one owner of the slot; an accepted interrupt ends the turn, which then does not
  succeed; a resumable run that is asked to suspend ends suspended; the staged prompt
  lands once; an archived session's task leaves in order.
* Occurrences: receipts and row tell the same end, the end is true of the target, a stale
  task moves nothing, an admitted occurrence is not reported as missed, and every due
  occurrence of an active schedule ends.

## 2. Modules

| Module | Models | State | Actions |
|---|---|---|---|
| `DetachedJobMachine` | transitions of the machine with the projections the service commits with them | none: relations `Op(j, jn, ...)` between the record read and the record written | |
| `DetachedJob` | one job whose operations are atomic; the abstract specification | `job`, `held` (the authority each actor believes it has) | one per service call |
| `JobService` | the service over the store; extends `DetachedJob`, whose `Spec` it implements | `job`, `held`, `revision`, `call` | read, end of a call, and the three kinds of swap |
| `JobHost` | what a recovery pass works against: client, operator, worker, clock; the recovery contract | `job`, `now`, `worker`, `overruled` (the waiting retry is the operator's), `failures` | tick, submit, cancel, `jobs/retry`, heartbeat, checkpoint, settle, worker dies |
| `ShellRecovery` | `reconcile_recovered_jobs` of the shell manager | plus `pass` | one per await of the pass, launch, abort, crash |
| `CallbackRecovery` | `reconcile_detached_jobs` and `start_due_detached_jobs` of the callback dispatcher, one pass per registration, and the start tasks | plus `pass`, `starting`, `starts` | one per await of a pass, its skips, start tasks and their answers, abort, crash |
| `RuntimeDeliveryMachine` | the generated delivery machine, with its invariants as `Decodes` | none: functions and guards on an authority | |
| `OrderedInbox` | what an inbox promises; abstract | `log`, `fate`, `early` | submit, acknowledge, settle |
| `DeliveryInbox` | `RuntimeDeliveryInbox` over the store | `authority`, `revision`, `rows`, `call`, `report` | load, end of a call, one swap per operation, listing |
| `JobProjection` | outbox to inbox: `project_pending`, the shell's own projection, retries | `outbox`, `authority`, `executed`, `owner`, `projector` | commit, one per call of a projector, wakes, faults |
| `DeliveryOwner` | passes of the resident owners over one inbox | `authority`, `news`, `serving`, `claim`, `owner`, `drain`, `effects` | one per await of a pass, signals, hand-over, crash |
| `ExclusiveHosting` | what hosting claims promise; abstract | `host`, `settled` | begin, settle, end |
| `SessionHosting` | claims of one session in several processes | `lock`, `copied`, `entry`, `began`, `loss`, `claim`, `write`, `reservation`, `installed` (consent owners), `unasked`, `attached`, `dying` | one per critical section; installation of a consent owner, spawned child, crash |
| `TurnAdmission` | the generated turn slot and the suspension mark | none: functions on a slot | |
| `SessionTurns` | callers, session task, interrupts, archive around that slot | `slot`, channel, notifications, `run`, `active`, staged prompt, what was asked of each turn | one per await or lock of each; the runtime's preparation of a run and the record of its end |
| `OccurrenceMachine` | the generated occurrence machine | none: functions on a row | |
| `ScheduleDriver` | scan, driver, waiter and schedule edits around one occurrence | `schedule`, `row`, `lapsed`, `overdue`, receipts, `target`, `task` | one per call of the store or the target; leases, faults, edits |
| `DetachedJobProofs`, `RuntimeDeliveryProofs`, `DeliveryInboxProofs`, `JobProjectionProofs`, `DeliveryOwnerProofs`, `SessionHostingProofs`, `SessionTurnsProofs`, `ScheduleDriverProofs` | theorems and lemmas, section 4 | | |
| `MC*` | instances for TLC | | |

Correspondence with the code:

* A record is `StoredJob` of `meerkat-jobs`: the machine state under its own field
  names plus `subscriptions`, `outbox` and `terminal_result`. `None` and 0 stand for
  absent values. Payloads are represented by the fence of the attempt that wrote
  them, which is all the properties tell apart. Worker ids, runner handles,
  fingerprints, result bodies and reasons are left out: no guard reads more of them
  than that they are present.
* An operation's guard is the machine's guard together with the service's own
  checks (`ensure_current_writer`, the cancel branch of `complete_attempt` and
  `fail_attempt`, the phases of `request_cancel`); its update is the machine's
  update and the projection. A refused call changes nothing and is not a step.
* Callers pass clock readings. In `DetachedJob` and `JobService` they are arbitrary,
  so that the properties do not depend on synchronised clocks. In `JobHost` there is
  one clock: the passes compare leases with the wall clock of the machine, and the
  callback host, which supplies its own times, is assumed to share it.
* `JobService` splits a call at its await: `Read` takes the record and its revision;
  a swap applies one operation to the copy. Which operation is chosen at the swap,
  because nothing depends on it before. Loops that re-read after a lost swap are a
  new read. A process that stops in between is `EndCall` or a call that never ends.
* The reply of a committed claim may be lost: `Claim` may leave the claimer without
  its authority, and `Rehydrate` gives any actor the authority the record names, as a
  restarted host or a reconciler takes it.
* In the recovery modules each await of the pass is a step and the job may change
  before it. A call of the pass fails if another writer came in between (`LoseRace`,
  `ExpiryRefused`), or because the store or process fails (`AbortPass`, `Crash`,
  counted by `failures`).

* The inbox calls of `JobProjection` and `DeliveryOwner` are single steps of
  `RuntimeDeliveryMachine`; `delivery_inbox` shows that the read / swap pairs are.
* The rows of a page and the entries of a projection are sets worked in ascending
  order: a list read from the store is sorted and only ever consumed from the front.
* Each `tools/register` of a callback host spawns one pass (`meerkat-rpc/src/router.rs:3954`);
  passes share no lock and overlap. A pass skips a job whose tool the route does not own or
  whose specification it cannot have at the moment, and hands a changed binding or an
  unreadable specification to a human. Starts run in tasks of their own.
* `jobs/retry` is a call of the operator on any lost job of the realm: it schedules the
  retry whatever was asked of the job before, at a time he chooses.
* `DeliveryOwner` treats a session as the log of rows it admitted. `Admit` is what the sinks
  do (`meerkat/src/surface/runtime_delivery.rs`, behind the wait coordinator of
  `job_composition.rs`): the session's store appends a system context, or its runtime
  accepts an input, under the delivery's idempotency key, and a repeat is answered with the
  first. A sink may fail before or after its effect.
* `SessionHosting` has one step per critical section of the registry mutex, one for the
  death of the last reference and one for its destructor.
* A registration asks the consent owner of its runtime to settle before it publishes. When
  none is installed it publishes and owes the settlement (`unasked`); the reuse of the
  registration asks again. An owner may be installed while no registration of its runtime
  is published, also between a registration's question and its publication.
* `SessionTurns` splits the session task at every await and at every use of the slot's
  mutex. The agent's run starts, publishes events, makes its final save and ends, or runs
  for ever; a run that takes no round commits is as little resumable as one past its final
  save, and both are `saved`. `active` is the run id of the turn state: the runtime writes
  it when it prepares a run, and clears it when it records the end of a run that the agent
  left there (a suspended one).
* `ScheduleDriver` names a claim token by its attempt. The screen of a write is
  `Current`; the two writes that compare the whole row are `AwaitCompletion` and
  `ClassifyStaleArrival`. The target is external: it admits an identity once and answers
  a repeat with the first admission.

Definitions marked *Mutant* are not part of the models: each is a plausible bug
that replaces the definition after it when the strength of a property is tested.

## 3. Runs

| Run | Checks | Shows |
|---|---|---|
| `detached_job` | types, `OutboxMatchesAuthority`, `FencedAuthorship`, `NotificationOncePerKey`, `RestartClassHonoured`, `TerminalOutcomeIsFinal`, `LeasesNeverOverlap`, `CancelBeatsOutcome` | no order of calls by two actors with stale authorities and arbitrary clocks, a client, subscribers and the projector breaks the record |
| `job_service` | `CallsAreAtomic` | the read / swap pairs of two processes implement `DetachedJob` |
| `shell_recovery` | `CancellationIntentSurvives`, `CheckpointNotOverlooked`, `LostWorkIsDecided` | the shell pass keeps the recovery contract across crashes and store errors |
| `callback_cancelled_restarts` | `CancellationIntentSurvives` | violated: section 6 |
| `delivery_inbox` | `AuthorityDecodes`, `SettlementIsFinal`, `AcknowledgedNeverExecutes`, `InboxIsOrdered` | two processes calling the inbox implement `OrderedInbox` |
| `delivery_owner` | `SettlementsAreTrue`, `NoRowSleeps` | two owners share the recipients of a row while sessions move and processes stop: true settlements, and no lost signal strands the row |
| `job_projection` | `InboxKeepsJobOrder`, `AppliedMeansCommitted`, `ProducerEffectOnce`, `EntriesReachInbox` | outbox and inbox agree although they are two stores, and every entry arrives |
| `session_hosting` | `HostHoldsLock`, `NoLeakedLock`, `AttachedIsSettled`, `HostingIsExclusive` | claims implement `ExclusiveHosting` |
| `session_turns` | `AdmittedHasOneOwner`, `InterruptedNeverSucceeds`, `PromptLandsOnce`, `InterruptEndsTurn`, `ArchivedTaskExits`, `SuspensionKept` | turns of one session under dropped calls, interrupts, suspension and archive |
| `prompt_lost_on_refusal` | `StagedPromptNeverLost` | violated: section 6 |
| `schedule_driver` | `ReceiptsTellTheEnd`, `CompletedMeansCompleted`, `AdmittedNeverMisfires`, `StaleAttemptsInert`, `OccurrenceEnds` | one occurrence under lost and slow tasks and an edit of its schedule |
| `second_superseded_receipt` | `OneTerminalReceipt` | violated: section 6 |

Refinements, all three also proved: `CallsAreAtomic` (`JobService` implements `DetachedJob`),
`InboxIsOrdered` (`DeliveryInbox` implements `OrderedInbox`: the log is the ids in
sequence order, the settled prefix is what the cursor passed) and `HostingIsExclusive`
(`SessionHosting` implements `ExclusiveHosting`: the host is the owner of the live
lineage).

Bounds. Two actors and two attempt ids give a stale worker and its successor; with
`MaxAttempts = 2` the second claim happens with everything the first can leave
behind. `MaxTime = 3` leaves room for heartbeat < expiry < retry deadline = claim and
for renewals at, before and after expiry. `NoteIds` contains `"terminal"`, the id
of the terminal entry, and a second id. One subscription is enough for the
targets of an entry to differ from the current set. `MaxRevision = 6` lets two
pending calls be overtaken several times, up to a terminal outcome after a retry
was scheduled. In the recovery runs a lease lasts one tick and ends
before the clock stops (`LeaseFits`), so that every lease can expire; a failure budget
of one puts a crash or a store error at every point of every pass. The violated callback
run needs no failure; it has two registrations, so that two passes overlap, and one start
task. The proofs remove the bounds for every safety property that holds.

`delivery_inbox`: three deliveries let a row be settled, acknowledged and refused while a
later one waits, and six commits settle two of them. `delivery_owner`: one row for
two sessions, so that owners wait for each other, and one fault: a crash, a moved session, a
failed call or a lost signal at every step. The order of several rows is not in the run; it
is the theorem `SessionOrder`.
`job_projection`: two entries, so that one can overtake the other; a retry gap of two
wakes. `session_hosting`: two processes, two owners in one of them, two tasks of one
owner, three lineages (a dead one, its successor, and the next), a crash, and a consent
owner that is installed at any time or not at all.
`session_turns`: two callers with one call each, so that a dropped call, its successor and
an archive meet. `schedule_driver`: two faults let a redelivery itself be lost or outrun;
one edit; the reclaim cap is two instead of five, so that reclaims are exhausted after
one redelivery. `BoundsAssumption` makes the number of attempts never the reason a claim
fails.

Symmetry is used over actors, attempt ids and keys in the runs without liveness.
Deadlock is not checked where the system may stop: a job that ended with its deliveries
acknowledged, an inbox with every delivery settled, a session that was archived, an
occurrence that ended.

Fairness. `ShellRecovery` assumes weak fairness of the clock and of the steps of the pass,
and of nothing else: a worker need not renew, settle or die, a client need not cancel. The
pass is fair because the shell manager runs it before every operation on shell jobs
(`ensure_recovered`); the property says what holds in a system that keeps being used. Store
errors and crashes are bounded, which is the usual reading of "eventually, once failures
stop". `CallbackRecovery` has no such property: a pass runs when a host registers its tools,
nothing obliges a host to register again, and so nothing obliges anybody to notice a lost
callback job.

* `JobProjection` and `DeliveryOwner`: weak fairness of the steps of a running owner or
  projector, which are tasks of their process, and of the wake by the store (`Wake`,
  `StoreTick`): the resident owner compares the store's generations every five seconds.
  Signals inside a process are not assumed to arrive.
* `SessionTurns`: weak fairness of the session task's steps, of the steps of a call whose
  future is polled, and of the removal of an archived handle. Nothing makes the agent's
  run end. Nor is the end of an event's publication fair, or the clean-up after the run,
  which sends the remaining events: the task waits for room in the channel of a receiver
  that may be kept and not read. `InterruptEndsTurn` therefore speaks of a task that is
  not held there for ever.
* `ScheduleDriver`: weak fairness of the scan (the host ticks at every heartbeat and after
  mutations), of a task's steps, of a lease that nobody renews and of the deadline (time
  passes), and of the target's end: an occurrence ends if the input it admitted does. A
  schedule left paused for ever excuses the occurrence.

## 4. Proofs

Everything below holds for any sets of actors, processes, callers, deliveries and
recipients, and for any bounds. The assumptions are few: `None` is none of the values it
stands beside (`NoneAssumption`, `NoneIsNoKind`, `CallersAssumption`, `AnswersAssumption`,
`HostingAssumption`), the bounds are natural numbers (`BoundsAssumption`, `RevisionAssumption`,
`ReclaimCapAssumption`), source sequences are positive (`InboxAssumption`), a job's
deliveries are numbered from 1 and a shell runs in a host (`ProjectionAssumption`), and
every delivery has a recipient (`OwnerAssumption`). `BoundsAssumption` of `ScheduleDriver`
also leaves enough attempts for the faults and edits, which only `OccurrenceEnds` needs.
Each proof shows an inductive invariant: it holds initially, one step per action keeps it,
and it implies the property.

* `DetachedJobProofs` has five parts.
  * `TypeCorrect`, `RestartSafe`, `LeaseSafe`, from `TypeOK /\ ControlInv`. Types alone are
    not inductive: `Rehydrate` copies the record's attempt and fence into an authority,
    whose fence is positive. `RestartClassHonoured` needs `AttemptAccounting`: a queued job
    has no attempt behind it, and a scheduled retry was admitted for its class.
  * `OutboxConsistent`, `TerminalLast`, `StaleWritersFenced`, `NotifiedOnce`, from
    `DeliveryInv`. `OutboxMatchesAuthority` needs `TerminalDeliveryIsLast` and
    `DeliveryBookkeeping`: an acknowledgement finds its entry by sequence, and the kind of
    the entry is determined only because the terminal sequence is above every
    notification's.
  * `DeliveriesAreFacts`, `OutcomesAreFinal`, `OneLeaseAtATime`, `CancelNotOvertaken`, the
    four action properties, from the invariants above and `CancelInv` (a job asked to stop
    is not recorded as succeeded or failed).
  * `RevisionIsIdentity` and `ServiceIsAtomic`, the refinement. `CasInv` says that a pending
    call is not ahead of the stored revision and, if level with it, holds the stored
    record; so a swap that commits is the atomic operation on the current job, and what is
    proved of `DetachedJob` holds of the service.
  * `ShellKeepsCancellation` and `ShellSeesCheckpoint`, about `ShellRecovery` (taken in as the
    instance `Shell`). A claim clears a cancellation request, so `CancelledIsNotWaiting` says
    that no job waiting for a claim carries one, but for a retry the operator scheduled; the
    pass decides from a listing, so `LossStandsStill` says that the loss it listed is still
    the job, or the job has ended or was given its retry by the operator. There is one pass
    at a time, under the recovery lock.
* `RuntimeDeliveryProofs` holds the lemmas on the delivery machine that the three proofs
  after it share. `WellFormed` is the strengthening of the machine's own invariants
  (`Decodes`) that its inputs preserve: sequences number the committed deliveries without
  gaps, the cursor has passed exactly what is settled, and an enrolled delivery has an
  outcome only for a recipient of its manifest. There is one lemma for each input, saying
  that the record stays well formed and what it leaves alone.
* `DeliveryInboxProofs`: `StoredAuthorityDecodes`, `SettlementsAreFinal`,
  `AcknowledgementsHold`, and `InboxOrder`, the refinement of `OrderedInbox`. `InboxInv` is
  `WellFormed` and `ReadsAreRevisions`, the argument of `CasInv` again. A step of the
  abstract inbox is found by the sequence the cursor reaches; one settlement may move the
  cursor over several early acknowledgements, which is one abstract step.
* `JobProjectionProofs`: `JobOrderKept`, `AppliedIsCommitted`, `ProducerAppliesOnce`. Order
  across two stores is not inductive by itself, because a projector acts on a list that is
  older than both. `ListInv` says what its list still guarantees: below an entry of the
  list every entry is in the list or committed. `TerminalInv` says that a terminal its
  producer applied is acknowledged before a row for it can be executed.
* `DeliveryOwnerProofs`: `SessionOrder` and `TrueSettlements`. `EnrolledInTurn` (a row is
  enrolled with its whole manifest and only when the cursor has reached it) and
  `EffectsAreEnrolled` order what sessions admit by the cursor; `DrainsHold` carries what
  an owner knows about the row at hand over its awaits, while others settle rows.
  `SessionOrder` states the order of what a session admits, except for a row whose recorded
  settlement says something else (section 6). That no row is admitted twice rests on the
  sinks' idempotency keys and is not claimed as a result.
* `SessionHostingProofs`: `HostingHoldsLock`, `LockIsNotLeaked`, `AttachmentIsSettled`, and
  `ClaimsAreExclusive`, the refinement of `ExclusiveHosting`. `HostingInv` ties the entry of a
  process to the lock and to a lineage of that process (`EntryInv`), every reference to that
  entry (`RefersInv`), dead lineages to their pending destructors (`DeadInv`, `DyingInv`),
  the lock of a stopped process to a child's copy of the file (`LockInv`), and a
  reservation, or a registration that found nobody to ask, to its lineage (`ProofInv`).
* `SessionTurnsProofs`: `TurnTypes`, `OneOwnerWhileAdmitted`, `InterruptIsFinal`,
  `PromptIsStagedOnce`, `OnlyRefusalLosesPrompt`, `SuspensionIsKept`. `PlaceInv` says that at
  most one turn is under way, in one of the caller, the channel and the task; `PhaseInv` which phases
  of the slot go with which steps of the task; `MarkInv` that the slot's marks are what was
  asked of the turn that owns it, or that a claim answered Busy cleared its suspension, as
  long as it can be interrupted. An interrupt and the end of a run meet in the slot, and only
  these three together decide which came first. `OnlyRefusalLosesPrompt` is what remains of
  the promise about the staged prompt: the refused run start of section 6 is the one step
  that loses it.
* `ScheduleDriverProofs`: `DriverTypes`, `ReceiptsAreTrue`, `CompletionIsTrue`,
  `AdmissionNeverMisfires`, `StaleTasksAreInert`. `ClaimInv` ties the token to the latest
  attempt and the leased phases; `TaskOk` says what each task may conclude from the row as
  it saw it, in terms of the row as it is: a task that still holds the claim may rely on
  what it read, any other on the target only.

`LeaseDiscipline` (`LeaseSafe`), `TerminalDeliveryIsLast` (`TerminalLast`), `OutboxOnlyGrows`
(`DeliveriesAreFacts`) and `RevisionNamesRecord` (`RevisionIsIdentity`) are proved and not
repeated in a run. So are the types of `SessionTurns` and `ScheduleDriver`.

Only model-checked: all liveness, because the prover does not handle fairness
(`LostWorkIsDecided`, `NoRowSleeps`, `EntriesReachInbox`,
`InterruptEndsTurn`, `ArchivedTaskExits`, `OccurrenceEnds`).

## 5. Not modelled

* The two predicate evaluations of the service and their receipt ledger.
* The SQLite store: the same contract in SQL transactions.
* Read-only calls: health, describe, list, projections for clients.
* Process groups, output capture and the legacy operation view of shell jobs; the
  attempt task of the shell manager is the worker of `JobHost`.
* The callback wire protocol and its admission limits.
* `wait_external` and `resume_running` have no caller in production code; they are
  operations of `DetachedJob` and `JobService` and are left out of `JobHost`.
* Delivery: payload rendering, artifact reads, keyed submission and the continuation key
  index, owed-continuation rounds, address resolution and retired reservations.
* Hosting: process-local grants of unclaimed sessions; lock paths and domains.
* Turns: the eager first turn of a creation, boundary cancellation, capacity leases, the
  staged-session registry, tool-application reservations, the session's other commands.
* Schedules: planning and refill, the executor lease that elects the scanning process,
  target sync and materialisation, an adapter that breaks its contract by answering "not
  admitted" for a recorded admission, the SQLite store.
* Everything else `PROJECT.json` lists as not modelled, with the reason.

## 6. Where the code and its documents disagree

Three runs hold the code to what its documents say, and are violated. `PROJECT.json` quotes
the lines.

* `callback_cancelled_restarts`: the callback pass decides a loss by restart class and never
  reads `cancel_requested`, and the claim of the retry clears the request, so a cancelled
  job runs again. The shell pass reads it first.
* `prompt_lost_on_refusal`: when the operator instructions or the system messages of a run
  start are refused after the turn began (`meerkat-session/src/ephemeral.rs:11916`), the
  staged prompt the turn consumed is dropped; the comments at 11570 and 12014 speak of
  restoring it on every refusal before the run.
* `second_superseded_receipt`: `terminalize_occurrence_inner` reads the row's phase
  (`meerkat-schedule/src/driver.rs:1795`) and writes its end with a receipt later (1860). A
  sweep in between mints a superseded receipt, and the write another one, which `store.rs:1131`,
  `driver.rs:1771` and `occurrence_lifecycle.rs:2207` exclude. `ReceiptsTellTheEnd` still
  holds: both receipts name the row's phase.

The models reach the following as well. No run states them as violations.

* *The operator's retry overrules a cancellation* (`meerkat-rpc/src/handlers/jobs.rs:471`).
  `jobs/retry` of a lost job whose cancellation was accepted is not refused, and the claim
  clears the request. `CancellationIntentSurvives` allows this one claim.
* *The pass advances attempts*. The doc of `reconcile_detached_jobs`
  (`callback_dispatcher.rs:969`) says "without claiming, retrying, or otherwise advancing
  attempt/fence state"; the body observes losses, schedules retries and starts due jobs.
* *A loss is stranded* (`meerkat-rpc/src/callback_dispatcher.rs:979`). A crash or error
  between observing a loss and deciding it leaves a callback job in `LossObserved`. Later
  passes offer only running and waiting jobs and start only queued and due ones.
* *A checkpoint is overlooked* (`callback_dispatcher.rs:1136`). The decision uses the
  checkpoint as it was before the pass awaited the host.
* *An adoptable job is started anew* (`callback_dispatcher.rs:1152`), instead of being
  reattached or handed to a human as the shell pass does.
* *A listing takes a race for corruption* (`meerkat-runtime/src/delivery_inbox.rs:1141`):
  rows committed between its two reads make `list_pending` report an inconsistent store.
  The owner tries again, so nothing is lost.
* *A claim answered Busy clears the suspension mark*
  (`meerkat-session/src/turn_admission.rs:224`) of the turn under way, which then ends
  cancelled; the doc of the mark (155-159) has it cleared by a hard interrupt and by a new
  claim, and a refused claim is neither. `SuspensionKept` excuses exactly the turns whose
  mark was cleared so. An interrupt that arrives after the run was dropped is accepted and
  has no effect (`ephemeral.rs:12164`).
* *A suspended run outlives its turn in the turn state*
  (`meerkat-core/src/agent/runner.rs:3489`). The agent applies nothing to the turn authority,
  so the run id stays active until the runtime loop records the suspension
  (`meerkat-runtime/src/runtime_loop.rs:7884`), after the slot was given back. In the model an
  exact interrupt for the old run may then mark a successor's turn, against the comment at
  `ephemeral.rs:4870-4874` ("can never set the ambient successor's interrupt bit"). Whether a
  successor can be admitted in that window depends on callers outside the session service:
  the runtime loop itself starts none before it has recorded the end.
* *A registration without a consent owner* publishes with its settlement owed
  (`meerkat-runtime/src/meerkat_machine/session_management.rs:2921`), as its doc and a test
  (`meerkat_machine_tests.rs:60203`) say. `install_consent_owner_loss_settlement` refuses once a
  session is registered, and its doc (`meerkat_machine/mod.rs:3487-3495`) says that every
  registration then settles first; a registration that asked before the installation and
  publishes after it does not. `AttachedIsSettled` excepts registrations that asked nobody.
* *A late effect* (`meerkat/src/job_delivery.rs:787`). The sink runs after the routes and
  the recorded outcomes were read and before the settlement is written. A process that held
  a session, lost it and has it back meanwhile may run the sink of a row that another
  process has since settled as refused: the session then admits the row after later ones,
  and the record keeps the other outcome. The doc of `apply_pending` (439) says "in inbox
  order"; `SessionOrder` excepts such a delivery.
* *Late outcomes*. On the path of `second_superseded_receipt` the waiter's late outcome is
  not recorded. Nor is it when a sweep lands between delivery and acceptance. A stale
  arrival's count rewrites the row, so that a live attempt's await is refused and it has no
  waiter until its lease expires; and a driver slower than its lease may deliver after the
  occurrence ended as misfired.

## 7. Plan

Done: the detached job, its service and store, both recovery passes; the inbox, projection
and delivery owners; hosting claims; turns; schedule occurrences; the proofs of section 4.

1. Proofs: the steps on which the liveness properties rest (what a pass leaves behind when
   it ends, which wake a pending row still has), as invariants and action properties.
2. The executor lease and the refill of schedules.
3. The shell attempt task: heartbeats losing their swap, settlement.
4. Predicate evaluation and its receipts in `JobService`.
5. WorkGraph, MCP connections, comms.
