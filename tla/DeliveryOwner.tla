--------------------------- MODULE DeliveryOwner ---------------------------
(***************************************************************************)
(* The delivery owners of several processes draining one runtime's inbox   *)
(* in a shared store.  Each owner runs passes: it marks its signals, reads *)
(* the backlog, lists the pending rows and applies them in order.  A row   *)
(* is addressed to the sessions of its recipients; a process applies the   *)
(* recipients whose sessions it serves, and one of the processes also those *)
(* nobody serves.  The effect in a session and the settlement of that      *)
(* recipient are two steps, and processes stop anywhere.                   *)
(*                                                                         *)
(* Inbox calls are single steps on the authority: DeliveryInbox shows that *)
(* their reads and swaps are atomic.                                       *)
(***************************************************************************)
EXTENDS RuntimeDeliveryMachine, Sequences

CONSTANTS
    Hosts,          \* processes with a delivery owner
    Targets,        \* the recipients each delivery is addressed to
    Page,           \* rows per listing (DELIVERY_PAGE)
    Verdicts,       \* the outcomes the sinks return
    MaxFaults       \* bound: sessions moved, processes stopped, store and sink errors

ASSUME OwnerAssumption ==
    /\ Targets \in [DeliveryIds -> SUBSET Recipients \ {{}}]
    /\ Page \in Nat \ {0}
    /\ "Applied" \in Verdicts
    /\ Verdicts \subseteq RecipientOutcomes
    /\ MaxFaults \in Nat

VARIABLES
    authority,      \* the runtime's delivery authority
    news,           \* has the store's generation moved since h reconciled?
    serving,        \* the process that serves each recipient's session
    claim,          \* the process that holds the cold claim of a session
    cold,           \* the cold-delivery owner
    owner,          \* each process's owner loop between passes
    drain,          \* the row-by-row progress of each owner's pass
    effects,        \* the deliveries each session admitted, in order
    faults          \* session moves, crashes and errors so far

vars == <<authority, news, serving, claim, cold, owner, drain, effects, faults>>

\* Signals not yet marked, and what the last pass left for the next.
Owner == [reconcile : BOOLEAN, inbox_commit : BOOLEAN, retry : BOOLEAN,
          blocked : {"No", "Raced", "Failed"}, awaiting : SUBSET Recipients]

ArmedOwner == [reconcile |-> TRUE, inbox_commit |-> FALSE, retry |-> FALSE,
               blocked |-> "No", awaiting |-> {}]

Stages == {"down", "idle", "backlog", "list", "acknowledged", "row", "bind",
           "apply", "settle"}

\* A pass: the marked signals, the rows left to do, which it takes in sequence
\* order, and for the row at hand the recipients this process applies and those
\* that are settled.
Drain == [at : Stages, reconcile : BOOLEAN, retry : BOOLEAN, due : BOOLEAN,
          rows : SUBSET DeliveryIds, full : BOOLEAN, row : DeliveryIds \cup {None},
          routes : SUBSET Recipients, settled : SUBSET Recipients,
          result : {None} \cup [to : Recipients, outcome : RecipientOutcomes]]

Idle == [at |-> "idle", reconcile |-> FALSE, retry |-> FALSE, due |-> FALSE,
         rows |-> {}, full |-> FALSE, row |-> None, routes |-> {}, settled |-> {},
         result |-> None]

TypeOK ==
    /\ authority \in DeliveryAuthority
    /\ news \in [Hosts -> BOOLEAN]
    /\ serving \in [Recipients -> Hosts \cup {None}]
    /\ claim \in [Recipients -> Hosts \cup {None}]
    /\ cold \in Hosts \cup {None}
    /\ owner \in [Hosts -> Owner]
    /\ drain \in [Hosts -> Drain]
    /\ effects \in [Recipients -> Seq(DeliveryIds)]
    /\ faults \in Nat

Init ==
    /\ authority = EmptyAuthority
    /\ news = [h \in Hosts |-> FALSE]
    /\ serving \in [Recipients -> Hosts \cup {None}]
    /\ claim = [r \in Recipients |-> None]
    /\ cold = None
    /\ owner = [h \in Hosts |-> ArmedOwner]
    /\ drain = [h \in Hosts |-> Idle]
    /\ effects = [r \in Recipients |-> <<>>]
    /\ faults = 0

-----------------------------------------------------------------------------

Up(h) == drain[h].at # "down"

\* Every committed authority write moves the store's delivery generation, in
\* the same transaction.
Announce == news' = [h \in Hosts |-> news[h] \/ authority' # authority]

\* A producer of process h commits a delivery and raises h's commit signal.
Commit(h, id) ==
    /\ Up(h)
    /\ ~Committed(authority, id)
    /\ CommitDelivery(authority, authority', id, 1)
    /\ Announce
    /\ owner' = [owner EXCEPT ![h].inbox_commit = TRUE]
    /\ UNCHANGED <<serving, claim, cold, drain, effects, faults>>

\* The producer committed the delivery and stopped before the signal.
CommitUnsignalled(h, id) ==
    /\ Up(h)
    /\ ~Committed(authority, id)
    /\ faults < MaxFaults
    /\ CommitDelivery(authority, authority', id, 1)
    /\ Announce
    /\ faults' = faults + 1
    /\ UNCHANGED <<serving, claim, cold, owner, drain, effects>>

\* acknowledge_applied: the delivery's effect was projected by its producer.
AcknowledgeApplied(id) ==
    /\ AcknowledgeDelivery(authority, authority', id)
    /\ authority' # authority
    /\ Announce
    /\ UNCHANGED <<serving, claim, cold, owner, drain, effects, faults>>

\* A session is attached to h: its attachment signal asks for a retry.
Serve(h, r) ==
    /\ Up(h)
    /\ serving[r] = None
    /\ claim[r] = None
    /\ faults < MaxFaults
    /\ serving' = [serving EXCEPT ![r] = h]
    /\ owner' = [owner EXCEPT ![h].retry = TRUE]
    /\ faults' = faults + 1
    /\ UNCHANGED <<authority, news, claim, cold, drain, effects>>

Release(h, r) ==
    /\ serving[r] = h
    /\ faults < MaxFaults
    /\ serving' = [serving EXCEPT ![r] = None]
    /\ faults' = faults + 1
    /\ UNCHANGED <<authority, news, claim, cold, owner, drain, effects>>

Without(f, h) == [r \in Recipients |-> IF f[r] = h THEN None ELSE f[r]]

\* The process stops; its claims, its sessions and the cold lock are free.
Crash(h) ==
    /\ Up(h)
    /\ \E g \in Hosts \ {h} : Up(g)
    /\ faults < MaxFaults
    /\ drain' = [drain EXCEPT ![h] = [Idle EXCEPT !.at = "down"]]
    /\ owner' = [owner EXCEPT ![h] = ArmedOwner]
    /\ serving' = Without(serving, h)
    /\ claim' = Without(claim, h)
    /\ cold' = IF cold = h THEN None ELSE cold
    /\ faults' = faults + 1
    /\ UNCHANGED <<authority, news, effects>>

\* The owner is armed with a reconcile.
Restart(h) ==
    /\ drain[h].at = "down"
    /\ drain' = [drain EXCEPT ![h] = Idle]
    /\ UNCHANGED <<authority, news, serving, claim, cold, owner, effects, faults>>

-----------------------------------------------------------------------------

\* May h apply deliveries to this session now?
Ours(h, r, coldOwner) ==
    \/ serving[r] = h
    \/ serving[r] = None /\ claim[r] \in {None, h} /\ coldOwner = h

\* Mutant: the tick does not look at the store's generation.
StoreTickUnpolled(h) ==
    LET takes == cold = None
        coldNow == IF takes THEN h ELSE cold
        due == \E r \in owner[h].awaiting : Ours(h, r, coldNow)
    IN  /\ drain[h].at = "idle"
        /\ takes \/ due
        /\ cold' = coldNow
        /\ owner' = [owner EXCEPT ![h].reconcile = @ \/ takes]
        /\ drain' = [drain EXCEPT ![h].due = due]
        /\ UNCHANGED <<authority, news, serving, claim, effects, faults>>

\* answer_store_tick: take the cold lock if it is free, reconcile when the
\* generation moved, and retry the runtime when a recipient it waited for has
\* become this process's to apply.
StoreTick(h) ==
    LET takes == cold = None
        coldNow == IF takes THEN h ELSE cold
        due == \E r \in owner[h].awaiting : Ours(h, r, coldNow)
    IN  /\ drain[h].at = "idle"
        /\ takes \/ news[h] \/ due
        /\ cold' = coldNow
        /\ owner' = [owner EXCEPT ![h].reconcile = @ \/ takes \/ news[h]]
        /\ drain' = [drain EXCEPT ![h].due = due]
        /\ UNCHANGED <<authority, news, serving, claim, effects, faults>>

Blocked(h) == owner[h].blocked # "No"

\* run_owner marks the signals; with work to do it starts a pass, and a
\* reconcile records the generation before it reads the backlog.
BeginPass(h) ==
    /\ drain[h].at = "idle"
    /\ \/ owner[h].reconcile
       \/ owner[h].inbox_commit
       \/ owner[h].retry /\ Blocked(h)
       \/ drain[h].due
    /\ drain' = [drain EXCEPT ![h].at = "backlog",
                              ![h].reconcile = owner[h].reconcile,
                              ![h].retry = owner[h].retry]
    /\ owner' = [owner EXCEPT ![h].reconcile = FALSE, ![h].retry = FALSE]
    /\ news' = [news EXCEPT ![h] = @ /\ ~owner[h].reconcile]
    /\ UNCHANGED <<authority, serving, claim, cold, effects, faults>>

\* A retry signal with nothing blocked is marked and starts no pass.
IgnoreRetry(h) ==
    /\ drain[h].at = "idle"
    /\ owner[h].retry
    /\ ~Blocked(h)
    /\ owner' = [owner EXCEPT ![h].retry = FALSE]
    /\ UNCHANGED <<authority, news, serving, claim, cold, drain, effects, faults>>

PendingRows == {id \in DeliveryIds : Committed(authority, id) /\ ~Passed(authority, id)}

\* Drain the runtime when the backlog or a commit names it, when it is blocked
\* and a retry was asked for, or when it is due.
Collect(h, backlog) ==
    LET drains == \/ backlog
                  \/ owner[h].inbox_commit
                  \/ drain[h].retry /\ Blocked(h)
                  \/ drain[h].due
    IN  drain' = [drain EXCEPT ![h] =
                    [Idle EXCEPT !.at = IF drains THEN "list" ELSE "idle"]]

\* The backlog of a reconcile, then the runtimes of the rows committed here.
ReadBacklog(h) ==
    LET backlog == drain[h].reconcile /\ PendingRows # {}
    IN  /\ drain[h].at = "backlog"
        /\ Collect(h, backlog)
        /\ owner' = [owner EXCEPT
                        ![h].inbox_commit = FALSE,
                        ![h].awaiting = IF drain[h].reconcile /\ ~backlog THEN {} ELSE @]
        /\ UNCHANGED <<authority, news, serving, claim, cold, effects, faults>>

\* A store error: the reconcile stays owed to the next wake.
BacklogFails(h) ==
    /\ drain[h].at = "backlog"
    /\ drain[h].reconcile
    /\ faults < MaxFaults
    /\ Collect(h, FALSE)
    /\ owner' = [owner EXCEPT ![h].inbox_commit = FALSE, ![h].reconcile = TRUE]
    /\ faults' = faults + 1
    /\ UNCHANGED <<authority, news, serving, claim, cold, effects>>

-----------------------------------------------------------------------------

\* The pass leaves the runtime: what it waits for, and whether it is blocked.
Leave(h, blocked, awaiting) ==
    /\ drain' = [drain EXCEPT ![h] = Idle]
    /\ owner' = [owner EXCEPT ![h].blocked = blocked, ![h].awaiting = awaiting]
    /\ claim' = Without(claim, h)

\* One page of the rows behind the cursor.
ListRows(h) ==
    LET onPage(id) == authority.delivery_sequences[id] <= authority.applied_cursor + Page
    IN  /\ drain[h].at = "list"
        /\ drain' = [drain EXCEPT ![h].at = "acknowledged",
                                  ![h].rows = {id \in PendingRows : onPage(id)},
                                  ![h].full = Cardinality(PendingRows) >= Page]
        /\ UNCHANGED <<authority, news, serving, claim, cold, owner, effects, faults>>

\* The listing fails: the runtime is blocked, and what it awaits is kept.
ListFails(h) ==
    /\ drain[h].at = "list"
    /\ faults < MaxFaults
    /\ Leave(h, "Failed", owner[h].awaiting)
    /\ faults' = faults + 1
    /\ UNCHANGED <<authority, news, serving, cold, effects>>

\* The acknowledged sequences are read after the rows; rows whose effect is
\* already there are skipped.
ReadAcknowledged(h) ==
    /\ drain[h].at = "acknowledged"
    /\ drain' = [drain EXCEPT ![h].at = "row",
                              ![h].rows = {id \in @ : ~Acknowledged(authority, id)}]
    /\ UNCHANGED <<authority, news, serving, claim, cold, owner, effects, faults>>

\* A full page may have more rows behind it.
PageDone(h) ==
    /\ drain[h].at = "row"
    /\ drain[h].rows = {}
    /\ IF drain[h].full
       THEN /\ drain' = [drain EXCEPT ![h] = [Idle EXCEPT !.at = "list"]]
            /\ UNCHANGED <<owner, claim>>
       ELSE Leave(h, "No", {})
    /\ UNCHANGED <<authority, news, serving, cold, effects, faults>>

\* The next of the listed rows.
NextRow(h, id) ==
    /\ id \in drain[h].rows
    /\ \A i \in drain[h].rows :
          authority.delivery_sequences[id] <= authority.delivery_sequences[i]

\* Route every recipient, taking the claim of each cold one this process
\* applies, before any input to the authority.
RouteRow(h, id) ==
    LET routes == {r \in Targets[id] : Ours(h, r, cold)}
    IN  /\ drain[h].at = "row"
        /\ NextRow(h, id)
        /\ IF routes = {}
           THEN Leave(h, "No", Targets[id])
           ELSE /\ drain' = [drain EXCEPT ![h].at = "bind", ![h].row = id,
                                          ![h].routes = routes]
                /\ claim' = [r \in Recipients |->
                                IF r \in routes /\ serving[r] = None THEN h ELSE claim[r]]
                /\ UNCHANGED owner
        /\ UNCHANGED <<authority, news, serving, cold, effects, faults>>

Row(h) == drain[h].row

\* Bind the complete manifest before any effect, and learn who is settled.
Bind(h) ==
    /\ drain[h].at = "bind"
    /\ BindDeliveryRecipients(authority, authority', Row(h), Targets[Row(h)])
    /\ Announce
    /\ drain' = [drain EXCEPT
                    ![h].at = "apply",
                    ![h].settled = {r \in Targets[Row(h)] :
                                        authority.recipient_outcomes[Row(h)][r] # None}]
    /\ UNCHANGED <<serving, claim, cold, owner, effects, faults>>

\* The row was acknowledged and passed since it was listed.
BindRejected(h) ==
    /\ drain[h].at = "bind"
    /\ ~Enrolled(authority, Row(h))
    /\ ~AtCursor(authority, Row(h))
    /\ Leave(h, "Raced", {})
    /\ UNCHANGED <<authority, news, serving, cold, effects, faults>>

\* The recipients this process still has to apply.
Open(h) == drain[h].routes \ drain[h].settled

\* The sink: a session admits the event or the system context of a delivery
\* once per idempotency key.
Admit(r, id) ==
    effects' = [effects EXCEPT ![r] =
                    IF \E i \in 1..Len(@) : @[i] = id THEN @ ELSE Append(@, id)]

\* Mutant: a refused application is recorded like an applied one.
ApplySinkFolded(h, r) ==
    /\ drain[h].at = "apply"
    /\ r \in Open(h)
    /\ h \in {serving[r], claim[r]}
    /\ \E outcome \in Verdicts :
          /\ drain' = [drain EXCEPT ![h].at = "settle",
                                    ![h].result = [to |-> r, outcome |-> "Applied"]]
          /\ IF outcome = "Applied" THEN Admit(r, Row(h)) ELSE UNCHANGED effects
    /\ UNCHANGED <<authority, news, serving, claim, cold, owner, faults>>

\* The session is h's when the sink runs: an effect, or a typed verdict.
ApplySink(h, r) ==
    /\ drain[h].at = "apply"
    /\ r \in Open(h)
    /\ h \in {serving[r], claim[r]}
    /\ \E outcome \in Verdicts :
          /\ drain' = [drain EXCEPT ![h].at = "settle",
                                    ![h].result = [to |-> r, outcome |-> outcome]]
          /\ IF outcome = "Applied" THEN Admit(r, Row(h)) ELSE UNCHANGED effects
    /\ UNCHANGED <<authority, news, serving, claim, cold, owner, faults>>

\* The session moved since it was routed: the recipient is skipped.
SkipMoved(h, r) ==
    /\ drain[h].at = "apply"
    /\ r \in Open(h)
    /\ h \notin {serving[r], claim[r]}
    /\ drain' = [drain EXCEPT ![h].routes = @ \ {r}]
    /\ UNCHANGED <<authority, news, serving, claim, cold, owner, effects, faults>>

\* An infrastructure error of the sink, before the effect or after it: the
\* drain stops, blocked.
SinkFails(h, r) ==
    /\ drain[h].at = "apply"
    /\ r \in Open(h)
    /\ faults < MaxFaults
    /\ Leave(h, "Failed", {})
    /\ \/ UNCHANGED effects
       \/ h \in {serving[r], claim[r]} /\ Admit(r, Row(h))
    /\ faults' = faults + 1
    /\ UNCHANGED <<authority, news, serving, cold>>

Settle(h) ==
    LET r == drain[h].result.to
        outcome == drain[h].result.outcome
    IN  /\ drain[h].at = "settle"
        /\ SettleDeliveryRecipient(authority, authority', Row(h), r, outcome)
        /\ Announce
        /\ drain' = [drain EXCEPT ![h].at = "apply", ![h].result = None,
                                  ![h].settled = @ \cup {r}]
        /\ UNCHANGED <<serving, claim, cold, owner, effects, faults>>

\* Another process settled the recipient otherwise in the meantime.
SettleRejected(h) ==
    /\ drain[h].at = "settle"
    /\ authority.recipient_outcomes[Row(h)][drain[h].result.to]
            \notin {None, drain[h].result.outcome}
    /\ Leave(h, "Raced", {})
    /\ UNCHANGED <<authority, news, serving, cold, effects, faults>>

\* With recipients left to other processes the row waits; otherwise it is
\* finished and the drain goes on.
Finish(h) ==
    LET skipped == Targets[Row(h)] \ drain[h].settled
    IN  /\ drain[h].at = "apply"
        /\ Open(h) = {}
        /\ IF skipped # {}
           THEN Leave(h, "No", skipped) /\ UNCHANGED <<authority, news>>
           ELSE /\ FinishDeliveryRecipients(authority, authority', Row(h))
                /\ Announce
                /\ claim' = Without(claim, h)
                /\ drain' = [drain EXCEPT ![h].at = "row", ![h].rows = @ \ {Row(h)},
                                          ![h].row = None, ![h].routes = {},
                                          ![h].settled = {}]
                /\ UNCHANGED owner
        /\ UNCHANGED <<serving, cold, effects, faults>>

\* Every step the owner's task takes by itself.
OwnerStep(h) ==
    \/ BeginPass(h) \/ IgnoreRetry(h) \/ ReadBacklog(h)
    \/ ListRows(h) \/ ReadAcknowledged(h) \/ PageDone(h)
    \/ \E id \in DeliveryIds : RouteRow(h, id)
    \/ Bind(h) \/ BindRejected(h)
    \/ \E r \in Recipients : ApplySink(h, r) \/ SkipMoved(h, r)
    \/ Settle(h) \/ SettleRejected(h) \/ Finish(h)

Environment ==
    \/ \E id \in DeliveryIds : AcknowledgeApplied(id)
    \/ \E h \in Hosts :
          \/ \E id \in DeliveryIds : Commit(h, id) \/ CommitUnsignalled(h, id)
          \/ \E r \in Recipients : Serve(h, r) \/ Release(h, r) \/ SinkFails(h, r)
          \/ Crash(h) \/ Restart(h)
          \/ BacklogFails(h) \/ ListFails(h)

Next == Environment \/ \E h \in Hosts : OwnerStep(h) \/ StoreTick(h)

Fairness == \A h \in Hosts : WF_vars(OwnerStep(h)) /\ WF_vars(StoreTick(h))

Spec == Init /\ [][Next]_vars /\ Fairness

-----------------------------------------------------------------------------

\* The session admitted the delivery.
Admitted(r, id) == \E i \in 1..Len(effects[r]) : effects[r][i] = id

\* A recipient is settled as applied only when its session admitted the
\* delivery, whichever process settled it.
SettlementsAreTrue ==
    \A id \in DeliveryIds, r \in Recipients :
        authority.recipient_outcomes[id][r] = "Applied"
            => Admitted(r, id)

\* No committed row is slept on: signals lost with their process, ticks and
\* hand-overs of sessions lose no wake, and losing a race to another process
\* is no reason to stop.  Only a sink or listing error may hold the row until
\* the next wake, and then the owner reports the runtime as blocked.
NoRowSleeps ==
    \A id \in DeliveryIds :
        Committed(authority, id)
            ~> \/ Passed(authority, id)
               \/ \E h \in Hosts : owner[h].blocked = "Failed"

=============================================================================
