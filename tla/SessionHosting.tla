-------------------------- MODULE SessionHosting --------------------------
(***************************************************************************)
(* Hosting claims of one session on a store with cross-process claims.      *)
(*                                                                          *)
(* Every process keeps a registry entry while it holds the session's OS     *)
(* lock; the entry points weakly at the current claim lineage.  Tasks of a  *)
(* runtime owner hold claims of the lineage; a blocking write and an owner- *)
(* loss reservation hold it as well.  The last reference dies outside the   *)
(* registry lock, and its destructor visits the registry later: until then  *)
(* the entry of the dead lineage can be taken over.                         *)
(***************************************************************************)
EXTENDS Naturals

CONSTANTS
    Processes,
    Owners,         \* runtime owners (one per machine)
    ProcessOf,      \* the process of each owner
    Tasks,          \* tasks that take claims
    OwnerOf,        \* the runtime owner each task works for
    ConsentOwners,  \* the owners whose composition installs a consent owner
    None,
    MaxLineages,    \* bound: lineages begun
    MaxCrashes      \* bound: processes stopped

ASSUME HostingAssumption ==
    /\ ProcessOf \in [Owners -> Processes]
    /\ OwnerOf \in [Tasks -> Owners]
    /\ ConsentOwners \subseteq Owners
    /\ None \notin Processes \cup Owners \cup Nat
    /\ MaxLineages \in Nat
    /\ MaxCrashes \in Nat

VARIABLES
    lock,           \* the process whose open lock file holds the OS lock
    copied,         \* processes whose spawned child has a copy of that file
    up,             \* the processes that run
    entry,          \* each process's registry entry: a lineage, or None
    began,          \* the owner that began each lineage, in order of birth
    loss,           \* each lineage's owner-loss settlement
    claim,          \* the lineage whose claim each task holds
    write,          \* the lineage held by each task's blocking write
    reservation,    \* the lineage whose proof each task's attachment holds
    installed,      \* the owners whose machine has a consent owner
    unasked,        \* registrations that found no consent owner to ask
    attached,       \* tasks whose registration is published
    dying,          \* dead lineages whose destructor has not run
    crashes

vars == <<lock, copied, up, entry, began, loss, claim, write, reservation,
          installed, unasked, attached, dying, crashes>>

Lineages == 1..MaxLineages

Settlements == {"Unborn", "Owed", "Reserved", "Completed"}

TypeOK ==
    /\ lock \in {None} \cup Processes
    /\ copied \in SUBSET Processes
    /\ up \in SUBSET Processes
    /\ entry \in [Processes -> {None} \cup Lineages]
    /\ began \in [Lineages -> {None} \cup Owners]
    /\ loss \in [Lineages -> Settlements]
    /\ claim \in [Tasks -> {None} \cup Lineages]
    /\ write \in [Tasks -> {None} \cup Lineages]
    /\ reservation \in [Tasks -> {None} \cup Lineages]
    /\ installed \in SUBSET Owners
    /\ unasked \in SUBSET Tasks
    /\ attached \in SUBSET Tasks
    /\ dying \in SUBSET Lineages
    /\ crashes \in Nat
    /\ \A l \in Lineages : began[l] = None <=> loss[l] = "Unborn"

Init ==
    /\ lock = None
    /\ copied = {}
    /\ up = Processes
    /\ entry = [p \in Processes |-> None]
    /\ began = [l \in Lineages |-> None]
    /\ loss = [l \in Lineages |-> "Unborn"]
    /\ claim = [t \in Tasks |-> None]
    /\ write = [t \in Tasks |-> None]
    /\ reservation = [t \in Tasks |-> None]
    /\ installed = {}
    /\ unasked = {}
    /\ attached = {}
    /\ dying = {}
    /\ crashes = 0

Home(t) == ProcessOf[OwnerOf[t]]

\* What runs under a lineage.
Refers(t, l) == l \in {claim[t], write[t], reservation[t]}

\* The strong references of a lineage.
Strong(l) == \E t \in Tasks : Refers(t, l)

-----------------------------------------------------------------------------

\* The owner of the entry of p.
EntryOwner(p) == began[entry[p]]

Take(t, l) ==
    /\ claim' = [claim EXCEPT ![t] = l]
    /\ UNCHANGED <<write, reservation, installed, unasked, attached, crashes>>

\* Mutant: a lineage that begins owes nothing.
BeginLineageSettled(t, l) ==
    /\ began[l] = None
    /\ \A k \in 1..(l - 1) : began[k] # None
    /\ began' = [began EXCEPT ![l] = OwnerOf[t]]
    /\ loss' = [loss EXCEPT ![l] = "Completed"]
    /\ entry' = [entry EXCEPT ![Home(t)] = l]
    /\ Take(t, l)

\* ClaimInner::begin: a lineage begins, and owes the settlement of its proof.
BeginLineage(t, l) ==
    /\ began[l] = None
    /\ \A k \in 1..(l - 1) : began[k] # None
    /\ began' = [began EXCEPT ![l] = OwnerOf[t]]
    /\ loss' = [loss EXCEPT ![l] = "Owed"]
    /\ entry' = [entry EXCEPT ![Home(t)] = l]
    /\ Take(t, l)

\* try_claim_session, an entry whose lineage lives: share it within its owner.
GrantJoined(t) ==
    /\ Home(t) \in up
    /\ claim[t] = None
    /\ entry[Home(t)] # None
    /\ Strong(entry[Home(t)])
    /\ EntryOwner(Home(t)) = OwnerOf[t]
    /\ Take(t, entry[Home(t)])
    /\ UNCHANGED <<lock, copied, up, entry, began, loss, dying>>

\* An entry whose lineage is dead: take it over, with its open file.
GrantTookOver(t, l) ==
    /\ Home(t) \in up
    /\ claim[t] = None
    /\ entry[Home(t)] # None
    /\ ~Strong(entry[Home(t)])
    /\ BeginLineage(t, l)
    /\ UNCHANGED <<lock, copied, up, dying>>

\* No entry: lock the session's file, unless another process holds it.
GrantFresh(t, l) ==
    /\ Home(t) \in up
    /\ claim[t] = None
    /\ entry[Home(t)] = None
    /\ lock = None
    /\ lock' = Home(t)
    /\ copied' = copied \ {Home(t)}
    /\ BeginLineage(t, l)
    /\ UNCHANGED <<up, dying>>

\* The lineages that lose their last reference in this step.
Dies == dying' = dying \cup {l \in Lineages : Strong(l) /\ ~Strong(l)'}

\* A task drops its claim; its registration, if any, goes with it.
DropClaim(t) ==
    /\ claim[t] # None
    /\ reservation[t] = None
    /\ claim' = [claim EXCEPT ![t] = None]
    /\ unasked' = unasked \ {t}
    /\ attached' = attached \ {t}
    /\ UNCHANGED <<write, reservation>>
    /\ Dies
    /\ UNCHANGED <<lock, copied, up, entry, began, loss, installed, crashes>>

\* with_write_hosting / spawn_blocking_holding_claim: the blocking operation
\* holds the claim until it returns, whatever happens to the task.
StartWrite(t) ==
    /\ claim[t] # None
    /\ write[t] = None
    /\ write' = [write EXCEPT ![t] = claim[t]]
    /\ UNCHANGED <<lock, copied, up, entry, began, loss, claim, reservation,
                   installed, unasked, attached, dying, crashes>>

WriteReturns(t) ==
    /\ write[t] # None
    /\ write' = [write EXCEPT ![t] = None]
    /\ UNCHANGED <<claim, reservation>>
    /\ Dies
    /\ UNCHANGED <<lock, copied, up, entry, began, loss, installed, unasked,
                   attached, crashes>>

\* Mutant: the destructor does not look whether the entry was taken over.
DestroyBlindly(l) ==
    LET p == ProcessOf[began[l]]
    IN  /\ l \in dying
        /\ dying' = dying \ {l}
        /\ entry' = [entry EXCEPT ![p] = None]
        /\ lock' = IF entry[p] # None THEN None ELSE lock
        /\ copied' = copied \ {p}
        /\ UNCHANGED <<up, began, loss, claim, write, reservation, installed,
                       unasked, attached, crashes>>

\* Mutant: the entry is closed without unlocking its file.
DestroyByClose(l) ==
    LET p == ProcessOf[began[l]]
        dead == entry[p] # None /\ ~Strong(entry[p])
    IN  /\ l \in dying
        /\ dying' = dying \ {l}
        /\ entry' = [entry EXCEPT ![p] = IF dead THEN None ELSE @]
        /\ lock' = IF dead /\ p \notin copied THEN None ELSE lock
        /\ UNCHANGED <<up, copied, began, loss, claim, write, reservation,
                       installed, unasked, attached, crashes>>

\* Drop for ClaimInner, under the registry lock: remove the entry only when
\* its lineage is dead; dropping the entry unlocks its file.
Destroy(l) ==
    LET p == ProcessOf[began[l]]
        dead == entry[p] # None /\ ~Strong(entry[p])
    IN  /\ l \in dying
        /\ dying' = dying \ {l}
        /\ entry' = [entry EXCEPT ![p] = IF dead THEN None ELSE @]
        /\ lock' = IF dead THEN None ELSE lock
        /\ copied' = IF dead THEN copied \ {p} ELSE copied
        /\ UNCHANGED <<up, began, loss, claim, write, reservation, installed,
                       unasked, attached, crashes>>

-----------------------------------------------------------------------------

\* install_consent_owner_loss_settlement: once per machine, refused while it
\* has a session registered.
Install(o) ==
    /\ o \notin installed
    /\ ProcessOf[o] \in up
    /\ \A t \in attached : OwnerOf[t] # o
    /\ installed' = installed \cup {o}
    /\ UNCHANGED <<lock, copied, up, entry, began, loss, claim, write, reservation,
                   unasked, attached, dying, crashes>>

\* A task between its claim and its publication.
Registering(t) ==
    /\ claim[t] # None
    /\ t \notin attached \cup unasked
    /\ reservation[t] = None

\* reserve_consent_owner_loss without a consent owner: nothing is reserved,
\* and the registration goes on to publish with its settlement owed.
AskNobody(t) ==
    /\ Registering(t)
    /\ OwnerOf[t] \notin installed
    /\ unasked' = unasked \cup {t}
    /\ UNCHANGED <<lock, copied, up, entry, began, loss, claim, write, reservation,
                   installed, attached, dying, crashes>>

PublishUnsettled(t) ==
    /\ t \in unasked \ attached
    /\ attached' = attached \cup {t}
    /\ UNCHANGED <<lock, copied, up, entry, began, loss, claim, write, reservation,
                   installed, unasked, dying, crashes>>

\* reserve_consent_owner_loss with one: the attachment takes the proof of its
\* lineage.  So does the reuse of a published registration that still owes it
\* (finish_consent_owner_loss_under_transaction).
Reserve(t) ==
    /\ Registering(t) \/ t \in attached
    /\ OwnerOf[t] \in installed
    /\ loss[claim[t]] = "Owed"
    /\ loss' = [loss EXCEPT ![claim[t]] = "Reserved"]
    /\ reservation' = [reservation EXCEPT ![t] = claim[t]]
    /\ UNCHANGED <<lock, copied, up, entry, began, claim, write, installed, unasked,
                   attached, dying, crashes>>

\* The settlement failed, or the publication was lost or abandoned: dropping
\* the reservation returns the proof.
Abandon(t) ==
    /\ reservation[t] # None
    /\ loss' = [loss EXCEPT ![reservation[t]] = IF @ = "Reserved" THEN "Owed" ELSE @]
    /\ reservation' = [reservation EXCEPT ![t] = None]
    /\ UNCHANGED <<claim, write>>
    /\ Dies
    /\ UNCHANGED <<lock, copied, up, entry, began, installed, unasked, attached, crashes>>

\* The winning publication completes the reservation.
Publish(t) ==
    /\ reservation[t] # None
    /\ loss' = [loss EXCEPT ![reservation[t]] = "Completed"]
    /\ reservation' = [reservation EXCEPT ![t] = None]
    /\ unasked' = unasked \ {t}
    /\ attached' = attached \cup {t}
    /\ UNCHANGED <<lock, copied, up, entry, began, claim, write, installed, dying, crashes>>

\* Mutant: a settlement in progress elsewhere counts as settled.
PublishSettledEarly(t) ==
    /\ Registering(t)
    /\ OwnerOf[t] \in installed
    /\ loss[claim[t]] \in {"Reserved", "Completed"}
    /\ attached' = attached \cup {t}
    /\ UNCHANGED <<lock, copied, up, entry, began, loss, claim, write, reservation,
                   installed, unasked, dying, crashes>>

\* An attachment of a lineage that owes nothing publishes at once.
PublishSettled(t) ==
    /\ Registering(t)
    /\ OwnerOf[t] \in installed
    /\ loss[claim[t]] = "Completed"
    /\ attached' = attached \cup {t}
    /\ UNCHANGED <<lock, copied, up, entry, began, loss, claim, write, reservation,
                   installed, unasked, dying, crashes>>

-----------------------------------------------------------------------------

\* A child is spawned while the lock file is open: until it executes its
\* program it has a copy of the descriptor.
Spawn(p) ==
    /\ p \in up
    /\ entry[p] # None
    /\ p \notin copied
    /\ copied' = copied \cup {p}
    /\ UNCHANGED <<lock, up, entry, began, loss, claim, write, reservation,
                   installed, unasked, attached, dying, crashes>>

\* The child executes; the lock of a stopped process goes with its last copy.
Exec(p) ==
    /\ p \in copied
    /\ copied' = copied \ {p}
    /\ lock' = IF p \notin up /\ lock = p THEN None ELSE lock
    /\ UNCHANGED <<up, entry, began, loss, claim, write, reservation,
                   installed, unasked, attached, dying, crashes>>

OfProcess(p) == {t \in Tasks : Home(t) = p}

Cleared(f, p) == [t \in Tasks |-> IF t \in OfProcess(p) THEN None ELSE f[t]]

\* The process stops: the kernel closes its files.
Crash(p) ==
    /\ p \in up
    /\ crashes < MaxCrashes
    /\ up' = up \ {p}
    /\ entry' = [entry EXCEPT ![p] = None]
    /\ lock' = IF lock = p /\ p \notin copied THEN None ELSE lock
    /\ claim' = Cleared(claim, p)
    /\ write' = Cleared(write, p)
    /\ reservation' = Cleared(reservation, p)
    /\ installed' = {o \in installed : ProcessOf[o] # p}
    /\ unasked' = unasked \ OfProcess(p)
    /\ attached' = attached \ OfProcess(p)
    /\ dying' = {l \in dying : ProcessOf[began[l]] # p}
    /\ crashes' = crashes + 1
    /\ UNCHANGED <<copied, began, loss>>

Restart(p) ==
    /\ p \notin up
    /\ p \notin copied
    /\ up' = up \cup {p}
    /\ UNCHANGED <<lock, copied, entry, began, loss, claim, write, reservation,
                   installed, unasked, attached, dying, crashes>>

Next ==
    \/ \E t \in Tasks :
          \/ GrantJoined(t)
          \/ \E l \in Lineages : GrantTookOver(t, l) \/ GrantFresh(t, l)
          \/ DropClaim(t) \/ StartWrite(t) \/ WriteReturns(t)
          \/ AskNobody(t) \/ PublishUnsettled(t)
          \/ Reserve(t) \/ Abandon(t) \/ Publish(t) \/ PublishSettled(t)
    \/ \E o \in ConsentOwners : Install(o)
    \/ \E l \in Lineages : Destroy(l)
    \/ \E p \in Processes : Spawn(p) \/ Exec(p) \/ Crash(p) \/ Restart(p)

Spec == Init /\ [][Next]_vars

-----------------------------------------------------------------------------

\* Whoever works under a claim of the session, by the claim itself, a blocking
\* write that outlived it or a settlement in progress, is the runtime owner
\* that began the lineage in the entry of its process, and that process has
\* the OS lock: so at most one owner hosts the session (Drop for ClaimInner,
\* spawn_blocking_holding_claim).
HostHoldsLock ==
    \A t \in Tasks, l \in Lineages :
        Refers(t, l) => /\ lock = Home(t)
                        /\ entry[Home(t)] = l
                        /\ began[l] = OwnerOf[t]

\* The lock is not leaked: a running process that has it has an entry for it,
\* and the entry of a dead lineage waits for that lineage's own destructor.
NoLeakedLock ==
    /\ \A p \in up : lock = p => entry[p] # None
    /\ \A p \in Processes : entry[p] # None => Strong(entry[p]) \/ entry[p] \in dying

\* A published registration has settled the loss of the earlier owner, unless
\* there was no consent owner when it asked; one installed between its
\* question and its publication does not settle it either
\* (reserve_consent_owner_loss).
AttachedIsSettled ==
    \A t \in attached :
        claim[t] # None /\ (loss[claim[t]] = "Completed" \/ t \in unasked)

Host == IF \E l \in Lineages : Strong(l)
        THEN began[CHOOSE l \in Lineages : Strong(l)] ELSE None

SettledNow == \E l \in Lineages : Strong(l) /\ loss[l] = "Completed"

Abstract == INSTANCE ExclusiveHosting WITH host <- Host, settled <- SettledNow

\* The claims implement exclusive hosting, tenure by tenure.
HostingIsExclusive == Abstract!Spec

=============================================================================
