----------------------- MODULE SessionHostingProofs -----------------------
(***************************************************************************)
(* At most one runtime owner hosts a session, for any number of processes,  *)
(* owners, tasks and lineages.                                              *)
(*                                                                          *)
(* HostHoldsLock is not inductive: whether a grant may begin a lineage      *)
(* depends on the registry, and whether the registry tells the truth        *)
(* depends on destructors that are still to run.  HostingInv adds that an   *)
(* entry stands for the lock of a running process (EntryInv), that the lock *)
(* of a stopped process is in the hands of a child (LockInv), that only     *)
(* dead lineages of running processes wait for a destructor (DyingInv), and *)
(* that a reservation keeps its lineage's proof for itself and a            *)
(* registration that asked nobody keeps its claim (ProofInv).               *)
(***************************************************************************)
EXTENDS SessionHosting, TLAPS

\* Whoever refers to a lineage runs, and the lineage is its process's entry.
RefersInv ==
    \A t \in Tasks, l \in Lineages :
        Refers(t, l) => /\ Home(t) \in up
                        /\ entry[Home(t)] = l
                        /\ began[l] = OwnerOf[t]

\* An entry is held by a running process that has the lock; its lineage began
\* in that process.
EntryInv ==
    \A p \in Processes :
        entry[p] # None => /\ p \in up
                           /\ lock = p
                           /\ began[entry[p]] # None
                           /\ ProcessOf[began[entry[p]]] = p

\* A dead entry waits for its own lineage's destructor.
DeadInv ==
    \A p \in Processes : entry[p] # None => Strong(entry[p]) \/ entry[p] \in dying

\* A running process with the lock has an entry; the lock of a stopped process
\* is held by a child's copy of the file.
LockInv ==
    /\ \A p \in up : lock = p => entry[p] # None
    /\ \A p \in Processes \ up : lock = p => p \in copied

\* A lineage that waits for its destructor is dead, and its process runs.
DyingInv ==
    \A l \in dying : /\ began[l] # None
                     /\ ProcessOf[began[l]] \in up
                     /\ ~Strong(l)

\* A reservation is the only one of its lineage, and its task still holds the
\* claim; so does a registration that found nobody to ask.
ProofInv ==
    /\ \A t \in Tasks : reservation[t] # None =>
          /\ claim[t] = reservation[t]
          /\ loss[reservation[t]] = "Reserved"
    /\ \A t, u \in Tasks :
          reservation[t] # None /\ reservation[t] = reservation[u] => t = u
    /\ \A t \in unasked : claim[t] # None

HostingInv ==
    /\ TypeOK
    /\ RefersInv
    /\ EntryInv
    /\ DeadInv
    /\ LockInv
    /\ DyingInv
    /\ ProofInv
    /\ AttachedIsSettled

-----------------------------------------------------------------------------

\* The invariant holds before any process claims the session.
LEMMA HostingInit == Init => HostingInv
<1> SUFFICES ASSUME Init PROVE HostingInv
  OBVIOUS
<1> USE HostingAssumption DEF Init
<1>1. TypeOK
  BY DEF TypeOK, Settlements, Lineages
<1>2. \A t \in Tasks, l \in Lineages : ~Refers(t, l)
  BY DEF Refers, Lineages
<1>3. RefersInv /\ EntryInv /\ DeadInv /\ LockInv /\ DyingInv
  BY <1>2 DEF RefersInv, EntryInv, DeadInv, LockInv, DyingInv
<1>4. ProofInv /\ AttachedIsSettled
  BY DEF ProofInv, AttachedIsSettled
<1> QED
  BY <1>1, <1>3, <1>4 DEF HostingInv

\* A task's owner runs in one of the processes.
LEMMA HomeIsProcess ==
    ASSUME NEW t \in Tasks
    PROVE  /\ OwnerOf[t] \in Owners
           /\ OwnerOf[t] # None
           /\ Home(t) \in Processes
           /\ Home(t) # None
BY HostingAssumption DEF Home

\* Hosting is exclusive: the lineages with references are one lineage, because
\* each is the entry of the process that has the lock.
LEMMA OneStrongLineage ==
    ASSUME HostingInv, NEW k \in Lineages, NEW l \in Lineages, Strong(k), Strong(l)
    PROVE  k = l
BY HomeIsProcess, HostingAssumption
   DEF HostingInv, TypeOK, RefersInv, EntryInv, Strong, Lineages

-----------------------------------------------------------------------------

\* A task that joins a lineage joins the entry of its own process and owner.
LEMMA GrantJoinedKeeps ==
    ASSUME HostingInv, NEW t \in Tasks, GrantJoined(t)
    PROVE  HostingInv'
<1> USE HostingAssumption, HomeIsProcess DEF HostingInv, GrantJoined, Take, EntryOwner, Lineages
<1>1. TypeOK'
  BY DEF TypeOK, Settlements
<1>2. RefersInv'
  BY DEF TypeOK, RefersInv, EntryInv, Refers, Strong
<1>3. EntryInv' /\ LockInv'
  BY DEF EntryInv, LockInv
<1>4. DeadInv'
  BY DEF TypeOK, DeadInv, EntryInv, Strong, Refers, RefersInv
<1>5. DyingInv'
  BY DEF TypeOK, DyingInv, EntryInv, RefersInv, Strong, Refers
<1>6. ProofInv'
  BY DEF TypeOK, ProofInv, RefersInv, Refers
<1>7. AttachedIsSettled'
  BY DEF TypeOK, AttachedIsSettled, ProofInv, RefersInv, Refers
<1> QED
  BY <1>1, <1>2, <1>3, <1>4, <1>5, <1>6, <1>7

\* Taking over an entry: its lineage is dead, and nobody else hosts.
LEMMA TookOverKeeps ==
    ASSUME HostingInv, NEW t \in Tasks, NEW l \in Lineages, GrantTookOver(t, l)
    PROVE  HostingInv'
<1> USE HostingAssumption, HomeIsProcess DEF HostingInv, GrantTookOver, BeginLineage, Take, Lineages
<1>1. TypeOK'
  BY DEF TypeOK, Settlements
<1>2. RefersInv'
  BY DEF TypeOK, RefersInv, EntryInv, Refers, Strong
<1>3. EntryInv'
  BY DEF TypeOK, EntryInv, Home
<1>4. DeadInv'
  BY DEF TypeOK, DeadInv, EntryInv, Strong, Refers, RefersInv
<1>5. LockInv'
  BY DEF TypeOK, LockInv, EntryInv, DyingInv
<1>6. DyingInv'
  BY DEF TypeOK, DyingInv, EntryInv, RefersInv, Strong, Refers
<1>7. ProofInv'
  BY DEF TypeOK, ProofInv, RefersInv, Refers
<1>8. AttachedIsSettled'
  BY DEF TypeOK, AttachedIsSettled, ProofInv, RefersInv, Refers
<1> QED
  BY <1>1, <1>2, <1>3, <1>4, <1>5, <1>6, <1>7, <1>8

\* A fresh grant takes a lock that nobody has, so no entry stands anywhere.
LEMMA FreshKeeps ==
    ASSUME HostingInv, NEW t \in Tasks, NEW l \in Lineages, GrantFresh(t, l)
    PROVE  HostingInv'
<1> USE HostingAssumption, HomeIsProcess DEF HostingInv, GrantFresh, BeginLineage, Take, Lineages
<1>1. TypeOK'
  BY DEF TypeOK, Settlements
<1>2. RefersInv'
  BY DEF TypeOK, RefersInv, EntryInv, Refers, Strong
<1>3. EntryInv'
  BY DEF TypeOK, EntryInv, Home
<1>4. DeadInv'
  BY DEF TypeOK, DeadInv, EntryInv, Strong, Refers, RefersInv
<1>5. LockInv'
  BY DEF TypeOK, LockInv, EntryInv, DyingInv
<1>6. DyingInv'
  BY DEF TypeOK, DyingInv, EntryInv, RefersInv, Strong, Refers
<1>7. ProofInv'
  BY DEF TypeOK, ProofInv, RefersInv, Refers
<1>8. AttachedIsSettled'
  BY DEF TypeOK, AttachedIsSettled, ProofInv, RefersInv, Refers
<1> QED
  BY <1>1, <1>2, <1>3, <1>4, <1>5, <1>6, <1>7, <1>8

\* Dropping a claim keeps the entry; the lineage dies with its last reference.
LEMMA DropClaimKeeps ==
    ASSUME HostingInv, NEW t \in Tasks, DropClaim(t)
    PROVE  HostingInv'
<1> USE HostingAssumption, HomeIsProcess DEF HostingInv, DropClaim, Dies, Lineages
<1>1. TypeOK'
  BY DEF TypeOK, Settlements
<1>2. RefersInv'
  BY DEF TypeOK, RefersInv, EntryInv, Refers, Strong
<1>3. EntryInv' /\ LockInv'
  BY DEF EntryInv, LockInv
<1>4. DeadInv'
  BY DEF TypeOK, DeadInv, EntryInv, Strong, Refers, RefersInv
<1>5. DyingInv'
  BY DEF TypeOK, DyingInv, EntryInv, RefersInv, Strong, Refers
<1>6. ProofInv' /\ AttachedIsSettled'
  BY DEF TypeOK, ProofInv, AttachedIsSettled
<1> QED
  BY <1>1, <1>2, <1>3, <1>4, <1>5, <1>6

\* A blocking write adds a reference to a lineage that has one.
LEMMA StartWriteKeeps ==
    ASSUME HostingInv, NEW t \in Tasks, StartWrite(t)
    PROVE  HostingInv'
<1> USE HostingAssumption, HomeIsProcess DEF HostingInv, StartWrite, Lineages
<1>1. TypeOK'
  BY DEF TypeOK, Settlements
<1>2. RefersInv'
  BY DEF TypeOK, RefersInv, EntryInv, Refers, Strong
<1>3. EntryInv' /\ LockInv'
  BY DEF EntryInv, LockInv
<1>4. DeadInv'
  BY DEF TypeOK, DeadInv, EntryInv, Strong, Refers, RefersInv
<1>5. DyingInv'
  BY DEF TypeOK, DyingInv, EntryInv, RefersInv, Strong, Refers
<1>6. ProofInv' /\ AttachedIsSettled'
  BY DEF TypeOK, ProofInv, AttachedIsSettled
<1> QED
  BY <1>1, <1>2, <1>3, <1>4, <1>5, <1>6

\* A returning write may be the last reference.
LEMMA WriteReturnsKeeps ==
    ASSUME HostingInv, NEW t \in Tasks, WriteReturns(t)
    PROVE  HostingInv'
<1> USE HostingAssumption, HomeIsProcess DEF HostingInv, WriteReturns, Dies, Lineages
<1>1. TypeOK'
  BY DEF TypeOK, Settlements
<1>2. RefersInv'
  BY DEF TypeOK, RefersInv, EntryInv, Refers, Strong
<1>3. EntryInv' /\ LockInv'
  BY DEF EntryInv, LockInv
<1>4. DeadInv'
  BY DEF TypeOK, DeadInv, EntryInv, Strong, Refers, RefersInv
<1>5. DyingInv'
  BY DEF TypeOK, DyingInv, EntryInv, RefersInv, Strong, Refers
<1>6. ProofInv' /\ AttachedIsSettled'
  BY DEF TypeOK, ProofInv, AttachedIsSettled
<1> QED
  BY <1>1, <1>2, <1>3, <1>4, <1>5, <1>6

\* A destructor removes the entry only when the entry's own lineage is dead.
LEMMA DestroyKeeps ==
    ASSUME HostingInv, NEW l \in Lineages, Destroy(l)
    PROVE  HostingInv'
<1> USE HostingAssumption, HomeIsProcess DEF HostingInv, Destroy, Lineages
<1>1. TypeOK'
  BY DEF TypeOK, Settlements
<1>2. RefersInv'
  BY DEF TypeOK, RefersInv, EntryInv, Refers, Strong
<1>3. EntryInv'
  BY DEF TypeOK, EntryInv, DyingInv
<1>4. DeadInv'
  BY DEF TypeOK, DeadInv, EntryInv, Strong, Refers, RefersInv
<1>5. LockInv'
  BY DEF TypeOK, LockInv, EntryInv, DyingInv
<1>6. DyingInv'
  BY DEF TypeOK, DyingInv, EntryInv, RefersInv, Strong, Refers
<1>7. ProofInv' /\ AttachedIsSettled'
  BY DEF TypeOK, ProofInv, AttachedIsSettled
<1> QED
  BY <1>1, <1>2, <1>3, <1>4, <1>5, <1>6, <1>7

\* Installing a consent owner changes no claim.
LEMMA InstallKeeps ==
    ASSUME HostingInv, NEW o \in ConsentOwners, Install(o)
    PROVE  HostingInv'
<1> USE HostingAssumption DEF HostingInv, Install, Lineages
<1>1. TypeOK'
  BY DEF TypeOK, Settlements
<1>2. RefersInv' /\ EntryInv' /\ DeadInv' /\ LockInv' /\ DyingInv'
  BY DEF RefersInv, EntryInv, DeadInv, LockInv, DyingInv, Strong, Refers
<1>3. ProofInv' /\ AttachedIsSettled'
  BY DEF TypeOK, ProofInv, AttachedIsSettled
<1> QED
  BY <1>1, <1>2, <1>3

\* A registration that asks nobody, or publishes without having asked, holds
\* a claim.
LEMMA UnsettledKeeps ==
    ASSUME HostingInv, NEW t \in Tasks, AskNobody(t) \/ PublishUnsettled(t)
    PROVE  HostingInv'
<1> USE HostingAssumption
        DEF HostingInv, AskNobody, PublishUnsettled, Registering, Lineages
<1>1. TypeOK'
  BY DEF TypeOK, Settlements
<1>2. RefersInv' /\ EntryInv' /\ DeadInv' /\ LockInv' /\ DyingInv'
  BY DEF RefersInv, EntryInv, DeadInv, LockInv, DyingInv, Strong, Refers
<1>3. ProofInv' /\ AttachedIsSettled'
  BY DEF TypeOK, ProofInv, AttachedIsSettled
<1> QED
  BY <1>1, <1>2, <1>3

\* A reservation takes a proof that was owed, so nobody else has it.
LEMMA ReserveKeeps ==
    ASSUME HostingInv, NEW t \in Tasks, Reserve(t)
    PROVE  HostingInv'
<1> USE HostingAssumption, HomeIsProcess DEF HostingInv, Reserve, Registering, Lineages
<1>1. TypeOK'
  BY DEF TypeOK, Settlements
<1>2. RefersInv'
  BY DEF TypeOK, RefersInv, EntryInv, Refers, Strong
<1>3. EntryInv' /\ LockInv'
  BY DEF EntryInv, LockInv
<1>4. DeadInv'
  BY DEF TypeOK, DeadInv, ProofInv, Strong, Refers
<1>5. DyingInv'
  BY DEF TypeOK, DyingInv, EntryInv, RefersInv, Strong, Refers
<1>6. ProofInv'
  BY DEF TypeOK, ProofInv, RefersInv, Refers
<1>7. AttachedIsSettled'
  BY DEF TypeOK, AttachedIsSettled, ProofInv, RefersInv, Refers
<1> QED
  BY <1>1, <1>2, <1>3, <1>4, <1>5, <1>6, <1>7

\* An abandoned reservation returns its proof.
LEMMA AbandonKeeps ==
    ASSUME HostingInv, NEW t \in Tasks, Abandon(t)
    PROVE  HostingInv'
<1> USE HostingAssumption, HomeIsProcess DEF HostingInv, Abandon, Dies, Lineages
<1>1. TypeOK'
  BY DEF TypeOK, Settlements
<1>2. RefersInv'
  BY DEF TypeOK, RefersInv, EntryInv, Refers, Strong
<1>3. EntryInv' /\ LockInv'
  BY DEF EntryInv, LockInv
<1>4. DeadInv'
  BY DEF TypeOK, DeadInv, EntryInv, Strong, Refers, RefersInv
<1>5. DyingInv'
  BY DEF TypeOK, DyingInv, EntryInv, RefersInv, Strong, Refers
<1>6. ProofInv'
  BY DEF TypeOK, ProofInv, RefersInv, Refers
<1>7. AttachedIsSettled'
  BY DEF TypeOK, AttachedIsSettled, ProofInv, RefersInv, Refers
<1> QED
  BY <1>1, <1>2, <1>3, <1>4, <1>5, <1>6, <1>7

\* The winning publication completes its own reservation.
LEMMA PublishKeeps ==
    ASSUME HostingInv, NEW t \in Tasks, Publish(t)
    PROVE  HostingInv'
<1> USE HostingAssumption, HomeIsProcess DEF HostingInv, Publish, Lineages
<1>1. TypeOK'
  BY DEF TypeOK, Settlements, ProofInv
<1>2. RefersInv'
  BY DEF TypeOK, RefersInv, EntryInv, Refers, Strong
<1>3. EntryInv' /\ LockInv'
  BY DEF EntryInv, LockInv
<1>4. DeadInv'
  BY DEF TypeOK, DeadInv, ProofInv, Strong, Refers
<1>5. DyingInv'
  BY DEF TypeOK, DyingInv, EntryInv, RefersInv, Strong, Refers
<1>6. ProofInv'
  BY DEF TypeOK, ProofInv, RefersInv, Refers
<1>7. AttachedIsSettled'
  BY DEF TypeOK, AttachedIsSettled, ProofInv, RefersInv, Refers
<1> QED
  BY <1>1, <1>2, <1>3, <1>4, <1>5, <1>6, <1>7

\* A publication on a settled lineage changes no reference.
LEMMA PublishSettledKeeps ==
    ASSUME HostingInv, NEW t \in Tasks, PublishSettled(t)
    PROVE  HostingInv'
<1> USE HostingAssumption, HomeIsProcess DEF HostingInv, PublishSettled, Registering, Lineages
<1>1. TypeOK'
  BY DEF TypeOK, Settlements
<1>2. RefersInv' /\ EntryInv' /\ DeadInv' /\ LockInv' /\ DyingInv'
  BY DEF RefersInv, EntryInv, DeadInv, LockInv, DyingInv, Strong, Refers
<1>3. ProofInv' /\ AttachedIsSettled'
  BY DEF TypeOK, ProofInv, AttachedIsSettled
<1> QED
  BY <1>1, <1>2, <1>3

\* A child's copy of the lock file changes neither entries nor references.
LEMMA SpawnKeeps ==
    ASSUME HostingInv, NEW p \in Processes, Spawn(p)
    PROVE  HostingInv'
<1> USE HostingAssumption, HomeIsProcess DEF HostingInv, Spawn, Lineages
<1>1. TypeOK'
  BY DEF TypeOK, Settlements
<1>2. RefersInv' /\ EntryInv' /\ DeadInv' /\ LockInv' /\ DyingInv'
  BY DEF RefersInv, EntryInv, DeadInv, LockInv, DyingInv, Strong, Refers
<1>3. ProofInv' /\ AttachedIsSettled'
  BY DEF TypeOK, ProofInv, AttachedIsSettled
<1> QED
  BY <1>1, <1>2, <1>3

\* The last copy of a stopped process's file takes its lock with it.
LEMMA ExecKeeps ==
    ASSUME HostingInv, NEW p \in Processes, Exec(p)
    PROVE  HostingInv'
<1> USE HostingAssumption, HomeIsProcess DEF HostingInv, Exec, Lineages
<1>1. TypeOK'
  BY DEF TypeOK, Settlements
<1>2. RefersInv' /\ EntryInv' /\ DeadInv' /\ LockInv' /\ DyingInv'
  BY DEF TypeOK, RefersInv, EntryInv, DeadInv, LockInv, DyingInv, Strong, Refers
<1>3. ProofInv' /\ AttachedIsSettled'
  BY DEF TypeOK, ProofInv, AttachedIsSettled
<1> QED
  BY <1>1, <1>2, <1>3

\* A crash ends all references of its process, and only those.
LEMMA CrashKeeps ==
    ASSUME HostingInv, NEW p \in Processes, Crash(p)
    PROVE  HostingInv'
<1> USE HostingAssumption, HomeIsProcess DEF HostingInv, Crash, Cleared, OfProcess, Lineages
<1>1. TypeOK'
  <2>1. /\ claim' \in [Tasks -> {None} \cup Lineages]
        /\ write' \in [Tasks -> {None} \cup Lineages]
        /\ reservation' \in [Tasks -> {None} \cup Lineages]
    BY DEF TypeOK
  <2>2. entry' \in [Processes -> {None} \cup Lineages]
    BY DEF TypeOK
  <2>3. lock' \in {None} \cup Processes /\ up' \in SUBSET Processes
    BY DEF TypeOK
  <2>4. /\ installed' \in SUBSET Owners
        /\ unasked' \in SUBSET Tasks
        /\ attached' \in SUBSET Tasks
        /\ crashes' \in Nat
    BY DEF TypeOK
  <2>5. dying' \subseteq dying
    OBVIOUS
  <2> QED
    BY <2>1, <2>2, <2>3, <2>4, <2>5 DEF TypeOK
<1>2. RefersInv'
  BY DEF TypeOK, RefersInv, EntryInv, Refers, Strong
<1>3. EntryInv'
  BY DEF TypeOK, EntryInv
<1>4. DeadInv'
  BY DEF TypeOK, DeadInv, EntryInv, Strong, Refers, RefersInv
<1>5. LockInv'
  BY DEF TypeOK, LockInv, EntryInv, DyingInv
<1>6. DyingInv'
  BY DEF TypeOK, DyingInv, EntryInv, RefersInv, Strong, Refers
<1>7. ProofInv'
  BY DEF TypeOK, ProofInv, RefersInv, Refers
<1>8. AttachedIsSettled'
  BY DEF TypeOK, AttachedIsSettled, ProofInv, RefersInv, Refers
<1> QED
  BY <1>1, <1>2, <1>3, <1>4, <1>5, <1>6, <1>7, <1>8

\* A process restarts only when no copy of its file holds the lock.
LEMMA RestartKeeps ==
    ASSUME HostingInv, NEW p \in Processes, Restart(p)
    PROVE  HostingInv'
<1> USE HostingAssumption, HomeIsProcess DEF HostingInv, Restart, Lineages
<1>1. TypeOK'
  BY DEF TypeOK, Settlements
<1>2. RefersInv' /\ EntryInv' /\ DeadInv' /\ LockInv' /\ DyingInv'
  BY DEF TypeOK, RefersInv, EntryInv, DeadInv, LockInv, DyingInv, Strong, Refers
<1>3. ProofInv' /\ AttachedIsSettled'
  BY DEF TypeOK, ProofInv, AttachedIsSettled
<1> QED
  BY <1>1, <1>2, <1>3

\* Every step keeps the invariant.
LEMMA HostingNext == HostingInv /\ [Next]_vars => HostingInv'
<1> SUFFICES ASSUME HostingInv, [Next]_vars
             PROVE  HostingInv'
  OBVIOUS
<1>1. CASE UNCHANGED vars
  BY <1>1 DEF vars, HostingInv, TypeOK, RefersInv, EntryInv, DeadInv, LockInv, DyingInv,
              ProofInv, AttachedIsSettled, Strong, Refers
<1>2. CASE Next
  BY <1>2, GrantJoinedKeeps, TookOverKeeps, FreshKeeps, DropClaimKeeps, StartWriteKeeps,
     WriteReturnsKeeps, DestroyKeeps, InstallKeeps, UnsettledKeeps, ReserveKeeps, AbandonKeeps, PublishKeeps,
     PublishSettledKeeps, SpawnKeeps, ExecKeeps, CrashKeeps, RestartKeeps
     DEF Next
<1> QED
  BY <1>1, <1>2

\* The invariant holds in every reachable state.
LEMMA HostingSafe == Spec => []HostingInv
BY HostingInit, HostingNext, PTL DEF Spec

\* Whoever works under a claim is the runtime owner that began the lineage in
\* the entry of its process, and that process has the OS lock, for any number
\* of processes, owners, tasks, lineages and crashes (try_claim_session, Drop
\* for ClaimInner, spawn_blocking_holding_claim).
THEOREM HostingHoldsLock == Spec => []HostHoldsLock
<1>1. HostingInv => HostHoldsLock
  BY HomeIsProcess, HostingAssumption
     DEF HostingInv, TypeOK, RefersInv, EntryInv, HostHoldsLock, Lineages
<1> QED
  BY <1>1, HostingSafe, PTL

\* No lock is leaked: a running process that has the lock has an entry for
\* it, and a dead entry waits for the destructor of its own lineage.
THEOREM LockIsNotLeaked == Spec => []NoLeakedLock
<1>1. HostingInv => NoLeakedLock
  BY DEF HostingInv, LockInv, DeadInv, NoLeakedLock
<1> QED
  BY <1>1, HostingSafe, PTL

\* A published registration has settled the loss of the earlier owner, unless
\* no consent owner was installed when it asked (reserve_consent_owner_loss,
\* install_consent_owner_loss_settlement).
THEOREM AttachmentIsSettled == Spec => []AttachedIsSettled
<1>1. HostingInv => AttachedIsSettled
  BY DEF HostingInv
<1> QED
  BY <1>1, HostingSafe, PTL

-----------------------------------------------------------------------------

\* The host is the owner that began the only lineage with references, and its
\* tenure is settled when that lineage is; without references nobody hosts.
TenureOf ==
    /\ \A l \in Lineages :
          Strong(l) => /\ Host = began[l]
                       /\ Host \in Owners
                       /\ Host # None
                       /\ SettledNow <=> loss[l] = "Completed"
    /\ (\A l \in Lineages : ~Strong(l)) => Host = None /\ ~SettledNow

\* What the refinement mapping says of a state with the invariant.
LEMMA HostOfStrong == HostingInv => TenureOf
<1> SUFFICES ASSUME HostingInv PROVE TenureOf
  OBVIOUS
<1>1. ASSUME NEW l \in Lineages, Strong(l)
      PROVE  /\ Host = began[l]
             /\ Host \in Owners
             /\ Host # None
             /\ SettledNow <=> loss[l] = "Completed"
  <2>1. \A k \in Lineages : Strong(k) => k = l
    BY <1>1, OneStrongLineage
  <2>2. (CHOOSE k \in Lineages : Strong(k)) = l
    BY <1>1, <2>1
  <2>3. began[l] \in Owners /\ began[l] # None
    BY <1>1, HomeIsProcess DEF HostingInv, RefersInv, Strong
  <2> QED
    BY <1>1, <2>1, <2>2, <2>3 DEF Host, SettledNow
<1> QED
  BY <1>1 DEF TenureOf, Host, SettledNow

\* The same references and settlements are the same tenure.
LEMMA SameTenure ==
    ASSUME TenureOf, TenureOf', began' = began,
           \A l \in Lineages : loss'[l] = "Completed" <=> loss[l] = "Completed",
           \A l \in Lineages : Strong(l)' <=> Strong(l)
    PROVE  UNCHANGED <<Host, SettledNow>>
<1>1. Host' = Host
  BY DEF TenureOf
<1>2. SettledNow' = SettledNow
  BY DEF SettledNow
<1> QED
  BY <1>1, <1>2

\* A tenure ends when the last reference goes.
LEMMA EndsTenure ==
    ASSUME TenureOf, TenureOf', NEW l \in Lineages, Strong(l),
           \A k \in Lineages : ~Strong(k)'
    PROVE  Abstract!End
BY DEF TenureOf, Abstract!End, SettledNow

\* References that go are a tenure that ends, or goes on with the others.
LEMMA FewerReferences ==
    ASSUME HostingInv, TenureOf, TenureOf', began' = began,
           \A l \in Lineages : loss'[l] = "Completed" <=> loss[l] = "Completed",
           \A l \in Lineages : Strong(l)' => Strong(l)
    PROVE  Abstract!End \/ UNCHANGED <<Host, SettledNow>>
<1>1. CASE \A l \in Lineages : Strong(l)' <=> Strong(l)
  BY <1>1, SameTenure
<1>2. CASE \E l \in Lineages : Strong(l) /\ ~Strong(l)'
  <2> PICK l \in Lineages : Strong(l) /\ ~Strong(l)'
    BY <1>2
  <2>1. \A k \in Lineages : ~Strong(k)'
    BY OneStrongLineage
  <2> QED
    BY <2>1, EndsTenure
<1> QED
  BY <1>1, <1>2

\* A grant that begins a lineage begins a tenure.
LEMMA BeginsTenure ==
    ASSUME TenureOf, TenureOf', NEW t \in Tasks, NEW l \in Lineages,
           TypeOK, BeginLineage(t, l), \A k \in Lineages : ~Strong(k)
    PROVE  Abstract!Begin(OwnerOf[t])
<1>1. Strong(l)'
  BY DEF Strong, Refers, BeginLineage, Take, TypeOK
<1>2. began'[l] = OwnerOf[t] /\ loss'[l] = "Owed"
  BY DEF BeginLineage, TypeOK
<1> QED
  BY <1>1, <1>2 DEF TenureOf, Abstract!Begin, SettledNow

\* Every step of the claims is a step of exclusive hosting, or leaves the
\* tenure alone.
LEMMA TenureStep ==
    ASSUME HostingInv, HostingInv', Next
    PROVE  Abstract!Next \/ UNCHANGED <<Host, SettledNow>>
<1>1. TenureOf /\ TenureOf'
  BY HostOfStrong, PTL
<1>2. ASSUME NEW t \in Tasks, GrantJoined(t)
      PROVE  UNCHANGED <<Host, SettledNow>>
  <2>1. \A l \in Lineages : Strong(l)' <=> Strong(l)
    BY <1>2, HostingAssumption DEF HostingInv, TypeOK, Lineages, GrantJoined, Take, Strong, Refers
  <2> QED
    BY <1>1, <1>2, <2>1, SameTenure DEF GrantJoined
<1>3. ASSUME NEW t \in Tasks, NEW l \in Lineages, GrantTookOver(t, l) \/ GrantFresh(t, l)
      PROVE  Abstract!Begin(OwnerOf[t])
  <2>1. \A k \in Lineages : ~Strong(k)
    BY <1>3, HomeIsProcess, HostingAssumption
       DEF GrantTookOver, GrantFresh, HostingInv, TypeOK, RefersInv, EntryInv, Strong, Lineages
  <2> QED
    BY <1>1, <1>3, <2>1, BeginsTenure DEF GrantTookOver, GrantFresh, HostingInv
<1>4. ASSUME NEW t \in Tasks, DropClaim(t) \/ WriteReturns(t) \/ Abandon(t)
      PROVE  Abstract!End \/ UNCHANGED <<Host, SettledNow>>
  <2>1. \A l \in Lineages : Strong(l)' => Strong(l)
    BY <1>4, HostingAssumption
       DEF DropClaim, WriteReturns, Abandon, HostingInv, TypeOK, Lineages, Strong, Refers
  <2>2. \A l \in Lineages : loss'[l] = "Completed" <=> loss[l] = "Completed"
    BY <1>4 DEF DropClaim, WriteReturns, Abandon, HostingInv, TypeOK
  <2> QED
    BY <1>1, <1>4, <2>1, <2>2, FewerReferences DEF DropClaim, WriteReturns, Abandon
<1>5. ASSUME NEW p \in Processes, Crash(p)
      PROVE  Abstract!End \/ UNCHANGED <<Host, SettledNow>>
  <2>1. \A l \in Lineages : Strong(l)' => Strong(l)
    BY <1>5, HostingAssumption
       DEF Crash, Cleared, HostingInv, TypeOK, Lineages, Strong, Refers
  <2> QED
    BY <1>1, <1>5, <2>1, FewerReferences DEF Crash
<1>6. ASSUME NEW t \in Tasks, StartWrite(t) \/ Reserve(t) \/ PublishSettled(t)
      PROVE  UNCHANGED <<Host, SettledNow>>
  <2>1. \A l \in Lineages : Strong(l)' <=> Strong(l)
    BY <1>6, HostingAssumption
       DEF StartWrite, Reserve, PublishSettled, HostingInv, TypeOK, ProofInv, Lineages, Strong,
           Refers
  <2>2. \A l \in Lineages : loss'[l] = "Completed" <=> loss[l] = "Completed"
    BY <1>6 DEF StartWrite, Reserve, PublishSettled, HostingInv, TypeOK
  <2> QED
    BY <1>1, <1>6, <2>1, <2>2, SameTenure DEF StartWrite, Reserve, PublishSettled
<1>7. ASSUME NEW t \in Tasks, Publish(t)
      PROVE  Abstract!Settle
  <2>1. PICK l \in Lineages : l = reservation[t]
    BY <1>7 DEF Publish, HostingInv, TypeOK
  <2>2. Strong(l) /\ Strong(l)'
    BY <1>7, <2>1 DEF Publish, HostingInv, ProofInv, Strong, Refers
  <2>3. loss[l] # "Completed" /\ loss'[l] = "Completed" /\ began' = began
    BY <1>7, <2>1 DEF Publish, HostingInv, TypeOK, ProofInv
  <2> QED
    BY <1>1, <2>2, <2>3 DEF TenureOf, Abstract!Settle, SettledNow
<1>8. ASSUME NEW l \in Lineages, Destroy(l)
      PROVE  UNCHANGED <<Host, SettledNow>>
  BY <1>1, <1>8, SameTenure DEF Destroy, Strong, Refers
<1>9. ASSUME NEW p \in Processes, Spawn(p) \/ Exec(p) \/ Restart(p)
      PROVE  UNCHANGED <<Host, SettledNow>>
  BY <1>1, <1>9, SameTenure DEF Spawn, Exec, Restart, Strong, Refers
<1>10. ASSUME NEW t \in Tasks, AskNobody(t) \/ PublishUnsettled(t)
       PROVE  UNCHANGED <<Host, SettledNow>>
  BY <1>1, <1>10, SameTenure DEF AskNobody, PublishUnsettled, Strong, Refers
<1>11. ASSUME NEW o \in ConsentOwners, Install(o)
       PROVE  UNCHANGED <<Host, SettledNow>>
  BY <1>1, <1>11, SameTenure DEF Install, Strong, Refers
<1> QED
  BY <1>2, <1>3, <1>4, <1>5, <1>6, <1>7, <1>8, <1>9, <1>10, <1>11, HomeIsProcess
     DEF Next, Abstract!Next

\* The hosting claims implement exclusive hosting: any number of processes,
\* owners and tasks, their crashes and late destructors included, show at any
\* time at most one host, whose tenure begins on a session nobody hosts and
\* settles the earlier owner's loss at most once.
THEOREM ClaimsAreExclusive == Spec => HostingIsExclusive
<1>1. Init => Abstract!Init
  <2>1. Init => \A l \in Lineages : ~Strong(l)
    BY HostingAssumption DEF Init, Strong, Refers, Lineages
  <2> QED
    BY <2>1 DEF Abstract!Init, Host, SettledNow
<1>2. HostingInv /\ HostingInv' /\ [Next]_vars => [Abstract!Next]_(Abstract!vars)
  <2> SUFFICES ASSUME HostingInv, HostingInv', [Next]_vars
               PROVE  Abstract!Next \/ UNCHANGED <<Host, SettledNow>>
    BY DEF Abstract!vars
  <2>1. CASE UNCHANGED vars
    BY <2>1 DEF vars, Host, SettledNow, Strong, Refers
  <2> QED
    BY <2>1, TenureStep
<1> QED
  BY <1>1, <1>2, HostingSafe, PTL DEF Spec, HostingIsExclusive, Abstract!Spec
=============================================================================
