------------------------ MODULE JobProjectionProofs ------------------------
(***************************************************************************)
(* The way of a job's entries into the inbox: the inbox keeps their order, *)
(* an entry marked applied is a row, and the applier never runs a          *)
(* terminal that its producer applies.                                     *)
(*                                                                         *)
(* The inductive invariant is ProjectionInv.  InboxKeepsJobOrder is not    *)
(* inductive: a projector works on the list it read, so ListInv says that  *)
(* every entry that is missing from a list and lies below one of its       *)
(* entries is a row already.  ProducerEffectOnce needs TerminalInv: the    *)
(* row of a producer's terminal is acknowledged, or passed, from its       *)
(* commit on.  What an inbox input does to the record is taken from        *)
(* RuntimeDeliveryProofs.                                                  *)
(***************************************************************************)
EXTENDS JobProjection, RuntimeDeliveryProofs

Types ==
    /\ outbox \in Seq(Entry)
    /\ Len(outbox) <= Cardinality(DeliveryIds)
    /\ producer_applied \in BOOLEAN

\* Rows and executed sinks belong to entries of the outbox.
EntryInv ==
    /\ \A id \in DeliveryIds : Committed(authority, id) => id \in 1..Len(outbox)
    /\ executed \subseteq 1..Len(outbox)

\* The first entry of a list.
First(p, id) == id \in p.todo /\ \A i \in p.todo : id <= i

\* What a projector's list leaves out below one of its entries is committed,
\* and an entry that is being marked is.
ListOk(p, x) ==
    /\ p \in Projector
    /\ p.todo \subseteq 1..Len(outbox)
    /\ \A id \in p.todo : \A i \in 1..Len(outbox) :
          i < id => i \in p.todo \/ Committed(authority, i)
    /\ p.at = "mark" => \A id \in DeliveryIds : First(p, id) => Committed(authority, id)
    /\ p.at = "acknowledge" => outbox # <<>>
    /\ x[1] = "shell" /\ p.at = "list" => outbox # <<>>
    /\ x[1] = "shell" /\ p.todo # {} => outbox # <<>>

ListInv ==
    /\ projector \in [Projectors -> Projector]
    /\ \A x \in Projectors : ListOk(projector[x], x)

TerminalInv ==
    producer_applied =>
        \A id \in DeliveryIds :
            Committed(authority, id) /\ outbox[id].terminal
                => Acknowledged(authority, id) \/ Passed(authority, id)

ProjectionInv ==
    /\ Types
    /\ WellFormed(authority)
    /\ EntryInv
    /\ ListInv
    /\ TerminalInv
    /\ InboxKeepsJobOrder
    /\ AppliedMeansCommitted
    /\ ProducerEffectOnce

-----------------------------------------------------------------------------

\* Deliveries are numbered like the entries of the outbox.
LEMMA IdsAreNumbers ==
    /\ Cardinality(DeliveryIds) \in Nat
    /\ DeliveryIds = 1..Cardinality(DeliveryIds)
BY ProjectionAssumption, FS_CardinalityType

\* The invariant holds before the first entry.
LEMMA ProjectionInit == Init => ProjectionInv
<1> HAVE Init
<1>1. WellFormed(authority)
  BY EmptyWellFormed DEF Init
<1>2. \A id \in DeliveryIds : ~Committed(authority, id)
  BY DEF Init, EmptyAuthority, Committed
<1>3. Types
  BY IdsAreNumbers DEF Init, Types
<1>4. ListInv
  BY DEF Init, ListInv, ListOk, Idle, Projector
<1> QED
  BY <1>1, <1>2, <1>3, <1>4 DEF Init, ProjectionInv, EntryInv, TerminalInv, InboxKeepsJobOrder,
     AppliedMeansCommitted, ProducerEffectOnce

\* The effect of an inbox call on the rows: they stay, or id is committed as
\* the last one.
InboxEffect(d, dn) ==
    /\ WellFormed(dn)
    /\ \A i \in DeliveryIds :
          Acknowledged(d, i) \/ Passed(d, i) => Acknowledged(dn, i) \/ Passed(dn, i)

\* An input to the authority keeps every row at its sequence.
LEMMA InputKeepsRows ==
    ASSUME NEW d, WellFormed(d), NEW dn, NEW id, InputEffect(d, dn, id)
    PROVE  /\ InboxEffect(d, dn)
           /\ dn.delivery_sequences = d.delivery_sequences
<1>1. WellFormed(dn) /\ Advances(d, dn)
  BY DEF InputEffect
<1>2. dn.delivery_sequences = d.delivery_sequences
  BY DEF InputEffect, Silent, Passes, AcknowledgesAhead, SameRows
<1> QED
  BY <1>1, <1>2 DEF InboxEffect, Advances

\* A step that leaves the outbox and the projectors alone and only moves the
\* authority on, its rows being the same.
LEMMA AuthorityMoves ==
    ASSUME ProjectionInv, InboxEffect(authority, authority'),
           authority'.delivery_sequences = authority.delivery_sequences,
           UNCHANGED <<outbox, producer_applied>>
    PROVE  /\ WellFormed(authority')
           /\ \A i : Committed(authority, i)' <=> Committed(authority, i)
           /\ TerminalInv' /\ InboxKeepsJobOrder' /\ AppliedMeansCommitted'
<1>1. WellFormed(authority')
  BY DEF InboxEffect
<1>2. \A i : Committed(authority, i)' <=> Committed(authority, i)
  BY DEF Committed
<1>3. TerminalInv'
  BY <1>2 DEF TerminalInv, ProjectionInv, InboxEffect
<1>4. InboxKeepsJobOrder' /\ AppliedMeansCommitted'
  BY <1>2 DEF InboxKeepsJobOrder, AppliedMeansCommitted, ProjectionInv
<1> QED
  BY <1>1, <1>2, <1>3, <1>4

-----------------------------------------------------------------------------
(* Steps of the projectors that leave outbox and inbox alone.              *)

\* The record of a projector that starts over.
LEMMA IdleOk ==
    ASSUME NEW x
    PROVE  ListOk(Idle, x)
BY DEF ListOk, Idle, Projector

\* One projector changes, everything the invariant reads otherwise stays.
LEMMA OneProjector ==
    ASSUME ProjectionInv, NEW x \in Projectors, NEW p, ListOk(p, x),
           projector' = [projector EXCEPT ![x] = p],
           UNCHANGED <<outbox, producer_applied, authority, executed>>
    PROVE  ProjectionInv'
<1>1. ListInv'
  <2>1. p \in Projector
    BY DEF ListOk
  <2>2. projector' \in [Projectors -> Projector]
    BY <2>1 DEF ProjectionInv, ListInv
  <2>3. ASSUME NEW y \in Projectors PROVE ListOk(projector[y], y)'
    <3>1. ListOk(projector'[y], y)
      BY DEF ProjectionInv, ListInv
    <3> QED
      BY <3>1 DEF ListOk
  <2> QED
    BY <2>2, <2>3 DEF ListInv
<1> QED
  BY <1>1 DEF ProjectionInv, Types, EntryInv, TerminalInv, InboxKeepsJobOrder,
     AppliedMeansCommitted, ProducerEffectOnce, Committed, Acknowledged, Passed

\* Nothing the invariant reads changes.
LEMMA NothingChanges ==
    ASSUME ProjectionInv,
           UNCHANGED <<outbox, producer_applied, authority, executed, projector>>
    PROVE  ProjectionInv'
BY DEF ProjectionInv, Types, EntryInv, ListInv, ListOk, TerminalInv, InboxKeepsJobOrder,
   AppliedMeansCommitted, ProducerEffectOnce, Committed, Acknowledged, Passed

\* The projectors of a stopped process start over.
LEMMA ProjectorsStop ==
    ASSUME ProjectionInv, NEW h, projector' = Stopped(h),
           UNCHANGED <<outbox, producer_applied, authority, executed>>
    PROVE  ProjectionInv'
<1>1. ListInv'
  <2>1. Idle \in Projector
    BY DEF Idle, Projector
  <2>2. projector' \in [Projectors -> Projector]
    BY <2>1 DEF ProjectionInv, ListInv, Stopped
  <2>3. ASSUME NEW y \in Projectors PROVE ListOk(projector[y], y)'
    <3>1. ListOk(projector'[y], y)
      BY IdleOk DEF ProjectionInv, ListInv, Stopped
    <3> QED
      BY <3>1 DEF ListOk
  <2> QED
    BY <2>2, <2>3 DEF ListInv
<1> QED
  BY <1>1 DEF ProjectionInv, Types, EntryInv, TerminalInv, InboxKeepsJobOrder,
     AppliedMeansCommitted, ProducerEffectOnce, Committed, Acknowledged, Passed

\* After an entry that is committed a projector goes on.
LEMMA AdvanceOk ==
    ASSUME ProjectionInv, NEW x \in Projectors, NEW id \in DeliveryIds, Current(x, id),
           Committed(authority, id)
    PROVE  /\ ListOk(Advance(projector[x], x, id), x)
           /\ ListOk([Advance(projector[x], x, id) EXCEPT !.projected = TRUE], x)
<1>1. projector[x] \in Projector /\ ListOk(projector[x], x) /\ id \in projector[x].todo
  BY DEF ProjectionInv, ListInv, Current
<1>2. x[1] = "shell" => outbox # <<>>
  BY <1>1 DEF ListOk
<1>3. CASE x[1] = "owner"
  <2> DEFINE p == [projector[x] EXCEPT !.at = "prepare", !.todo = @ \ {id}]
             q == [p EXCEPT !.projected = TRUE]
  <2>1. /\ p \in Projector /\ p.todo = projector[x].todo \ {id} /\ p.at = "prepare"
        /\ q \in Projector /\ q.todo = projector[x].todo \ {id} /\ q.at = "prepare"
    BY <1>1 DEF Projector
  <2> HIDE DEF p, q
  <2>2. ListOk(p, x) /\ ListOk(q, x)
    BY <1>1, <1>3, <2>1 DEF ListOk
  <2> QED
    BY <1>3, <2>2 DEF Advance, p, q
<1>4. CASE x[1] # "owner"
  <2> DEFINE p == [Idle EXCEPT !.at = "list"]
             q == [p EXCEPT !.projected = TRUE]
  <2>1. /\ p \in Projector /\ p.todo = {} /\ p.at = "list"
        /\ q \in Projector /\ q.todo = {} /\ q.at = "list"
    BY DEF Projector, Idle
  <2> HIDE DEF p, q
  <2>2. ListOk(p, x) /\ ListOk(q, x)
    BY <1>2, <2>1 DEF ListOk
  <2> QED
    BY <1>4, <2>2 DEF Advance, p, q
<1> QED
  BY <1>3, <1>4

\* A projector that keeps its list and is neither marking nor acknowledging.
LEMMA SameListOk ==
    ASSUME ProjectionInv, NEW x \in Projectors, NEW p \in Projector,
           p.todo = projector[x].todo, p.at \in {"prepare", "submit"}
    PROVE  ListOk(p, x)
BY DEF ProjectionInv, ListInv, ListOk

\* A list that is taken from the outbox, or empty.
LEMMA FreshListOk ==
    ASSUME ProjectionInv, NEW x \in Projectors, NEW p \in Projector,
           p.todo \in {PendingEntries, {}}, p.at = "prepare", x[1] = "shell" => outbox # <<>>
    PROVE  ListOk(p, x)
<1>1. \A i \in 1..Len(outbox) : i \notin PendingEntries => Committed(authority, i)
  BY DEF ProjectionInv, AppliedMeansCommitted, PendingEntries
<1>2. PendingEntries \subseteq 1..Len(outbox)
  BY DEF PendingEntries
<1> QED
  BY <1>1, <1>2 DEF ListOk

\* A failed entry.
LEMMA FailKeeps ==
    ASSUME ProjectionInv, NEW x \in Projectors, Fail(x),
           UNCHANGED <<outbox, producer_applied, authority, executed>>
    PROVE  ProjectionInv'
<1>1. projector[x] \in Projector
  BY DEF ProjectionInv, ListInv
<1>2. CASE x[1] = "owner"
  <2> DEFINE p == [projector[x] EXCEPT !.at = "prepare", !.todo = {}, !.skipped = TRUE]
  <2>1. p \in Projector /\ p.todo = {} /\ p.at = "prepare"
    BY <1>1 DEF Projector
  <2>2. projector' = [projector EXCEPT ![x] = p]
    BY <1>2 DEF Fail
  <2> HIDE DEF p
  <2>3. ListOk(p, x)
    BY <1>2, <2>1, FreshListOk
  <2> QED
    BY <2>2, <2>3, OneProjector
<1>3. CASE x[1] # "owner"
  <2>1. projector' = [projector EXCEPT ![x] = Idle]
    BY <1>3 DEF Fail
  <2> QED
    BY <2>1, IdleOk, OneProjector
<1> QED
  BY <1>2, <1>3

-----------------------------------------------------------------------------
(* Steps that change the outbox, the inbox or the sinks.                   *)

\* The job commits one more entry.
LEMMA EntryCommits ==
    ASSUME ProjectionInv, NEW terminal \in BOOLEAN,
           Len(outbox) < Cardinality(DeliveryIds),
           outbox' = Append(outbox, [terminal |-> terminal, applied |-> FALSE]),
           UNCHANGED <<producer_applied, authority, executed>>,
           projector' = projector \/ \E h : projector' = Stopped(h)
    PROVE  ProjectionInv'
<1>1. /\ outbox \in Seq(Entry) /\ Len(outbox) \in Nat
      /\ \A i \in DeliveryIds : Committed(authority, i) => i \in 1..Len(outbox)
      /\ executed \subseteq 1..Len(outbox)
  BY DEF ProjectionInv, Types, EntryInv
<1>2. /\ outbox' \in Seq(Entry)
      /\ Len(outbox') = Len(outbox) + 1
      /\ \A i \in 1..Len(outbox) : outbox'[i] = outbox[i]
      /\ outbox'[Len(outbox) + 1].applied = FALSE
      /\ outbox' # <<>>
  <2>1. [terminal |-> terminal, applied |-> FALSE] \in Entry
    BY DEF Entry
  <2> QED
    BY <1>1, <2>1
<1>3. Types'
  BY <1>1, <1>2, IdsAreNumbers DEF ProjectionInv, Types
<1>4. EntryInv' /\ InboxKeepsJobOrder' /\ WellFormed(authority)'
  BY <1>1, <1>2 DEF ProjectionInv, EntryInv, InboxKeepsJobOrder, Committed
<1>5. TerminalInv' /\ ProducerEffectOnce'
  BY <1>1, <1>2 DEF ProjectionInv, TerminalInv, ProducerEffectOnce, Committed, Acknowledged,
                    Passed
<1>6. AppliedMeansCommitted'
  <2> SUFFICES ASSUME NEW i \in 1..Len(outbox'), outbox'[i].applied
               PROVE  Committed(authority, i)
    BY DEF AppliedMeansCommitted, Committed
  <2>1. i # Len(outbox) + 1
    BY <1>2
  <2>2. i \in 1..Len(outbox)
    BY <1>1, <1>2, <2>1
  <2> QED
    BY <1>2, <2>2 DEF ProjectionInv, AppliedMeansCommitted
<1>7. ListInv'
  <2>1. /\ projector' \in [Projectors -> Projector]
        /\ \A x \in Projectors : projector'[x] \in {projector[x], Idle}
    <3>1. Idle \in Projector
      BY DEF Idle, Projector
    <3> QED
      BY <3>1 DEF ProjectionInv, ListInv, Stopped
  <2>2. ASSUME NEW x \in Projectors PROVE ListOk(projector[x], x)'
    <3>1. ListOk(projector'[x], x)
      BY <2>1, IdleOk DEF ProjectionInv, ListInv
    <3>2. \A id \in projector'[x].todo, i \in 1..Len(outbox') : i < id => i \in 1..Len(outbox)
      BY <1>1, <1>2, <3>1 DEF ListOk
    <3> QED
      BY <1>1, <1>2, <3>1, <3>2 DEF ListOk, Committed, First
  <2> QED
    BY <2>1, <2>2 DEF ListInv
<1> QED
  BY <1>3, <1>4, <1>5, <1>6, <1>7 DEF ProjectionInv

\* The lists stay good when rows are added.
LEMMA ListsKeep ==
    ASSUME ProjectionInv, UNCHANGED outbox,
           \A i \in DeliveryIds : Committed(authority, i) => Committed(authority, i)',
           NEW p, NEW x, ListOk(p, x)
    PROVE  ListOk(p, x)'
<1>1. 1..Len(outbox) \subseteq DeliveryIds
  BY IdsAreNumbers DEF ProjectionInv, Types
<1> QED
  BY <1>1 DEF ListOk

\* The applier runs the sink of a row.
LEMMA ApplyKeeps ==
    ASSUME ProjectionInv, NEW id \in DeliveryIds, Apply(id)
    PROVE  ProjectionInv'
<1>1. InputEffect(authority, authority', id)
  BY MarkAppliedEffect DEF Apply, ProjectionInv
<1>2. /\ InboxEffect(authority, authority')
      /\ authority'.delivery_sequences = authority.delivery_sequences
  BY <1>1, InputKeepsRows DEF ProjectionInv
<1>3. /\ WellFormed(authority')
      /\ \A i : Committed(authority, i)' <=> Committed(authority, i)
      /\ TerminalInv' /\ InboxKeepsJobOrder' /\ AppliedMeansCommitted'
  BY <1>2, AuthorityMoves DEF Apply
<1>4. ~(producer_applied /\ outbox[id].terminal)
  <2>1. ~Passed(authority, id)
    BY FieldTypes DEF Apply, AtCursor, Passed, ProjectionInv, WellFormed
  <2> QED
    BY <2>1 DEF Apply, ProjectionInv, TerminalInv
<1>5. id \in 1..Len(outbox)
  BY DEF Apply, ProjectionInv, EntryInv
<1>6. EntryInv' /\ ProducerEffectOnce'
  BY <1>3, <1>4, <1>5 DEF Apply, ProjectionInv, EntryInv, ProducerEffectOnce
<1>7. ListInv'
  BY <1>3, ListsKeep DEF Apply, ProjectionInv, ListInv
<1> QED
  BY <1>3, <1>6, <1>7 DEF ProjectionInv, Types, Apply

\* The shell acknowledges the row of the terminal it applied.
LEMMA AcknowledgeKeeps ==
    ASSUME ProjectionInv, NEW h, <<"shell", h>> \in Projectors, AcknowledgeApplied(h)
    PROVE  ProjectionInv'
<1> DEFINE x == <<"shell", h>>
           id == Len(outbox)
<1>1. projector[x].at = "acknowledge" /\ ListOk(projector[x], x)
  BY DEF AcknowledgeApplied, ProjectionInv, ListInv
<1>2. id \in DeliveryIds
  <2>1. outbox # <<>> /\ outbox \in Seq(Entry)
    BY <1>1 DEF ListOk, ProjectionInv, Types
  <2>2. Len(outbox) \in Nat \ {0}
    BY <2>1
  <2> QED
    BY <2>2, IdsAreNumbers DEF ProjectionInv, Types
<1>3. /\ projector' = [projector EXCEPT ![x] = Idle]
      /\ UNCHANGED <<outbox, producer_applied, executed>>
  BY DEF AcknowledgeApplied
<1>4. CASE AcknowledgeDelivery(authority, authority', id)
  <2>1. InputEffect(authority, authority', id)
    BY <1>2, <1>4, AcknowledgeEffect DEF ProjectionInv
  <2>2. /\ InboxEffect(authority, authority')
        /\ authority'.delivery_sequences = authority.delivery_sequences
    BY <2>1, InputKeepsRows DEF ProjectionInv
  <2>3. /\ WellFormed(authority')
        /\ \A i : Committed(authority, i)' <=> Committed(authority, i)
        /\ TerminalInv' /\ InboxKeepsJobOrder' /\ AppliedMeansCommitted'
    BY <1>3, <2>2, AuthorityMoves
  <2>4. EntryInv' /\ ProducerEffectOnce' /\ Types'
    BY <1>3, <2>3 DEF ProjectionInv, EntryInv, ProducerEffectOnce, Types
  <2>5. ListInv'
    <3>1. projector' \in [Projectors -> Projector]
      BY <1>3, IdleOk DEF ProjectionInv, ListInv, ListOk
    <3>2. ASSUME NEW y \in Projectors PROVE ListOk(projector'[y], y)
      BY <1>3, IdleOk DEF ProjectionInv, ListInv
    <3>3. ASSUME NEW y \in Projectors PROVE ListOk(projector[y], y)'
      <4>1. ListOk(projector'[y], y)
        BY <3>2
      <4> QED
        BY <1>3, <2>3, <4>1 DEF ListOk, First
    <3> QED
      BY <3>1, <3>3 DEF ListInv
  <2> QED
    BY <2>3, <2>4, <2>5 DEF ProjectionInv
<1>5. CASE UNCHANGED authority
  BY <1>3, <1>5, IdleOk, OneProjector
<1> QED
  BY <1>4, <1>5 DEF AcknowledgeApplied

\* An acknowledged row is passed, or acknowledged ahead of the cursor.
LEMMA AcknowledgeSettles ==
    ASSUME NEW d, WellFormed(d), NEW id \in DeliveryIds, NEW dn, AcknowledgeDelivery(d, dn, id)
    PROVE  Acknowledged(dn, id) \/ Passed(dn, id)
<1>1. d \in DeliveryAuthority /\ Numbering(d)
  BY DEF WellFormed
<1>2. CASE AtCursor(d, id) /\ PassRow(d, dn, d.delivery_sequences[id])
  <2>1. SameRows(d, d) /\ \A i \in DeliveryIds : SameSettlement(d, d, i)
    BY DEF SameRows, SameSettlement
  <2>2. PICK c \in Nat : Passes(d, dn, id, c)
    BY <1>1, <1>2, <2>1, PassRowPasses
  <2> QED
    BY <1>1, <2>2, PassedAfter
<1>3. CASE dn = [d EXCEPT !.acknowledged_sequences = @ \cup {d.delivery_sequences[id]}]
  BY <1>1, <1>3 DEF Acknowledged, DeliveryAuthority
<1>4. CASE Passed(d, id) /\ dn = d
  BY <1>4
<1> QED
  BY <1>2, <1>3, <1>4 DEF AcknowledgeDelivery

\* The rows after a new one: those there were, and id as the last.
LEMMA NewRow ==
    ASSUME NEW d, WellFormed(d), NEW id \in DeliveryIds, ~Committed(d, id),
           NEW e, e = CommittedNew(d, id, id), id \in Nat \ {0}
    PROVE  /\ InboxEffect(d, e)
           /\ e.delivery_sequences = [d.delivery_sequences EXCEPT ![id] = d.next_sequence + 1]
<1>1. WellFormed(e) /\ Advances(d, e)
  BY CommitKeeps, CommitAdvances
<1>2. d \in DeliveryAuthority
  BY DEF WellFormed
<1>3. e.delivery_sequences = [d.delivery_sequences EXCEPT ![id] = d.next_sequence + 1]
  BY <1>2 DEF CommittedNew, DeliveryAuthority
<1> QED
  BY <1>1, <1>3 DEF InboxEffect, Advances

\* A projector that has submitted its entry.
LEMMA MarkOk ==
    ASSUME ProjectionInv, NEW x \in Projectors, NEW id \in DeliveryIds, Current(x, id),
           NEW p, p = [projector[x] EXCEPT !.at = "mark"], Committed(authority, id)
    PROVE  ListOk(p, x)
<1>1. ListOk(projector[x], x) /\ projector[x] \in Projector
  BY DEF ProjectionInv, ListInv
<1>2. p \in Projector /\ p.at = "mark" /\ p.todo = projector[x].todo
  BY <1>1 DEF Projector
<1>3. projector[x].todo \subseteq DeliveryIds
  BY <1>1 DEF Projector
<1>4. \A i \in DeliveryIds : First(p, i) => i = id
  BY <1>2, <1>3, IdsAreNumbers DEF First, Current
<1> QED
  BY <1>1, <1>2, <1>4 DEF ListOk

\* An entry that is submitted and is no row yet comes after every row and no
\* entry of the outbox before it is missing.
LEMMA SubmitsNext ==
    ASSUME ProjectionInv, NEW x \in Projectors, NEW id \in DeliveryIds, Current(x, id),
           ~Committed(authority, id)
    PROVE  /\ id \in 1..Len(outbox)
           /\ \A i \in DeliveryIds : Committed(authority, i) <=> i < id
<1>1. ListOk(projector[x], x) /\ id \in projector[x].todo
  BY DEF ProjectionInv, ListInv, Current
<1>2. id \in 1..Len(outbox)
  BY <1>1 DEF ListOk
<1>3. ASSUME NEW i \in DeliveryIds, i < id PROVE Committed(authority, i)
  <2>1. i \in 1..Len(outbox)
    BY <1>2, <1>3, IdsAreNumbers DEF ProjectionInv, Types
  <2>2. i \notin projector[x].todo
    BY <1>3, IdsAreNumbers DEF Current
  <2> QED
    BY <1>1, <1>3, <2>1, <2>2 DEF ListOk
<1>4. ASSUME NEW i \in DeliveryIds, Committed(authority, i) PROVE i < id
  <2>1. ~(id < i) /\ i # id
    BY <1>4 DEF ProjectionInv, InboxKeepsJobOrder
  <2> QED
    BY <2>1, IdsAreNumbers
<1> QED
  BY <1>2, <1>3, <1>4

\* A submission commits a row.
LEMMA SubmitKeeps ==
    ASSUME ProjectionInv, NEW x \in Projectors, NEW id \in DeliveryIds, Submit(x, id)
    PROVE  ProjectionInv'
<1> DEFINE p == [projector[x] EXCEPT !.at = "mark"]
<1>1. /\ Current(x, id)
      /\ projector' = [projector EXCEPT ![x] = p]
      /\ UNCHANGED <<outbox, producer_applied, executed>>
      /\ WellFormed(authority)
      /\ id \in Nat \ {0}
  BY IdsAreNumbers DEF Submit, ProjectionInv
<1>2. CASE Committed(authority, id)
  <2>1. authority' = authority
    BY <1>2 DEF Submit, CommitDelivery
  <2>2. ListOk(p, x)
    BY <1>1, <1>2, MarkOk
  <2> QED
    BY <1>1, <2>1, <2>2, OneProjector
<1>3. CASE ~Committed(authority, id)
  <2> DEFINE e == CommittedNew(authority, id, id)
  <2>1. /\ InboxEffect(authority, e)
        /\ e.delivery_sequences
              = [authority.delivery_sequences EXCEPT ![id] = authority.next_sequence + 1]
    BY <1>1, <1>3, NewRow
  <2>2. /\ InboxEffect(authority, authority')
        /\ authority'.delivery_sequences = e.delivery_sequences
        /\ producer_applied /\ outbox[id].terminal
              => Acknowledged(authority', id) \/ Passed(authority', id)
    <3>1. CASE AcknowledgeDelivery(e, authority', id)
      <4>0. WellFormed(e)
        BY <2>1 DEF InboxEffect
      <4>1. InputEffect(e, authority', id)
        BY <3>1, <4>0, AcknowledgeEffect
      <4>2. InboxEffect(e, authority') /\ authority'.delivery_sequences = e.delivery_sequences
        BY <4>0, <4>1, InputKeepsRows
      <4>3. Acknowledged(authority', id) \/ Passed(authority', id)
        BY <3>1, <4>0, AcknowledgeSettles
      <4> QED
        BY <2>1, <4>2, <4>3 DEF InboxEffect
    <3>2. CASE /\ ~(outbox[id].terminal /\ producer_applied)
               /\ CommitDelivery(authority, authority', id, id)
      <4>1. authority' = e
        BY <1>3, <3>2 DEF CommitDelivery
      <4> QED
        BY <2>1, <3>2, <4>1
    <3> QED
      BY <1>3, <3>1, <3>2 DEF Submit
  <2> HIDE DEF e
  <2>3. /\ id \in 1..Len(outbox)
        /\ \A i \in DeliveryIds : Committed(authority, i) <=> i < id
    BY <1>1, <1>3, SubmitsNext
  <2>4. /\ authority.delivery_sequences \in [DeliveryIds -> Nat]
        /\ authority.next_sequence \in Nat
        /\ \A i \in DeliveryIds : authority.delivery_sequences[i] <= authority.next_sequence
    BY <1>1, FieldTypes DEF WellFormed, Numbering
  <2>5. /\ authority'.delivery_sequences[id] = authority.next_sequence + 1
        /\ \A i \in DeliveryIds \ {id} :
              authority'.delivery_sequences[i] = authority.delivery_sequences[i]
    BY <2>1, <2>2, <2>4
  <2>6. /\ Committed(authority, id)'
        /\ \A i \in DeliveryIds \ {id} : Committed(authority, i)' <=> Committed(authority, i)
    BY <2>4, <2>5 DEF Committed
  <2>7. WellFormed(authority)' /\ Types' /\ EntryInv' /\ ProducerEffectOnce'
    BY <1>1, <2>2, <2>3, <2>6 DEF InboxEffect, ProjectionInv, Types, EntryInv, ProducerEffectOnce
  <2>8. TerminalInv'
    <3> SUFFICES ASSUME producer_applied, NEW i \in DeliveryIds, Committed(authority, i)',
                        outbox[i].terminal
                 PROVE  Acknowledged(authority', i) \/ Passed(authority', i)
      BY <1>1 DEF TerminalInv
    <3>1. CASE i = id
      BY <2>2, <3>1
    <3>2. CASE i # id
      BY <2>2, <2>6, <3>2 DEF ProjectionInv, TerminalInv, InboxEffect
    <3> QED
      BY <3>1, <3>2
  <2>9. InboxKeepsJobOrder'
    <3> SUFFICES ASSUME NEW i \in DeliveryIds, NEW j \in DeliveryIds, i < j,
                        Committed(authority, j)'
                 PROVE  /\ Committed(authority, i)'
                        /\ authority'.delivery_sequences[i] < authority'.delivery_sequences[j]
      BY DEF InboxKeepsJobOrder
    <3>1. CASE j = id
      <4>1. i # id /\ Committed(authority, i)'
        BY <2>3, <2>6, <3>1, IdsAreNumbers
      <4> QED
        BY <2>4, <2>5, <3>1, <4>1
    <3>2. CASE j # id
      <4>1. Committed(authority, j) /\ j < id
        BY <2>3, <2>6, <3>2
      <4>2. i # id
        BY <4>1, IdsAreNumbers
      <4> QED
        BY <2>5, <2>6, <3>2, <4>1, <4>2 DEF ProjectionInv, InboxKeepsJobOrder
    <3> QED
      BY <3>1, <3>2
  <2>10. \A i \in DeliveryIds : Committed(authority, i) => Committed(authority, i)'
    BY <2>6
  <2>11. 1..Len(outbox) \subseteq DeliveryIds
    BY IdsAreNumbers DEF ProjectionInv, Types
  <2>12. AppliedMeansCommitted'
    BY <1>1, <2>10, <2>11 DEF ProjectionInv, AppliedMeansCommitted
  <2>13. ListInv'
    <3>1. ListOk(projector[x], x) /\ projector[x] \in Projector
      BY DEF ProjectionInv, ListInv
    <3>2. p \in Projector /\ p.at = "mark" /\ p.todo = projector[x].todo
      BY <3>1 DEF Projector
    <3>3. projector' \in [Projectors -> Projector] /\ projector'[x] = p
      BY <1>1, <3>2 DEF ProjectionInv, ListInv
    <3>4. \A i \in DeliveryIds : First(p, i) => i = id
      BY <1>1, <3>1, <3>2, IdsAreNumbers DEF First, Current, Projector
    <3> HIDE DEF p
    <3>5. ListOk(projector[x], x)'
      BY <1>1, <2>6, <2>10, <2>11, <3>1, <3>2, <3>3, <3>4 DEF ListOk, First
    <3>6. ASSUME NEW y \in Projectors, y # x PROVE ListOk(projector[y], y)'
      <4>1. projector'[y] = projector[y] /\ ListOk(projector[y], y)
        BY <1>1, <3>6 DEF ProjectionInv, ListInv
      <4> QED
        BY <1>1, <2>10, <2>11, <4>1 DEF ListOk, First
    <3> QED
      BY <3>3, <3>5, <3>6 DEF ListInv
  <2> QED
    BY <2>7, <2>8, <2>9, <2>12, <2>13 DEF ProjectionInv
<1> QED
  BY <1>2, <1>3

\* An entry is marked applied.
LEMMA MarkKeeps ==
    ASSUME ProjectionInv, NEW x \in Projectors, NEW id \in DeliveryIds, Mark(x, id)
    PROVE  ProjectionInv'
<1>1. /\ Current(x, id) /\ projector[x].at = "mark"
      /\ outbox' = [outbox EXCEPT ![id].applied = TRUE]
      /\ UNCHANGED <<producer_applied, authority, executed>>
  BY DEF Mark
<1>2. ListOk(projector[x], x) /\ id \in projector[x].todo
  BY <1>1 DEF ProjectionInv, ListInv, Current
<1>3. id \in 1..Len(outbox) /\ Committed(authority, id)
  BY <1>1, <1>2 DEF ListOk, First, Current
<1>4. outbox \in Seq(Entry)
  BY DEF ProjectionInv, Types
<1>5. /\ outbox' \in Seq(Entry)
      /\ Len(outbox') = Len(outbox)
      /\ \A i \in 1..Len(outbox) : outbox'[i].terminal = outbox[i].terminal
      /\ \A i \in 1..Len(outbox) : i # id => outbox'[i] = outbox[i]
      /\ outbox' # <<>>
  <2> DEFINE marked == [outbox[id] EXCEPT !.applied = TRUE]
  <2>1. outbox[id] \in Entry
    BY <1>3, <1>4
  <2>2. marked \in Entry /\ marked.terminal = outbox[id].terminal
    BY <2>1 DEF Entry
  <2>3. outbox' = [outbox EXCEPT ![id] = marked]
    BY <1>1
  <2> HIDE DEF marked
  <2>4. /\ outbox' \in Seq(Entry)
        /\ Len(outbox') = Len(outbox)
        /\ \A i \in 1..Len(outbox) : outbox'[i] = IF i = id THEN marked ELSE outbox[i]
    BY <1>3, <1>4, <2>2, <2>3
  <2>5. outbox' # <<>>
    BY <1>3, <1>4, <2>4
  <2> QED
    BY <2>2, <2>4, <2>5
<1>6. Types' /\ EntryInv' /\ InboxKeepsJobOrder' /\ WellFormed(authority)'
  BY <1>1, <1>5 DEF ProjectionInv, Types, EntryInv, InboxKeepsJobOrder, Committed
<1>7. TerminalInv' /\ ProducerEffectOnce'
  BY <1>1, <1>5 DEF ProjectionInv, TerminalInv, ProducerEffectOnce, EntryInv, Committed,
                    Acknowledged, Passed
<1>8. AppliedMeansCommitted'
  BY <1>1, <1>3, <1>5 DEF ProjectionInv, AppliedMeansCommitted, Committed
<1>9. ListInv'
  <2> DEFINE q == [Advance(projector[x], x, id) EXCEPT !.projected = TRUE]
  <2>1. ListOk(q, x) /\ projector' = [projector EXCEPT ![x] = q]
    BY <1>1, <1>3, AdvanceOk DEF Mark
  <2> HIDE DEF q
  <2>2. projector' \in [Projectors -> Projector]
    BY <2>1 DEF ProjectionInv, ListInv, ListOk
  <2>3. ASSUME NEW y \in Projectors PROVE ListOk(projector[y], y)'
    <3>1. ListOk(projector'[y], y)
      BY <2>1 DEF ProjectionInv, ListInv
    <3> QED
      BY <1>1, <1>5, <3>1 DEF ListOk, First, Committed
  <2> QED
    BY <2>2, <2>3 DEF ListInv
<1> QED
  BY <1>6, <1>7, <1>8, <1>9 DEF ProjectionInv

-----------------------------------------------------------------------------
(* The remaining steps move one projector.                                 *)

\* A projector that is to list the outbox, on a commit or again.
LEMMA ListAtOk ==
    ASSUME ProjectionInv, NEW x \in Projectors, x[1] = "shell" => outbox # <<>>,
           projector[x].at = "idle" \/ projector[x].todo = {}
    PROVE  ListOk([projector[x] EXCEPT !.at = "list"], x)
<1> DEFINE p == [projector[x] EXCEPT !.at = "list"]
<1>1. ListOk(projector[x], x) /\ projector[x] \in Projector
  BY DEF ProjectionInv, ListInv
<1>2. p \in Projector /\ p.at = "list" /\ p.todo = projector[x].todo
  BY <1>1 DEF Projector
<1> HIDE DEF p
<1>3. ListOk(p, x)
  BY <1>1, <1>2 DEF ListOk
<1> QED
  BY <1>3 DEF p

\* A pass of an owner begins, lists the outbox, fails to, or ends.
LEMMA OwnerKeeps ==
    ASSUME ProjectionInv, NEW h \in Hosts,
           BeginPass(h) \/ ListPending(h) \/ ListFails(h) \/ PageDone(h)
    PROVE  ProjectionInv'
<1> DEFINE x == <<"owner", h>>
<1>1. x \in Projectors /\ x[1] = "owner"
  BY DEF Projectors
<1>2. projector[x] \in Projector
  BY <1>1 DEF ProjectionInv, ListInv
<1> HIDE DEF x
<1>3. CASE BeginPass(h)
  <2>1. ListOk([projector[x] EXCEPT !.at = "list"], x)
    BY <1>1, <1>3, ListAtOk DEF BeginPass, x
  <2>2. /\ projector' = [projector EXCEPT ![x] = [projector[x] EXCEPT !.at = "list"]]
        /\ UNCHANGED <<outbox, producer_applied, authority, executed>>
    BY <1>3 DEF BeginPass, x
  <2> QED
    BY <1>1, <2>1, <2>2, OneProjector
<1>4. CASE ListPending(h)
  <2> DEFINE p == [projector[x] EXCEPT !.at = "prepare", !.todo = PendingEntries,
                                       !.projected = FALSE]
  <2>1. PendingEntries \subseteq DeliveryIds
    BY IdsAreNumbers DEF PendingEntries, ProjectionInv, Types
  <2>2. p \in Projector /\ p.at = "prepare" /\ p.todo = PendingEntries
    BY <1>2, <2>1 DEF Projector
  <2>3. /\ projector' = [projector EXCEPT ![x] = p]
        /\ UNCHANGED <<outbox, producer_applied, authority, executed>>
    BY <1>4 DEF ListPending, x
  <2> HIDE DEF p
  <2>4. ListOk(p, x)
    BY <1>1, <2>2, FreshListOk
  <2> QED
    BY <1>1, <2>3, <2>4, OneProjector
<1>5. CASE ListFails(h)
  <2>1. /\ projector' = [projector EXCEPT ![x] = Idle]
        /\ UNCHANGED <<outbox, producer_applied, authority, executed>>
    BY <1>5 DEF ListFails, x
  <2> QED
    BY <1>1, <2>1, IdleOk, OneProjector
<1>6. CASE PageDone(h)
  <2>1. CASE projector' = [projector EXCEPT ![x].at = "list"]
    <3>1. ListOk([projector[x] EXCEPT !.at = "list"], x)
      BY <1>1, <1>6, ListAtOk DEF PageDone, x
    <3>2. /\ projector' = [projector EXCEPT ![x] = [projector[x] EXCEPT !.at = "list"]]
          /\ UNCHANGED <<outbox, producer_applied, authority, executed>>
      BY <1>6, <2>1 DEF PageDone
    <3> QED
      BY <1>1, <3>1, <3>2, OneProjector
  <2>2. CASE projector' = [projector EXCEPT ![x] = Idle]
    <3>1. UNCHANGED <<outbox, producer_applied, authority, executed>>
      BY <1>6 DEF PageDone
    <3> QED
      BY <1>1, <2>2, <3>1, IdleOk, OneProjector
  <2> QED
    BY <1>6, <2>1, <2>2 DEF PageDone, x
<1> QED
  BY <1>3, <1>4, <1>5, <1>6

\* The shell begins with its finished job, or reads it for its next entry.
LEMMA ShellKeeps ==
    ASSUME ProjectionInv, NEW h, <<"shell", h>> \in Projectors,
           BeginShell(h) \/ FirstPending(h)
    PROVE  ProjectionInv'
<1> DEFINE x == <<"shell", h>>
<1>1. x \in Projectors /\ x[1] = "shell"
  OBVIOUS
<1>2. ListOk(projector[x], x)
  BY <1>1 DEF ProjectionInv, ListInv
<1> HIDE DEF x
<1>3. CASE BeginShell(h)
  <2>1. /\ outbox # <<>>
        /\ projector[x].at = "idle"
        /\ projector' = [projector EXCEPT ![x] = [projector[x] EXCEPT !.at = "list"]]
        /\ UNCHANGED <<outbox, producer_applied, authority, executed>>
    BY <1>3 DEF BeginShell, Finished, x
  <2>2. ListOk([projector[x] EXCEPT !.at = "list"], x)
    BY <1>1, <2>1, ListAtOk
  <2> QED
    BY <1>1, <2>1, <2>2, OneProjector
<1>4. CASE FirstPending(h)
  <2> DEFINE p == [Idle EXCEPT !.at = "acknowledge"]
             q == [Idle EXCEPT !.at = "prepare", !.todo = PendingEntries]
  <2>0. outbox # <<>>
    BY <1>1, <1>2, <1>4 DEF FirstPending, ListOk, x
  <2>1. PendingEntries \subseteq DeliveryIds
    BY IdsAreNumbers DEF PendingEntries, ProjectionInv, Types
  <2>2. /\ p \in Projector /\ p.at = "acknowledge" /\ p.todo = {}
        /\ q \in Projector /\ q.at = "prepare" /\ q.todo = PendingEntries
    BY <2>1 DEF Projector, Idle
  <2>3. /\ \/ projector' = [projector EXCEPT ![x] = p]
           \/ projector' = [projector EXCEPT ![x] = q]
        /\ UNCHANGED <<outbox, producer_applied, authority, executed>>
    BY <1>4 DEF FirstPending, x
  <2> HIDE DEF p, q
  <2>4. ListOk(p, x)
    BY <2>0, <2>2 DEF ListOk
  <2>5. ListOk(q, x)
    BY <1>1, <2>0, <2>2, FreshListOk
  <2> QED
    BY <1>1, <2>3, <2>4, <2>5, OneProjector
<1> QED
  BY <1>3, <1>4

\* The job is read again for an entry.
LEMMA PrepareKeeps ==
    ASSUME ProjectionInv, NEW x \in Projectors, NEW id \in DeliveryIds, Prepare(x, id)
    PROVE  ProjectionInv'
<1>1. Current(x, id) /\ UNCHANGED <<outbox, producer_applied, authority, executed>>
  BY DEF Prepare
<1>2. ListOk(projector[x], x) /\ projector[x] \in Projector
  BY DEF ProjectionInv, ListInv
<1>3. CASE outbox[id].applied
  <2>1. Committed(authority, id)
    BY <1>1, <1>2, <1>3 DEF ListOk, Current, ProjectionInv, AppliedMeansCommitted
  <2>2. projector' = [projector EXCEPT ![x] = Advance(projector[x], x, id)]
    BY <1>3 DEF Prepare
  <2> QED
    BY <1>1, <2>1, <2>2, AdvanceOk, OneProjector
<1>4. CASE ~outbox[id].applied
  <2> DEFINE p == [projector[x] EXCEPT !.at = "submit"]
  <2>1. p \in Projector /\ p.at = "submit" /\ p.todo = projector[x].todo
    BY <1>2 DEF Projector
  <2>2. projector' = [projector EXCEPT ![x] = p]
    BY <1>4 DEF Prepare
  <2> HIDE DEF p
  <2>3. ListOk(p, x)
    BY <2>1, SameListOk
  <2> QED
    BY <1>1, <2>2, <2>3, OneProjector
<1> QED
  BY <1>3, <1>4

\* The mark is given up.
LEMMA GiveUpKeeps ==
    ASSUME ProjectionInv, NEW x \in Projectors, NEW id \in DeliveryIds, MarkGivesUp(x, id)
    PROVE  ProjectionInv'
<1>1. /\ Current(x, id) /\ projector[x].at = "mark"
      /\ UNCHANGED <<outbox, producer_applied, authority, executed>>
  BY DEF MarkGivesUp
<1>2. Committed(authority, id)
  BY <1>1 DEF ProjectionInv, ListInv, ListOk, First, Current
<1>3. CASE projector' = [projector EXCEPT ![x] = Advance(@, x, id)]
  BY <1>1, <1>2, <1>3, AdvanceOk, OneProjector
<1>4. CASE Fail(x)
  BY <1>1, <1>4, FailKeeps
<1> QED
  BY <1>3, <1>4 DEF MarkGivesUp

-----------------------------------------------------------------------------

\* Every step keeps the invariant.
LEMMA ProjectionNext == ProjectionInv /\ [Next]_vars => ProjectionInv'
<1> SUFFICES ASSUME ProjectionInv, [Next]_vars PROVE ProjectionInv'
  OBVIOUS
<1>1. ASSUME NEW x \in Projectors, ProjectorStep(x) PROVE ProjectionInv'
  <2>1. CASE \E id \in DeliveryIds : Prepare(x, id) \/ Submit(x, id) \/ Mark(x, id)
    BY <2>1, PrepareKeeps, SubmitKeeps, MarkKeeps
  <2>2. CASE x[1] = "owner" /\ (BeginPass(Host(x)) \/ ListPending(Host(x)) \/ PageDone(Host(x)))
    <3>1. Host(x) \in Hosts
      BY <2>2, ProjectionAssumption DEF Projectors, Host
    <3> QED
      BY <2>2, <3>1, OwnerKeeps
  <2>3. CASE x[1] = "shell" /\ (FirstPending(Host(x)) \/ AcknowledgeApplied(Host(x)))
    <3>1. <<"shell", Host(x)>> \in Projectors
      BY <2>3 DEF Projectors, Host
    <3> QED
      BY <2>3, <3>1, ShellKeeps, AcknowledgeKeeps
  <2> QED
    BY <1>1, <2>1, <2>2, <2>3 DEF ProjectorStep
<1>2. ASSUME NEW x \in Projectors, SubmitFails(x) PROVE ProjectionInv'
  BY <1>2, FailKeeps DEF SubmitFails
<1>3. ASSUME NEW x \in Projectors, NEW id \in DeliveryIds, MarkGivesUp(x, id)
      PROVE  ProjectionInv'
  BY <1>3, GiveUpKeeps
<1>4. ASSUME NEW h \in Hosts, NEW terminal \in BOOLEAN,
             CommitEntry(h, terminal) \/ CommitUnsignalled(h, terminal)
      PROVE  ProjectionInv'
  BY <1>4, EntryCommits DEF CommitEntry, CommitUnsignalled
<1>5. ASSUME NEW h \in Hosts, Crash(h) PROVE ProjectionInv'
  BY <1>5, ProjectorsStop DEF Crash
<1>6. ASSUME NEW h \in Hosts, Wake(h) PROVE ProjectionInv'
  BY <1>6, NothingChanges DEF Wake
<1>7. ASSUME NEW h \in Hosts, ListFails(h) PROVE ProjectionInv'
  BY <1>7, OwnerKeeps
<1>8. ASSUME NEW h \in Shells, BeginShell(h) PROVE ProjectionInv'
  BY <1>8, ShellKeeps DEF Projectors
<1>9. ASSUME NEW id \in DeliveryIds, Apply(id) PROVE ProjectionInv'
  BY <1>9, ApplyKeeps
<1>10. CASE UNCHANGED vars
  BY <1>10, NothingChanges DEF vars
<1> QED
  BY <1>1, <1>2, <1>3, <1>4, <1>5, <1>6, <1>7, <1>8, <1>9, <1>10 DEF Next

\* The invariant holds throughout.
LEMMA ProjectionSafe == Spec => []ProjectionInv
BY ProjectionInit, ProjectionNext, PTL DEF Spec

\* However many processes project a job at once, wherever they stop and
\* whichever calls fail, the inbox holds the job's entries in the order of its
\* outbox, with none missing before one that is there.
THEOREM JobOrderKept == Spec => []InboxKeepsJobOrder
<1>1. ProjectionInv => InboxKeepsJobOrder
  BY DEF ProjectionInv
<1> QED
  BY <1>1, ProjectionSafe, PTL

\* An entry the job has marked applied is a row of the inbox: no crash between
\* submission and mark, and no mark another projector wrote, loses an entry.
THEOREM AppliedIsCommitted == Spec => []AppliedMeansCommitted
<1>1. ProjectionInv => AppliedMeansCommitted
  BY DEF ProjectionInv
<1> QED
  BY <1>1, ProjectionSafe, PTL

\* The applier never runs the sink of a terminal whose effect its producer
\* applies, whoever submitted it and whenever the producer acknowledges it.
THEOREM ProducerAppliesOnce == Spec => []ProducerEffectOnce
<1>1. ProjectionInv => ProducerEffectOnce
  BY DEF ProjectionInv
<1> QED
  BY <1>1, ProjectionSafe, PTL
=============================================================================
