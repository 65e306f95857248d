----------------------- MODULE RuntimeDeliveryProofs -----------------------
(***************************************************************************)
(* The inputs of the delivery machine, one by one: what each does to a     *)
(* record that decodes.  WellFormed is Decodes with what its cardinalities *)
(* stand for spelled out: the sequences are numbered without a gap and no  *)
(* two deliveries share one; and the cursor has come to rest, which the    *)
(* decoder does not check.                                                 *)
(***************************************************************************)
EXTENDS RuntimeDeliveryMachine, FiniteSetTheorems, TLAPS

CommittedIds(d) == {i \in DeliveryIds : Committed(d, i)}

\* The rows are numbered 1..next_sequence, one delivery each, and what is
\* acknowledged lies ahead of the cursor and never next to it.
Numbering(d) ==
    /\ \A i \in DeliveryIds : d.delivery_sequences[i] <= d.next_sequence
    /\ \A n \in 1..d.next_sequence : \E i \in DeliveryIds : d.delivery_sequences[i] = n
    /\ \A i, j \in DeliveryIds :
          Committed(d, i) /\ d.delivery_sequences[i] = d.delivery_sequences[j] => i = j
    /\ d.applied_cursor <= d.next_sequence
    /\ d.acknowledged_sequences \subseteq (d.applied_cursor + 1)..d.next_sequence
    /\ d.applied_cursor + 1 \notin d.acknowledged_sequences

\* The number of rows is the last sequence.
Counted(d) ==
    /\ IsFiniteSet(CommittedIds(d))
    /\ Cardinality(CommittedIds(d)) = d.next_sequence

Sourced(d) ==
    \A i \in DeliveryIds : Committed(d, i) <=> d.delivery_source_sequences[i] > 0

\* What the record says of a delivery's settlement agrees with the cursor.
SettlementOf(d, i) ==
    IF Enrolled(d, i)
    THEN /\ Committed(d, i)
         /\ ~Acknowledged(d, i)
         /\ d.refused_deliveries[i] = GroupRefusal(d.recipient_group_outcomes[i])
         /\ \A r \in Recipients :
               d.recipient_outcomes[i][r] # None
                  => r \in d.delivery_recipient_bindings[i]
         /\ Passed(d, i) <=> d.recipient_group_outcomes[i] # None
         /\ d.recipient_group_outcomes[i] # None
              => /\ AllSettled(d, i)
                 /\ d.recipient_group_outcomes[i] = GroupSummary(d, i)
    ELSE /\ d.recipient_group_outcomes[i] = None
         /\ \A r \in Recipients : d.recipient_outcomes[i][r] = None

Settlements(d) ==
    /\ \A i \in DeliveryIds : d.refused_deliveries[i] # None => Passed(d, i)
    /\ \A i \in DeliveryIds : SettlementOf(d, i)

WellFormed(d) ==
    /\ d \in DeliveryAuthority
    /\ Numbering(d)
    /\ Counted(d)
    /\ Sourced(d)
    /\ Settlements(d)

\* The settlement fields of a delivery are the same in both records.
SameSettlement(d, dn, i) ==
    /\ dn.refused_deliveries[i] = d.refused_deliveries[i]
    /\ dn.delivery_recipient_bindings[i] = d.delivery_recipient_bindings[i]
    /\ dn.recipient_outcomes[i] = d.recipient_outcomes[i]
    /\ dn.recipient_group_outcomes[i] = d.recipient_group_outcomes[i]

\* The same rows with the same sequences.
SameRows(d, dn) ==
    /\ dn.delivery_sequences = d.delivery_sequences
    /\ dn.delivery_source_sequences = d.delivery_source_sequences
    /\ dn.next_sequence = d.next_sequence

\* From d to dn the cursor passes id, settled as the fields of dn say, and
\* the acknowledged rows that follow it, up to c.
Passes(d, dn, id, c) ==
    /\ AtCursor(d, id)
    /\ SameRows(d, dn)
    /\ \A i \in DeliveryIds \ {id} : SameSettlement(d, dn, i)
    /\ c \in d.delivery_sequences[id]..d.next_sequence
    /\ (d.delivery_sequences[id] + 1)..c \subseteq d.acknowledged_sequences
    /\ c = d.next_sequence \/ c + 1 \notin d.acknowledged_sequences
    /\ dn.applied_cursor = c
    /\ dn.acknowledged_sequences
          = d.acknowledged_sequences \ (d.delivery_sequences[id])..c

-----------------------------------------------------------------------------

\* A record that is well formed passes every check of decode_authority.
LEMMA WellFormedDecodes == \A d : WellFormed(d) => Decodes(d)
<1> TAKE d
<1> HAVE WellFormed(d)
<1>1. {d.delivery_sequences[i] : i \in {j \in DeliveryIds : Committed(d, j)}}
            = 1..d.next_sequence
  BY DEF WellFormed, Numbering, Committed, DeliveryAuthority
<1>2. Cardinality({i \in DeliveryIds : Committed(d, i)}) = d.next_sequence
  BY DEF WellFormed, Counted, CommittedIds
<1> QED
  BY <1>1, <1>2 DEF WellFormed, Numbering, Sourced, Settlements, SettlementOf, Decodes

\* The record of a runtime without deliveries is well formed.
LEMMA EmptyWellFormed == WellFormed(EmptyAuthority)
<1>1. EmptyAuthority \in DeliveryAuthority
  BY DEF EmptyAuthority, DeliveryAuthority
<1>2. CommittedIds(EmptyAuthority) = {}
  BY DEF EmptyAuthority, CommittedIds, Committed
<1>3. Counted(EmptyAuthority)
  BY <1>2, FS_EmptySet DEF Counted, EmptyAuthority
<1>4. Numbering(EmptyAuthority) /\ Sourced(EmptyAuthority) /\ Settlements(EmptyAuthority)
  BY DEF EmptyAuthority, Numbering, Sourced, Settlements, SettlementOf, Committed, Enrolled
<1> QED
  BY <1>1, <1>3, <1>4 DEF WellFormed

\* A new row takes the next sequence; nothing else of the record changes.
LEMMA CommitKeeps ==
    ASSUME NEW d, WellFormed(d), NEW id \in DeliveryIds, ~Committed(d, id),
           NEW source \in Nat \ {0}
    PROVE  /\ WellFormed(CommittedNew(d, id, source))
           /\ \A i \in DeliveryIds : SameSettlement(d, CommittedNew(d, id, source), i)
           /\ ~Enrolled(d, id)
           /\ d.refused_deliveries[id] = None
           /\ d.delivery_sequences[id] = 0
<1> DEFINE dn == CommittedNew(d, id, source)
<1>0. d \in DeliveryAuthority
  BY DEF WellFormed
<1>1. /\ dn \in DeliveryAuthority
      /\ dn.next_sequence = d.next_sequence + 1
      /\ dn.delivery_sequences = [d.delivery_sequences EXCEPT ![id] = d.next_sequence + 1]
      /\ dn.delivery_source_sequences = [d.delivery_source_sequences EXCEPT ![id] = source]
      /\ dn.applied_cursor = d.applied_cursor
      /\ dn.acknowledged_sequences = d.acknowledged_sequences
      /\ dn.refused_deliveries = d.refused_deliveries
      /\ dn.delivery_recipient_bindings = d.delivery_recipient_bindings
      /\ dn.recipient_outcomes = d.recipient_outcomes
      /\ dn.recipient_group_outcomes = d.recipient_group_outcomes
  <2>1. /\ d.next_sequence + 1 \in Nat
        /\ [d.delivery_sequences EXCEPT ![id] = d.next_sequence + 1] \in [DeliveryIds -> Nat]
        /\ [d.delivery_source_sequences EXCEPT ![id] = source] \in [DeliveryIds -> Nat]
    BY <1>0 DEF DeliveryAuthority
  <2>2. dn = [d EXCEPT !.next_sequence = d.next_sequence + 1,
                !.delivery_sequences = [d.delivery_sequences EXCEPT ![id] = d.next_sequence + 1],
                !.delivery_source_sequences = [d.delivery_source_sequences EXCEPT ![id] = source]]
    BY <1>0 DEF CommittedNew, DeliveryAuthority
  <2> QED
    BY <1>0, <2>1, <2>2 DEF DeliveryAuthority
<1> HIDE DEF dn
<1>2. /\ d.delivery_sequences \in [DeliveryIds -> Nat]
      /\ d.delivery_source_sequences \in [DeliveryIds -> Nat]
      /\ d.next_sequence \in Nat
      /\ d.applied_cursor \in Nat
      /\ d.acknowledged_sequences \in SUBSET Nat
  BY <1>0 DEF DeliveryAuthority
<1>3. d.delivery_sequences[id] = 0
  BY <1>2 DEF Committed
<1>4. ~Enrolled(d, id) /\ d.refused_deliveries[id] = None
  BY DEF WellFormed, Settlements, SettlementOf, Passed
<1>5. Numbering(dn)
  <2>1. \A i \in DeliveryIds : dn.delivery_sequences[i]
            = IF i = id THEN d.next_sequence + 1 ELSE d.delivery_sequences[i]
    BY <1>1, <1>2
  <2>2. \A n \in 1..dn.next_sequence : \E i \in DeliveryIds : dn.delivery_sequences[i] = n
    <3> SUFFICES ASSUME NEW n \in 1..dn.next_sequence
                 PROVE  \E i \in DeliveryIds : dn.delivery_sequences[i] = n
      OBVIOUS
    <3>1. CASE n = d.next_sequence + 1
      BY <3>1, <2>1
    <3>2. CASE n \in 1..d.next_sequence
      <4>1. PICK i \in DeliveryIds : d.delivery_sequences[i] = n
        BY <3>2 DEF WellFormed, Numbering
      <4>2. i # id
        BY <4>1, <1>3, <3>2
      <4> QED
        BY <2>1, <4>1, <4>2
    <3> QED
      BY <3>1, <3>2, <1>1, <1>2
  <2>3. \A i, j \in DeliveryIds :
          Committed(dn, i) /\ dn.delivery_sequences[i] = dn.delivery_sequences[j] => i = j
    BY <2>1, <1>2 DEF WellFormed, Numbering, Committed
  <2> QED
    BY <1>1, <1>2, <2>1, <2>2, <2>3 DEF WellFormed, Numbering
<1>6. Counted(dn)
  <2>1. CommittedIds(dn) = CommittedIds(d) \cup {id}
    BY <1>1, <1>2 DEF CommittedIds, Committed
  <2>2. id \notin CommittedIds(d)
    BY DEF CommittedIds
  <2> QED
    BY <2>1, <2>2, <1>1, <1>2, FS_AddElement DEF WellFormed, Counted
<1>7. Sourced(dn)
  BY <1>1, <1>2 DEF WellFormed, Sourced, Committed
<1>8. \A i \in DeliveryIds : SameSettlement(d, dn, i)
  BY <1>1 DEF SameSettlement
<1>9. Settlements(dn)
  <2>1. \A i \in DeliveryIds : dn.refused_deliveries[i] # None => Passed(dn, i)
    BY <1>1, <1>2, <1>4 DEF WellFormed, Settlements, Passed, Committed
  <2>2. ASSUME NEW i \in DeliveryIds PROVE SettlementOf(dn, i)
    <3>1. SettlementOf(d, i)
      BY DEF WellFormed, Settlements
    <3>2. Enrolled(d, i) => i # id
      BY <1>4
    <3>3. Enrolled(dn, i) <=> Enrolled(d, i)
      BY <1>1 DEF Enrolled
    <3>4. CASE Enrolled(d, i)
      <4>1. dn.delivery_sequences[i] = d.delivery_sequences[i]
        BY <1>1, <1>2, <3>2, <3>4
      <4>2. /\ Committed(dn, i) <=> Committed(d, i)
            /\ Acknowledged(dn, i) <=> Acknowledged(d, i)
            /\ Passed(dn, i) <=> Passed(d, i)
            /\ AllSettled(dn, i) <=> AllSettled(d, i)
            /\ GroupSummary(dn, i) = GroupSummary(d, i)
        BY <1>1, <4>1 DEF Committed, Acknowledged, Passed, AllSettled, GroupSummary, Unanimous
      <4> QED
        BY <3>1, <3>3, <3>4, <4>2, <1>1 DEF SettlementOf
    <3>5. CASE ~Enrolled(d, i)
      BY <3>1, <3>3, <3>5, <1>1 DEF SettlementOf
    <3> QED
      BY <3>4, <3>5
  <2> QED
    BY <2>1, <2>2 DEF Settlements
<1> QED
  BY <1>1, <1>3, <1>4, <1>5, <1>6, <1>7, <1>8, <1>9 DEF WellFormed, dn
\* The settlement a row has once the cursor passed it: without recipients, or
\* with every recipient settled and the summary taken from their outcomes.
SettledRow(d, i) ==
    IF Enrolled(d, i)
    THEN /\ d.refused_deliveries[i] = GroupRefusal(d.recipient_group_outcomes[i])
         /\ \A r \in Recipients :
               d.recipient_outcomes[i][r] # None
                  => r \in d.delivery_recipient_bindings[i]
         /\ d.recipient_group_outcomes[i] # None
         /\ AllSettled(d, i)
         /\ d.recipient_group_outcomes[i] = GroupSummary(d, i)
    ELSE /\ d.recipient_group_outcomes[i] = None
         /\ \A r \in Recipients : d.recipient_outcomes[i][r] = None

\* The types of the fields the cursor is computed from.
LEMMA FieldTypes ==
    ASSUME NEW d \in DeliveryAuthority
    PROVE  /\ d.delivery_sequences \in [DeliveryIds -> Nat]
           /\ d.delivery_source_sequences \in [DeliveryIds -> Nat]
           /\ d.next_sequence \in Nat
           /\ d.applied_cursor \in Nat
           /\ d.acknowledged_sequences \in SUBSET Nat
BY DEF DeliveryAuthority

\* What the record says of a delivery is read from its settlement fields.
LEMMA SettlementFrame ==
    ASSUME NEW d, NEW dn, NEW i, SameSettlement(d, dn, i)
    PROVE  /\ Enrolled(dn, i) <=> Enrolled(d, i)
           /\ AllSettled(dn, i) <=> AllSettled(d, i)
           /\ GroupSummary(dn, i) = GroupSummary(d, i)
           /\ SettledRow(dn, i) <=> SettledRow(d, i)
BY DEF SameSettlement, Enrolled, AllSettled, GroupSummary, Unanimous, SettledRow

\* Which rows the cursor has passed after it passed id: those it had passed,
\* id, and rows that were acknowledged.
LEMMA PassedAfter ==
    ASSUME NEW d \in DeliveryAuthority, Numbering(d), NEW dn, NEW id \in DeliveryIds, NEW c,
           Passes(d, dn, id, c)
    PROVE  /\ Passed(dn, id) /\ ~Passed(d, id) /\ Committed(d, id) /\ ~Acknowledged(d, id)
           /\ \A i \in DeliveryIds :
                 /\ Committed(dn, i) <=> Committed(d, i)
                 /\ Passed(d, i) => Passed(dn, i)
                 /\ Acknowledged(dn, i) => Acknowledged(d, i) /\ i # id
                 /\ Acknowledged(d, i) => Acknowledged(dn, i) \/ Passed(dn, i)
                 /\ Passed(dn, i) /\ ~Passed(d, i) => i = id \/ Acknowledged(d, i)
<1>1. /\ d.delivery_sequences[id] = d.applied_cursor + 1
      /\ dn.delivery_sequences = d.delivery_sequences
      /\ c \in (d.applied_cursor + 1)..d.next_sequence
      /\ (d.applied_cursor + 2)..c \subseteq d.acknowledged_sequences
      /\ dn.applied_cursor = c
      /\ dn.acknowledged_sequences = d.acknowledged_sequences \ (d.applied_cursor + 1)..c
  BY FieldTypes DEF Passes, AtCursor, SameRows
<1>2. \A i, j \in DeliveryIds :
          d.delivery_sequences[i] > 0 /\ d.delivery_sequences[i] = d.delivery_sequences[j]
              => i = j
  BY DEF Numbering, Committed
<1>3. d.acknowledged_sequences \subseteq (d.applied_cursor + 2)..d.next_sequence
  BY FieldTypes DEF Numbering
<1> QED
  BY <1>1, <1>2, <1>3, FieldTypes DEF Passed, Committed, Acknowledged

\* Passing a row that is settled as it must be keeps the record well formed.
LEMMA PassKeeps ==
    ASSUME NEW d, WellFormed(d), NEW dn \in DeliveryAuthority, NEW id \in DeliveryIds, NEW c,
           Passes(d, dn, id, c), SettledRow(dn, id)
    PROVE  WellFormed(dn)
<1>1. d \in DeliveryAuthority /\ Numbering(d)
  BY DEF WellFormed
<1>2. /\ dn.delivery_sequences = d.delivery_sequences
      /\ dn.delivery_source_sequences = d.delivery_source_sequences
      /\ dn.next_sequence = d.next_sequence
  BY DEF Passes, SameRows
<1>3. Numbering(dn)
  <2>1. /\ dn.applied_cursor \in d.applied_cursor..d.next_sequence
        /\ dn.acknowledged_sequences
              \subseteq (dn.applied_cursor + 1)..dn.next_sequence
        /\ dn.applied_cursor + 1 \notin dn.acknowledged_sequences
    BY <1>1, <1>2, FieldTypes DEF Numbering, Passes, AtCursor
  <2> QED
    BY <1>1, <1>2, <2>1, FieldTypes DEF Numbering, Committed
<1>4. Counted(dn) /\ Sourced(dn)
  BY <1>2 DEF WellFormed, Counted, Sourced, CommittedIds, Committed
<1>5. ASSUME NEW i \in DeliveryIds
      PROVE  SettlementOf(dn, i) /\ (dn.refused_deliveries[i] # None => Passed(dn, i))
  <2>1. CASE i = id
    BY <2>1, <1>1, PassedAfter DEF SettledRow, SettlementOf
  <2>2. CASE i # id
    <3>1. SameSettlement(d, dn, i)
      BY <2>2 DEF Passes
    <3>2. SettlementOf(d, i) /\ (d.refused_deliveries[i] # None => Passed(d, i))
      BY DEF WellFormed, Settlements
    <3>3. dn.refused_deliveries[i] # None => Passed(dn, i)
      BY <3>1, <3>2, <1>1, PassedAfter DEF SameSettlement
    <3>4. CASE Enrolled(d, i)
      <4>1. ~Acknowledged(d, i)
        BY <3>2, <3>4 DEF SettlementOf
      <4>2. /\ Committed(dn, i) <=> Committed(d, i)
            /\ ~Acknowledged(dn, i)
            /\ Passed(dn, i) <=> Passed(d, i)
        BY <4>1, <2>2, <1>1, PassedAfter
      <4> QED
        BY <3>1, <3>2, <3>3, <3>4, <4>2, SettlementFrame DEF SettlementOf, SameSettlement
    <3>5. CASE ~Enrolled(d, i)
      BY <3>1, <3>2, <3>3, <3>5, SettlementFrame DEF SettlementOf, SameSettlement
    <3> QED
      BY <3>4, <3>5
  <2> QED
    BY <2>1, <2>2
<1> QED
  BY <1>3, <1>4, <1>5 DEF WellFormed, Settlements

\* PassRow on a record that differs from d only in the settlement of id.
LEMMA PassRowPasses ==
    ASSUME NEW d \in DeliveryAuthority, Numbering(d), NEW id \in DeliveryIds, AtCursor(d, id),
           NEW e \in DeliveryAuthority, SameRows(d, e),
           e.applied_cursor = d.applied_cursor,
           e.acknowledged_sequences = d.acknowledged_sequences,
           \A i \in DeliveryIds \ {id} : SameSettlement(d, e, i),
           NEW dn, PassRow(e, dn, d.delivery_sequences[id])
    PROVE  /\ dn \in DeliveryAuthority
           /\ SameSettlement(e, dn, id)
           /\ \E c \in Nat : Passes(d, dn, id, c)
<1> DEFINE seq == d.delivery_sequences[id]
           f == [e EXCEPT !.applied_cursor = seq, !.acknowledged_sequences = @ \ {seq}]
<1>1. seq \in Nat
  BY FieldTypes
<1>2. /\ f \in DeliveryAuthority
      /\ f.applied_cursor = seq
      /\ f.acknowledged_sequences = d.acknowledged_sequences \ {seq}
      /\ f.next_sequence = d.next_sequence
      /\ SameRows(d, f)
      /\ \A i \in DeliveryIds : SameSettlement(e, f, i)
  BY <1>1 DEF DeliveryAuthority, SameRows, SameSettlement
<1>3. AdvanceAcknowledgedPrefix(f, dn)
  BY DEF PassRow
<1> HIDE DEF f
<1>4. PICK c \in f.applied_cursor..f.next_sequence :
        /\ (f.applied_cursor + 1)..c \subseteq f.acknowledged_sequences
        /\ c = f.next_sequence \/ c + 1 \notin f.acknowledged_sequences
        /\ dn = [f EXCEPT !.applied_cursor = c,
                          !.acknowledged_sequences = @ \ (f.applied_cursor + 1)..c]
  BY <1>3 DEF AdvanceAcknowledgedPrefix
<1>5. c \in Nat /\ c \in seq..d.next_sequence
  BY <1>2, <1>4, <1>1, FieldTypes
<1>6. /\ dn \in DeliveryAuthority
      /\ SameRows(d, dn)
      /\ \A i \in DeliveryIds : SameSettlement(e, dn, i)
      /\ dn.applied_cursor = c
      /\ dn.acknowledged_sequences = f.acknowledged_sequences \ (f.applied_cursor + 1)..c
  BY <1>2, <1>4, <1>5 DEF DeliveryAuthority, SameRows, SameSettlement
<1>7. dn.acknowledged_sequences = d.acknowledged_sequences \ seq..c
  BY <1>1, <1>2, <1>5, <1>6, FieldTypes
<1>8. (seq + 1)..c \subseteq d.acknowledged_sequences
  BY <1>2, <1>4
<1>9. c = d.next_sequence \/ c + 1 \notin d.acknowledged_sequences
  BY <1>1, <1>2, <1>4, <1>5
<1>10. \A i \in DeliveryIds \ {id} : SameSettlement(d, dn, i)
  BY <1>6 DEF SameSettlement
<1> QED
  BY <1>5, <1>6, <1>7, <1>8, <1>9, <1>10 DEF Passes
-----------------------------------------------------------------------------
(* The inputs. Each leaves the record well formed, takes nothing back, and *)
(* is, as far as rows and verdicts go, silent, a pass of the cursor, or an *)
(* acknowledgement ahead of it.                                            *)

\* No settlement is taken back and no acknowledged row is executed.
Advances(d, dn) ==
    \A i \in DeliveryIds :
        /\ Passed(d, i) => Passed(dn, i) /\ SameSettlement(d, dn, i)
        /\ \A r \in Recipients :
              d.recipient_outcomes[i][r] # None
                  => dn.recipient_outcomes[i][r] = d.recipient_outcomes[i][r]
        /\ Acknowledged(d, i)
              => /\ ~Enrolled(dn, i)
                 /\ dn.refused_deliveries[i] = None
                 /\ Acknowledged(dn, i) \/ Passed(dn, i)

\* Rows, cursor and verdicts stay.
Silent(d, dn) ==
    /\ SameRows(d, dn)
    /\ dn.applied_cursor = d.applied_cursor
    /\ dn.acknowledged_sequences = d.acknowledged_sequences
    /\ dn.refused_deliveries = d.refused_deliveries
    /\ dn.recipient_group_outcomes = d.recipient_group_outcomes

\* A row beyond the next one is acknowledged.
AcknowledgesAhead(d, dn, id) ==
    /\ Committed(d, id)
    /\ d.delivery_sequences[id] > d.applied_cursor + 1
    /\ SameRows(d, dn)
    /\ dn.applied_cursor = d.applied_cursor
    /\ dn.acknowledged_sequences
          = d.acknowledged_sequences \cup {d.delivery_sequences[id]}
    /\ \A i \in DeliveryIds : SameSettlement(d, dn, i)

InputEffect(d, dn, id) ==
    /\ WellFormed(dn)
    /\ Advances(d, dn)
    /\ \/ Silent(d, dn)
       \/ \E c \in Nat : Passes(d, dn, id, c)
       \/ AcknowledgesAhead(d, dn, id)

\* In a well-formed record an acknowledged row is ahead of the cursor and
\* neither enrolled nor refused.
LEMMA AcknowledgedRow ==
    ASSUME NEW d, WellFormed(d), NEW i \in DeliveryIds, Acknowledged(d, i)
    PROVE  /\ Committed(d, i) /\ ~Passed(d, i)
           /\ ~Enrolled(d, i)
           /\ d.refused_deliveries[i] = None
<1>1. d.delivery_sequences[i] \in (d.applied_cursor + 1)..d.next_sequence
  BY DEF WellFormed, Numbering, Acknowledged
<1>2. Committed(d, i) /\ ~Passed(d, i)
  BY <1>1, FieldTypes DEF Passed, Committed, WellFormed
<1> QED
  BY <1>2 DEF WellFormed, Settlements, SettlementOf

\* A new row takes nothing back.
LEMMA CommitAdvances ==
    ASSUME NEW d, WellFormed(d), NEW id \in DeliveryIds, ~Committed(d, id),
           NEW source \in Nat \ {0}
    PROVE  Advances(d, CommittedNew(d, id, source))
<1> DEFINE dn == CommittedNew(d, id, source)
<1>1. WellFormed(dn) /\ \A i \in DeliveryIds : SameSettlement(d, dn, i)
  BY CommitKeeps
<1>2. d \in DeliveryAuthority
  BY DEF WellFormed
<1>3. /\ \A i \in DeliveryIds \ {id} : dn.delivery_sequences[i] = d.delivery_sequences[i]
      /\ dn.applied_cursor = d.applied_cursor
      /\ dn.acknowledged_sequences = d.acknowledged_sequences
  BY <1>2 DEF CommittedNew, DeliveryAuthority
<1> HIDE DEF dn
<1>4. ASSUME NEW i \in DeliveryIds, Committed(d, i)
      PROVE  /\ Passed(d, i) => Passed(dn, i)
             /\ Acknowledged(d, i) => Acknowledged(dn, i)
  BY <1>3, <1>4 DEF Passed, Committed, Acknowledged
<1>5. \A i \in DeliveryIds : Passed(d, i) => Committed(d, i)
  BY DEF Passed
<1>6. \A i \in DeliveryIds : Acknowledged(d, i) =>
            Committed(d, i) /\ ~Enrolled(d, i) /\ d.refused_deliveries[i] = None
  BY AcknowledgedRow
<1>7. \A i \in DeliveryIds : Enrolled(dn, i) <=> Enrolled(d, i)
  BY <1>1, SettlementFrame
<1> QED
  BY <1>1, <1>4, <1>5, <1>6, <1>7 DEF Advances, SameSettlement, dn

\* A pass of the cursor over a row whose recorded outcomes stay takes nothing
\* back.
LEMMA PassAdvances ==
    ASSUME NEW d, WellFormed(d), NEW dn, NEW id \in DeliveryIds, NEW c,
           Passes(d, dn, id, c),
           dn.recipient_outcomes[id] = d.recipient_outcomes[id]
    PROVE  Advances(d, dn)
<1>1. d \in DeliveryAuthority /\ Numbering(d)
  BY DEF WellFormed
<1>2. \A i \in DeliveryIds \ {id} : SameSettlement(d, dn, i)
  BY DEF Passes
<1>3. ~Passed(d, id) /\ ~Acknowledged(d, id)
  BY <1>1, PassedAfter
<1>4. \A i \in DeliveryIds : Acknowledged(d, i) =>
            ~Enrolled(d, i) /\ d.refused_deliveries[i] = None
  BY AcknowledgedRow
<1>5. \A i \in DeliveryIds \ {id} : Enrolled(dn, i) <=> Enrolled(d, i)
  BY <1>2, SettlementFrame
<1>6. \A i \in DeliveryIds :
            /\ Passed(d, i) => Passed(dn, i)
            /\ Acknowledged(d, i) => Acknowledged(dn, i) \/ Passed(dn, i)
  BY <1>1, PassedAfter
<1> QED
  BY <1>2, <1>3, <1>4, <1>5, <1>6 DEF Advances, SameSettlement

\* An input that observes what is already so.
LEMMA ObserveEffect ==
    ASSUME NEW d, WellFormed(d), NEW id
    PROVE  InputEffect(d, d, id)
<1>1. Advances(d, d)
  BY AcknowledgedRow DEF Advances, SameSettlement
<1> QED
  BY <1>1 DEF InputEffect, Silent, SameRows

\* The next row, not enrolled, is passed as it stands.
LEMMA PlainPassEffect ==
    ASSUME NEW d, WellFormed(d), NEW id \in DeliveryIds, ~Enrolled(d, id), AtCursor(d, id),
           NEW dn, PassRow(d, dn, d.delivery_sequences[id])
    PROVE  InputEffect(d, dn, id)
<1>1. d \in DeliveryAuthority /\ Numbering(d) /\ SettlementOf(d, id)
  BY DEF WellFormed, Settlements
<1>2. \A i \in DeliveryIds : SameSettlement(d, d, i)
  BY DEF SameSettlement
<1>3. SameRows(d, d)
  BY DEF SameRows
<1>4. /\ dn \in DeliveryAuthority
      /\ SameSettlement(d, dn, id)
      /\ \E c \in Nat : Passes(d, dn, id, c)
  BY <1>1, <1>2, <1>3, PassRowPasses
<1>5. PICK c \in Nat : Passes(d, dn, id, c)
  BY <1>4
<1>6. SettledRow(d, id)
  BY <1>1 DEF SettlementOf, SettledRow
<1>7. SettledRow(dn, id)
  BY <1>4, <1>6, SettlementFrame
<1>8. WellFormed(dn)
  BY <1>4, <1>5, <1>7, PassKeeps
<1>9. Advances(d, dn)
  BY <1>4, <1>5, PassAdvances DEF SameSettlement
<1> QED
  BY <1>5, <1>8, <1>9 DEF InputEffect

\* ApplyNextDelivery and ObserveAlreadyAppliedDelivery.
LEMMA MarkAppliedEffect ==
    ASSUME NEW d, WellFormed(d), NEW id \in DeliveryIds, NEW dn, MarkDeliveryApplied(d, dn, id)
    PROVE  InputEffect(d, dn, id)
BY PlainPassEffect, ObserveEffect DEF MarkDeliveryApplied

\* The acknowledgement of a row beyond the next one.
LEMMA AheadEffect ==
    ASSUME NEW d, WellFormed(d), NEW id \in DeliveryIds, ~Enrolled(d, id), Committed(d, id),
           d.delivery_sequences[id] > d.applied_cursor + 1,
           NEW dn, dn = [d EXCEPT !.acknowledged_sequences = @ \cup {d.delivery_sequences[id]}]
    PROVE  InputEffect(d, dn, id) /\ AcknowledgesAhead(d, dn, id)
<1>1. d \in DeliveryAuthority /\ Numbering(d)
  BY DEF WellFormed
<1>2. /\ dn \in DeliveryAuthority
      /\ SameRows(d, dn)
      /\ dn.applied_cursor = d.applied_cursor
      /\ dn.acknowledged_sequences
            = d.acknowledged_sequences \cup {d.delivery_sequences[id]}
      /\ \A i \in DeliveryIds : SameSettlement(d, dn, i)
  BY <1>1 DEF DeliveryAuthority, SameRows, SameSettlement
<1>3. AcknowledgesAhead(d, dn, id)
  BY <1>2 DEF AcknowledgesAhead
<1>4. d.delivery_sequences[id] \in (d.applied_cursor + 2)..d.next_sequence
  BY <1>1, FieldTypes DEF Numbering
<1>5. Numbering(dn)
  BY <1>1, <1>2, <1>4, FieldTypes DEF Numbering, SameRows, Committed
<1>6. Counted(dn) /\ Sourced(dn)
  BY <1>2 DEF WellFormed, Counted, Sourced, CommittedIds, Committed, SameRows
<1>7. ASSUME NEW i \in DeliveryIds
      PROVE  /\ Committed(dn, i) <=> Committed(d, i)
             /\ Passed(dn, i) <=> Passed(d, i)
             /\ Acknowledged(dn, i) <=> Acknowledged(d, i) \/ i = id
             /\ Enrolled(dn, i) <=> Enrolled(d, i)
  <2>1. Acknowledged(dn, i) <=> Acknowledged(d, i) \/ i = id
    BY <1>1, <1>2 DEF Acknowledged, SameRows, Numbering, Committed
  <2> QED
    BY <1>2, <2>1, SettlementFrame DEF Committed, Passed, SameRows
<1>8. Settlements(dn)
  <2>1. \A i \in DeliveryIds : dn.refused_deliveries[i] # None => Passed(dn, i)
    BY <1>2, <1>7 DEF WellFormed, Settlements, SameSettlement
  <2>2. ASSUME NEW i \in DeliveryIds PROVE SettlementOf(dn, i)
    <3>1. SettlementOf(d, i)
      BY DEF WellFormed, Settlements
    <3> QED
      BY <3>1, <1>2, <1>7, SettlementFrame DEF SettlementOf, SameSettlement
  <2> QED
    BY <2>1, <2>2 DEF Settlements
<1>9. Advances(d, dn)
  BY <1>2, <1>7, AcknowledgedRow DEF Advances, SameSettlement
<1> QED
  BY <1>2, <1>3, <1>5, <1>6, <1>8, <1>9 DEF WellFormed, InputEffect

\* AcknowledgeNextDelivery, AcknowledgeAheadOfCursor and
\* ObserveAlreadyAppliedAcknowledgement.
LEMMA AcknowledgeEffect ==
    ASSUME NEW d, WellFormed(d), NEW id \in DeliveryIds, NEW dn, AcknowledgeDelivery(d, dn, id)
    PROVE  InputEffect(d, dn, id)
BY PlainPassEffect, AheadEffect, ObserveEffect DEF AcknowledgeDelivery
\* SettleRefusedDeliveryAtCursor and ObserveAlreadyRefusedDelivery.
LEMMA RefuseEffect ==
    ASSUME NEW d, WellFormed(d), NEW id \in DeliveryIds, NEW reason \in RefusalReasons,
           NEW dn, SettleRefusedDelivery(d, dn, id, reason)
    PROVE  InputEffect(d, dn, id)
<1>1. CASE d.refused_deliveries[id] = reason /\ dn = d
  BY <1>1, ObserveEffect
<1>2. CASE /\ ~Enrolled(d, id)
           /\ AtCursor(d, id)
           /\ PassRow([d EXCEPT !.refused_deliveries[id] = reason], dn,
                      d.delivery_sequences[id])
  <2> DEFINE e == [d EXCEPT !.refused_deliveries[id] = reason]
  <2>1. d \in DeliveryAuthority /\ Numbering(d) /\ SettlementOf(d, id)
    BY DEF WellFormed, Settlements
  <2>2. /\ e \in DeliveryAuthority
        /\ SameRows(d, e)
        /\ e.applied_cursor = d.applied_cursor
        /\ e.acknowledged_sequences = d.acknowledged_sequences
        /\ \A i \in DeliveryIds \ {id} : SameSettlement(d, e, i)
        /\ e.delivery_recipient_bindings = d.delivery_recipient_bindings
        /\ e.recipient_outcomes = d.recipient_outcomes
        /\ e.recipient_group_outcomes = d.recipient_group_outcomes
    BY <2>1 DEF DeliveryAuthority, SameRows, SameSettlement
  <2>3. PassRow(e, dn, d.delivery_sequences[id])
    BY <1>2
  <2> HIDE DEF e
  <2>4. /\ dn \in DeliveryAuthority
        /\ SameSettlement(e, dn, id)
        /\ \E c \in Nat : Passes(d, dn, id, c)
    BY <1>2, <2>1, <2>2, <2>3, PassRowPasses
  <2>5. PICK c \in Nat : Passes(d, dn, id, c)
    BY <2>4
  <2>6. SettledRow(e, id)
    BY <1>2, <2>1, <2>2 DEF SettlementOf, SettledRow, Enrolled
  <2>7. SettledRow(dn, id)
    BY <2>4, <2>6, SettlementFrame
  <2>8. WellFormed(dn)
    BY <2>4, <2>5, <2>7, PassKeeps
  <2>9. Advances(d, dn)
    BY <2>2, <2>4, <2>5, PassAdvances DEF SameSettlement
  <2> QED
    BY <2>5, <2>8, <2>9 DEF InputEffect
<1> QED
  BY <1>1, <1>2 DEF SettleRefusedDelivery

\* A change to the recipients of the next row, before its summary, that keeps
\* the outcomes it has and records outcomes only for those enrolled.
LEMMA RecipientsEffect ==
    ASSUME NEW d, WellFormed(d), NEW id \in DeliveryIds, Committed(d, id), AtCursor(d, id),
           ~Acknowledged(d, id),
           NEW dn \in DeliveryAuthority, Silent(d, dn),
           \A i \in DeliveryIds \ {id} : SameSettlement(d, dn, i),
           Enrolled(dn, id),
           \A r \in Recipients :
               /\ d.recipient_outcomes[id][r] # None
                     => dn.recipient_outcomes[id][r] = d.recipient_outcomes[id][r]
               /\ dn.recipient_outcomes[id][r] # None
                     => r \in dn.delivery_recipient_bindings[id]
    PROVE  InputEffect(d, dn, id)
<1>1. d \in DeliveryAuthority /\ Numbering(d) /\ SettlementOf(d, id)
  BY DEF WellFormed, Settlements
<1>2. ~Passed(d, id)
  BY <1>1, FieldTypes DEF AtCursor, Passed
<1>3. Numbering(dn) /\ Counted(dn) /\ Sourced(dn)
  BY DEF WellFormed, Numbering, Counted, Sourced, CommittedIds, Committed, Silent, SameRows
<1>4. \A i \in DeliveryIds :
          /\ Committed(dn, i) <=> Committed(d, i)
          /\ Passed(dn, i) <=> Passed(d, i)
          /\ Acknowledged(dn, i) <=> Acknowledged(d, i)
          /\ dn.refused_deliveries[i] = d.refused_deliveries[i]
          /\ dn.recipient_group_outcomes[i] = d.recipient_group_outcomes[i]
  BY DEF Committed, Passed, Acknowledged, Silent, SameRows
<1>5. d.refused_deliveries[id] = None /\ d.recipient_group_outcomes[id] = None
  BY <1>1, <1>2 DEF WellFormed, Settlements, SettlementOf
<1>6. ASSUME NEW i \in DeliveryIds PROVE SettlementOf(dn, i)
  <2>1. CASE i = id
    <3>1. GroupRefusal(None) = None
      BY NoneAssumption DEF GroupRefusal, GroupOutcomes
    <3> QED
      BY <2>1, <3>1, <1>2, <1>4, <1>5 DEF SettlementOf
  <2>2. CASE i # id
    <3>1. SettlementOf(d, i) /\ SameSettlement(d, dn, i)
      BY <2>2 DEF WellFormed, Settlements
    <3> QED
      BY <3>1, <1>4, SettlementFrame DEF SettlementOf, SameSettlement
  <2> QED
    BY <2>1, <2>2
<1>7. WellFormed(dn)
  BY <1>3, <1>4, <1>6 DEF WellFormed, Settlements
<1>8. Advances(d, dn)
  <2>1. \A i \in DeliveryIds \ {id} : Enrolled(dn, i) <=> Enrolled(d, i)
    BY SettlementFrame
  <2> QED
    BY <1>2, <1>4, <2>1, AcknowledgedRow DEF Advances, SameSettlement
<1> QED
  BY <1>7, <1>8 DEF InputEffect

\* BindNewDeliveryRecipients and ObserveBoundDeliveryRecipients.
LEMMA BindEffect ==
    ASSUME NEW d, WellFormed(d), NEW id \in DeliveryIds, NEW recipients \in SUBSET Recipients,
           NEW dn, BindDeliveryRecipients(d, dn, id, recipients)
    PROVE  InputEffect(d, dn, id)
<1>1. CASE dn = d
  BY <1>1, ObserveEffect
<1>2. CASE /\ AtCursor(d, id)
           /\ ~Acknowledged(d, id)
           /\ ~Enrolled(d, id)
           /\ dn = [d EXCEPT !.delivery_recipient_bindings[id] = recipients,
                             !.recipient_outcomes[id] = [r \in Recipients |-> None]]
  <2>1. d \in DeliveryAuthority /\ SettlementOf(d, id)
    BY DEF WellFormed, Settlements
  <2>2. /\ dn \in DeliveryAuthority
        /\ Silent(d, dn)
        /\ \A i \in DeliveryIds \ {id} : SameSettlement(d, dn, i)
        /\ dn.delivery_recipient_bindings[id] = recipients
        /\ dn.recipient_outcomes[id] = [r \in Recipients |-> None]
    <3>1. /\ [d.delivery_recipient_bindings EXCEPT ![id] = recipients]
                \in [DeliveryIds -> {None} \cup SUBSET Recipients]
          /\ [d.recipient_outcomes EXCEPT ![id] = [r \in Recipients |-> None]]
                \in [DeliveryIds -> [Recipients -> RecipientOutcomes \cup {None}]]
      BY <2>1 DEF DeliveryAuthority
    <3>2. dn = [d EXCEPT !.delivery_recipient_bindings
                            = [d.delivery_recipient_bindings EXCEPT ![id] = recipients],
                         !.recipient_outcomes
                            = [d.recipient_outcomes EXCEPT ![id] = [r \in Recipients |-> None]]]
      BY <1>2, <2>1 DEF DeliveryAuthority
    <3> QED
      BY <2>1, <3>1, <3>2 DEF DeliveryAuthority, Silent, SameRows, SameSettlement
  <2>3. Enrolled(dn, id)
    BY <2>2, NoneAssumption DEF Enrolled
  <2>4. \A r \in Recipients :
            d.recipient_outcomes[id][r] = None /\ dn.recipient_outcomes[id][r] = None
    BY <1>2, <2>1, <2>2 DEF SettlementOf
  <2>5. Committed(d, id)
    BY DEF BindDeliveryRecipients
  <2> QED
    BY <1>2, <2>2, <2>3, <2>4, <2>5, RecipientsEffect
<1> QED
  BY <1>1, <1>2 DEF BindDeliveryRecipients

\* SettlePendingDeliveryRecipient and ObserveSettledDeliveryRecipient.
LEMMA SettleEffect ==
    ASSUME NEW d, WellFormed(d), NEW id \in DeliveryIds, NEW q \in Recipients,
           NEW outcome \in RecipientOutcomes,
           NEW dn, SettleDeliveryRecipient(d, dn, id, q, outcome)
    PROVE  InputEffect(d, dn, id)
<1>1. CASE dn = d
  BY <1>1, ObserveEffect
<1>2. CASE AtCursor(d, id) /\ d.recipient_outcomes[id][q] = None
               /\ dn = SetOutcome(d, id, q, outcome)
  <2>1. d \in DeliveryAuthority /\ SettlementOf(d, id)
    BY DEF WellFormed, Settlements
  <2>2. Committed(d, id) /\ Enrolled(d, id) /\ q \in d.delivery_recipient_bindings[id]
    BY DEF SettleDeliveryRecipient
  <2>3. /\ dn \in DeliveryAuthority
        /\ Silent(d, dn)
        /\ \A i \in DeliveryIds \ {id} : SameSettlement(d, dn, i)
        /\ dn.delivery_recipient_bindings[id] = d.delivery_recipient_bindings[id]
        /\ \A r \in Recipients : dn.recipient_outcomes[id][r]
              = IF r = q THEN outcome ELSE d.recipient_outcomes[id][r]
    <3> DEFINE ro == [d.recipient_outcomes EXCEPT
                        ![id] = [d.recipient_outcomes[id] EXCEPT ![q] = outcome]]
    <3>1. /\ ro \in [DeliveryIds -> [Recipients -> RecipientOutcomes \cup {None}]]
          /\ \A i \in DeliveryIds \ {id} : ro[i] = d.recipient_outcomes[i]
          /\ \A r \in Recipients : ro[id][r]
                = IF r = q THEN outcome ELSE d.recipient_outcomes[id][r]
      BY <2>1 DEF DeliveryAuthority
    <3>2. dn = [d EXCEPT !.recipient_outcomes = ro]
      BY <1>2, <2>1 DEF SetOutcome, DeliveryAuthority
    <3> HIDE DEF ro
    <3> QED
      BY <2>1, <3>1, <3>2 DEF DeliveryAuthority, Silent, SameRows, SameSettlement
  <2>4. ~Acknowledged(d, id) /\ Enrolled(dn, id)
    BY <2>1, <2>2, <2>3 DEF SettlementOf, Enrolled
  <2>5. \A r \in Recipients :
            /\ d.recipient_outcomes[id][r] # None
                  => dn.recipient_outcomes[id][r] = d.recipient_outcomes[id][r]
            /\ dn.recipient_outcomes[id][r] # None
                  => r \in dn.delivery_recipient_bindings[id]
    BY <1>2, <2>1, <2>2, <2>3 DEF SettlementOf
  <2> QED
    BY <1>2, <2>2, <2>3, <2>4, <2>5, RecipientsEffect
<1> QED
  BY <1>1, <1>2 DEF SettleDeliveryRecipient

\* FinishSettledDeliveryRecipients and ObserveFinishedDeliveryRecipients.
LEMMA FinishEffect ==
    ASSUME NEW d, WellFormed(d), NEW id \in DeliveryIds, NEW dn,
           FinishDeliveryRecipients(d, dn, id)
    PROVE  InputEffect(d, dn, id)
<1>1. CASE dn = d
  BY <1>1, ObserveEffect
<1> DEFINE summary == GroupSummary(d, id)
           e == [d EXCEPT !.recipient_group_outcomes[id] = summary,
                          !.refused_deliveries[id] = GroupRefusal(summary)]
<1>2. CASE /\ AtCursor(d, id)
           /\ Enrolled(d, id)
           /\ AllSettled(d, id)
           /\ PassRow(e, dn, d.delivery_sequences[id])
  <2>1. d \in DeliveryAuthority /\ Numbering(d) /\ SettlementOf(d, id)
    BY DEF WellFormed, Settlements
  <2>2. summary \in GroupOutcomes /\ GroupRefusal(summary) \in RefusalReasons \cup {None}
    BY DEF GroupSummary, GroupRefusal, GroupOutcomes, RefusalReasons
  <2>3. summary # None
    BY <2>2, NoneAssumption
  <2> HIDE DEF summary
  <2>4. /\ e \in DeliveryAuthority
        /\ SameRows(d, e)
        /\ e.applied_cursor = d.applied_cursor
        /\ e.acknowledged_sequences = d.acknowledged_sequences
        /\ \A i \in DeliveryIds \ {id} : SameSettlement(d, e, i)
        /\ e.delivery_recipient_bindings = d.delivery_recipient_bindings
        /\ e.recipient_outcomes = d.recipient_outcomes
        /\ e.recipient_group_outcomes[id] = summary
        /\ e.refused_deliveries[id] = GroupRefusal(summary)
    BY <2>1, <2>2 DEF DeliveryAuthority, SameRows, SameSettlement
  <2>5. PassRow(e, dn, d.delivery_sequences[id])
    BY <1>2
  <2> HIDE DEF e
  <2>6. /\ dn \in DeliveryAuthority
        /\ SameSettlement(e, dn, id)
        /\ \E c \in Nat : Passes(d, dn, id, c)
    BY <1>2, <2>1, <2>4, <2>5, PassRowPasses
  <2>7. PICK c \in Nat : Passes(d, dn, id, c)
    BY <2>6
  <2>8. Enrolled(e, id) /\ AllSettled(e, id) /\ GroupSummary(e, id) = summary
    BY <1>2, <2>4 DEF Enrolled, AllSettled, GroupSummary, Unanimous, summary
  <2>9. SettledRow(e, id)
    BY <1>2, <2>1, <2>3, <2>4, <2>8 DEF SettlementOf, SettledRow
  <2>10. SettledRow(dn, id)
    BY <2>6, <2>9, SettlementFrame
  <2>11. WellFormed(dn)
    BY <2>6, <2>7, <2>10, PassKeeps
  <2>12. Advances(d, dn)
    BY <2>4, <2>6, <2>7, PassAdvances DEF SameSettlement
  <2> QED
    BY <2>7, <2>11, <2>12 DEF InputEffect
<1> QED
  BY <1>1, <1>2 DEF FinishDeliveryRecipients
=============================================================================
