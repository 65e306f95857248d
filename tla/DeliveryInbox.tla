--------------------------- MODULE DeliveryInbox ---------------------------
(***************************************************************************)
(* RuntimeDeliveryInbox over a RuntimeStore: one runtime's authority record *)
(* and its rows.  Every call loads the authority, applies one machine input *)
(* to its copy and swaps the record if its revision is still the one it     *)
(* read; a submission inserts its row in the same transaction.  Calls of    *)
(* producers, appliers and out-of-band acknowledgers interleave freely, and *)
(* a process may stop between its read and its swap.                        *)
(*                                                                          *)
(* A pending call is the copy it works on; which operation it is, and with  *)
(* which arguments, is chosen when it ends.  A call that lost its swap      *)
(* reads again: that is a new call here.                                    *)
(***************************************************************************)
EXTENDS RuntimeDeliveryMachine, Sequences

CONSTANTS
    Callers,        \* processes calling the inbox
    SourceSequences,\* sequences producers give their deliveries
    MaxRevision     \* bound: the number of committed writes

ASSUME InboxAssumption ==
    /\ SourceSequences \subseteq Nat \ {0}
    /\ MaxRevision \in Nat

VARIABLES
    authority,      \* the stored authority; EmptyAuthority while absent
    revision,       \* its revision; 0 while absent
    rows,           \* the stored row of each delivery, or None
    call,           \* what a pending call read, or None
    report          \* what the last listing answered, if the last call was one

vars == <<authority, revision, rows, call, report>>

Row == [sequence : Nat, source_sequence : Nat]

Call == [read : DeliveryAuthority, expected_revision : Nat]

TypeOK ==
    /\ authority \in DeliveryAuthority
    /\ revision \in Nat
    /\ rows \in [DeliveryIds -> Row \cup {None}]
    /\ call \in [Callers -> Call \cup {None}]
    /\ report \in {"none", "pending", "corrupt"}

Init ==
    /\ authority = EmptyAuthority
    /\ revision = 0
    /\ rows = [i \in DeliveryIds |-> None]
    /\ call = [c \in Callers |-> None]
    /\ report = "none"

-----------------------------------------------------------------------------

\* load_runtime_delivery_authority
Load(c) ==
    /\ call[c] = None
    /\ call' = [call EXCEPT ![c] = [read |-> authority,
                                    expected_revision |-> revision]]
    /\ report' = "none"
    /\ UNCHANGED <<authority, revision, rows>>

\* The call ends without a write: the machine rejected the input, the input
\* observed what was already so, the swap lost, or the process stopped.
EndCall(c) ==
    /\ call[c] # None
    /\ call' = [call EXCEPT ![c] = None]
    /\ report' = "none"
    /\ UNCHANGED <<authority, revision, rows>>

\* compare_and_swap_runtime_delivery_authority
CompareAndSwap(c) ==
    /\ call[c].expected_revision = revision
    /\ revision < MaxRevision
    /\ revision' = revision + 1
    /\ call' = [call EXCEPT ![c] = None]
    /\ report' = "none"

\* The store refuses a second row for an id or a sequence.
InsertRow(c, id, source) ==
    LET seq == call[c].read.next_sequence + 1
    IN  /\ \A i \in DeliveryIds : rows[i] # None => i # id /\ rows[i].sequence # seq
        /\ rows' = [rows EXCEPT ![id] = [sequence |-> seq,
                                         source_sequence |-> source]]

\* submit: a repeated submission finds its row and writes nothing.
Submit(c, id, source) ==
    /\ call[c] # None
    /\ ~Committed(call[c].read, id)
    /\ CommitDelivery(call[c].read, authority', id, source)
    /\ InsertRow(c, id, source)
    /\ CompareAndSwap(c)

\* submit_acknowledged: row and acknowledgement in one commit.  A repeated
\* submission is an acknowledgement.
SubmitAcknowledged(c, id, source) ==
    /\ call[c] # None
    /\ ~Committed(call[c].read, id)
    /\ AcknowledgeDelivery(CommittedNew(call[c].read, id, source), authority', id)
    /\ InsertRow(c, id, source)
    /\ CompareAndSwap(c)

\* A call that changes the authority writes it alone; one that observes what
\* is already so writes nothing (EndCall).
WriteAuthority(c) ==
    /\ authority' # call[c].read
    /\ CompareAndSwap(c)
    /\ UNCHANGED rows

MarkApplied(c, id) ==
    /\ call[c] # None
    /\ MarkDeliveryApplied(call[c].read, authority', id)
    /\ WriteAuthority(c)

MarkRefused(c, id, reason) ==
    /\ call[c] # None
    /\ SettleRefusedDelivery(call[c].read, authority', id, reason)
    /\ WriteAuthority(c)

Acknowledge(c, id) ==
    /\ call[c] # None
    /\ AcknowledgeDelivery(call[c].read, authority', id)
    /\ WriteAuthority(c)

BindRecipients(c, id, recipients) ==
    /\ call[c] # None
    /\ BindDeliveryRecipients(call[c].read, authority', id, recipients)
    /\ WriteAuthority(c)

SettleRecipient(c, id, r, outcome) ==
    /\ call[c] # None
    /\ SettleDeliveryRecipient(call[c].read, authority', id, r, outcome)
    /\ WriteAuthority(c)

FinishRecipients(c, id) ==
    /\ call[c] # None
    /\ FinishDeliveryRecipients(call[c].read, authority', id)
    /\ WriteAuthority(c)

\* The rows list_runtime_delivery_records answers: those after the cursor,
\* in sequence order, up to the limit.
RowsAfter(cursor, limit) ==
    LET after == {i \in DeliveryIds : rows[i] # None /\ rows[i].sequence > cursor}
    IN  {i \in after :
            Cardinality({j \in after : rows[j].sequence < rows[i].sequence}) < limit}

\* list_pending reads the rows after the authority it loaded and demands that
\* they agree with it.
ListPending(c, limit) ==
    LET d == call[c].read
        listed == RowsAfter(d.applied_cursor, limit)
        pending == d.next_sequence - d.applied_cursor
        expected == IF pending < limit THEN pending ELSE limit
        consecutive == {rows[i].sequence : i \in listed}
                          = (d.applied_cursor + 1)..(d.applied_cursor + Cardinality(listed))
        agree == \A i \in listed :
                    /\ d.delivery_sequences[i] = rows[i].sequence
                    /\ d.delivery_source_sequences[i] = rows[i].source_sequence
    IN  /\ call[c] # None
        /\ limit > 0
        /\ report' = IF consecutive /\ agree /\ Cardinality(listed) = expected
                     THEN "pending" ELSE "corrupt"
        /\ call' = [call EXCEPT ![c] = None]
        /\ UNCHANGED <<authority, revision, rows>>

Next ==
    \E c \in Callers :
        \/ Load(c)
        \/ EndCall(c)
        \/ \E id \in DeliveryIds :
              \/ \E s \in SourceSequences : Submit(c, id, s) \/ SubmitAcknowledged(c, id, s)
              \/ MarkApplied(c, id)
              \/ \E reason \in RefusalReasons : MarkRefused(c, id, reason)
              \/ Acknowledge(c, id)
              \/ \E recipients \in SUBSET Recipients : BindRecipients(c, id, recipients)
              \/ \E r \in Recipients, outcome \in RecipientOutcomes :
                    SettleRecipient(c, id, r, outcome)
              \/ FinishRecipients(c, id)
        \/ \E limit \in 1..Cardinality(DeliveryIds) : ListPending(c, limit)

Spec == Init /\ [][Next]_vars

-----------------------------------------------------------------------------

\* The stored authority can always be read back.  decode_authority refuses a
\* record that fails the machine's invariants, and every later call of the
\* runtime's inbox would fail with it, whatever order of calls wrote it.
AuthorityDecodes == Decodes(authority)

\* A verdict that settles a delivery is never replaced, and the delivery is
\* never settled to one recipient differently than before: repeated, late and
\* reordered settlements observe the first.
SettlementIsFinal ==
    [][\A i \in DeliveryIds :
          /\ Passed(authority, i)
                => DeliveryStatus(authority', i) = DeliveryStatus(authority, i)
          /\ \A r \in Recipients :
                authority.recipient_outcomes[i][r] # None
                    => authority'.recipient_outcomes[i][r]
                            = authority.recipient_outcomes[i][r]]_vars

\* A delivery acknowledged out of band never reaches a sink: from then on no
\* recipient is enrolled for it and it ends as applied.
AcknowledgedNeverExecutes ==
    [][\A i \in DeliveryIds :
          Acknowledged(authority, i)
            => /\ authority'.delivery_recipient_bindings[i] = None
               /\ \/ Acknowledged(authority', i)
                  \/ DeliveryStatus(authority', i) = {"Applied"}]_vars

-----------------------------------------------------------------------------

\* The delivery at each sequence, and what became of the settled ones.
DeliveryAt(n) == CHOOSE i \in DeliveryIds : authority.delivery_sequences[i] = n

Verdict(i) == CHOOSE s \in DeliveryStatus(authority, i) : TRUE

Ordered == INSTANCE OrderedInbox WITH
    log <- [n \in 1..authority.next_sequence |-> DeliveryAt(n)],
    fate <- [n \in 1..authority.applied_cursor |-> Verdict(DeliveryAt(n))],
    early <- {i \in DeliveryIds : Acknowledged(authority, i)}

\* The interleaved reads and swaps implement the ordered inbox: each delivery
\* is appended once, and settled once, in order, early ones as applied.
InboxIsOrdered == Ordered!Spec

=============================================================================
