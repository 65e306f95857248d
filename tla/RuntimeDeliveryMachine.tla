----------------------- MODULE RuntimeDeliveryMachine -----------------------
(***************************************************************************)
(* The generated delivery authority of one runtime: which deliveries are   *)
(* committed, in which order, and what became of each.  Every input is a   *)
(* relation between a record d and its successor dn; the variables belong  *)
(* to the modules that use it.                                             *)
(*                                                                         *)
(* A recipient stands for its id together with the target it is bound to:  *)
(* the machine only ever compares the pair with itself.                    *)
(***************************************************************************)
EXTENDS Integers, FiniteSets

CONSTANTS
    DeliveryIds,    \* delivery ids, derived by producers from their own keys
    Recipients,     \* recipients a delivery may be addressed to
    None

RefusalReasons ==
    {"NoAdmissibleWorkBinding", "AuthorityDenied",
     "OperationAuthorizationUnavailable"}

RecipientOutcomes == {"Applied", "Refused", "OperationAuthorizationUnavailable"}

GroupOutcomes == {"AllApplied", "AllRefused", "AllAuthorizationUnavailable", "Mixed"}

ASSUME NoneAssumption ==
    /\ None \notin RefusalReasons \cup RecipientOutcomes \cup GroupOutcomes
    /\ \A recipients \in SUBSET Recipients : None # recipients

\* A delivery that is not committed has sequence 0.
DeliveryAuthority ==
    [delivery_sequences : [DeliveryIds -> Nat],
     delivery_source_sequences : [DeliveryIds -> Nat],
     next_sequence : Nat,
     applied_cursor : Nat,
     acknowledged_sequences : SUBSET Nat,
     refused_deliveries : [DeliveryIds -> RefusalReasons \cup {None}],
     delivery_recipient_bindings : [DeliveryIds -> {None} \cup SUBSET Recipients],
     recipient_outcomes :
        [DeliveryIds -> [Recipients -> RecipientOutcomes \cup {None}]],
     recipient_group_outcomes : [DeliveryIds -> GroupOutcomes \cup {None}]]

EmptyAuthority ==
    [delivery_sequences |-> [i \in DeliveryIds |-> 0],
     delivery_source_sequences |-> [i \in DeliveryIds |-> 0],
     next_sequence |-> 0,
     applied_cursor |-> 0,
     acknowledged_sequences |-> {},
     refused_deliveries |-> [i \in DeliveryIds |-> None],
     delivery_recipient_bindings |-> [i \in DeliveryIds |-> None],
     recipient_outcomes |-> [i \in DeliveryIds |-> [r \in Recipients |-> None]],
     recipient_group_outcomes |-> [i \in DeliveryIds |-> None]]

-----------------------------------------------------------------------------

Committed(d, id) == d.delivery_sequences[id] > 0

Passed(d, id) == Committed(d, id) /\ d.delivery_sequences[id] <= d.applied_cursor

\* The row the cursor comes to next.
AtCursor(d, id) == d.delivery_sequences[id] = d.applied_cursor + 1

Acknowledged(d, id) == d.delivery_sequences[id] \in d.acknowledged_sequences

Enrolled(d, id) == d.delivery_recipient_bindings[id] # None

SetOutcome(d, id, r, outcome) ==
    [d EXCEPT !.recipient_outcomes[id][r] = outcome]

\* AdvanceAcknowledgedPrefix, driven to rest: the cursor passes the
\* acknowledged rows that follow it.
AdvanceAcknowledgedPrefix(d, dn) ==
    \E c \in d.applied_cursor..d.next_sequence :
        /\ (d.applied_cursor + 1)..c \subseteq d.acknowledged_sequences
        /\ c = d.next_sequence \/ c + 1 \notin d.acknowledged_sequences
        /\ dn = [d EXCEPT !.applied_cursor = c,
                          !.acknowledged_sequences = @ \ (d.applied_cursor + 1)..c]

\* The cursor passes one row and every acknowledged row behind it.
PassRow(d, dn, seq) ==
    AdvanceAcknowledgedPrefix(
        [d EXCEPT !.applied_cursor = seq, !.acknowledged_sequences = @ \ {seq}], dn)

-----------------------------------------------------------------------------

\* CommitNewDelivery
CommittedNew(d, id, source) ==
    [d EXCEPT !.next_sequence = @ + 1,
              !.delivery_sequences[id] = d.next_sequence + 1,
              !.delivery_source_sequences[id] = source]

\* CommitDelivery; an exact repeat reuses the committed row and a different
\* source sequence is rejected.
CommitDelivery(d, dn, id, source) ==
    /\ source > 0
    /\ \/ ~Committed(d, id) /\ dn = CommittedNew(d, id, source)
       \/ /\ Committed(d, id)
          /\ d.delivery_source_sequences[id] = source
          /\ dn = d

\* Mutant: a row that is being applied to its recipients is not protected.
MarkDeliveryAppliedEnrolled(d, dn, id) ==
    /\ Committed(d, id)
    /\ \/ AtCursor(d, id) /\ PassRow(d, dn, d.delivery_sequences[id])
       \/ /\ Passed(d, id)
          /\ d.refused_deliveries[id] = None
          /\ dn = d

\* ApplyNextDelivery / ObserveAlreadyAppliedDelivery
MarkDeliveryApplied(d, dn, id) ==
    /\ ~Enrolled(d, id)
    /\ Committed(d, id)
    /\ \/ AtCursor(d, id) /\ PassRow(d, dn, d.delivery_sequences[id])
       \/ /\ Passed(d, id)
          /\ d.refused_deliveries[id] = None
          /\ dn = d

\* Mutant: an acknowledgement ahead of the cursor moves the cursor there.
AcknowledgeDeliveryJumping(d, dn, id) ==
    /\ ~Enrolled(d, id)
    /\ Committed(d, id)
    /\ \/ ~Passed(d, id) /\ PassRow(d, dn, d.delivery_sequences[id])
       \/ /\ Passed(d, id)
          /\ d.refused_deliveries[id] = None
          /\ dn = d

\* AcknowledgeNextDelivery / AcknowledgeAheadOfCursor /
\* ObserveAlreadyAppliedAcknowledgement
AcknowledgeDelivery(d, dn, id) ==
    /\ ~Enrolled(d, id)
    /\ Committed(d, id)
    /\ \/ AtCursor(d, id) /\ PassRow(d, dn, d.delivery_sequences[id])
       \/ /\ d.delivery_sequences[id] > d.applied_cursor + 1
          /\ dn = [d EXCEPT !.acknowledged_sequences =
                                @ \cup {d.delivery_sequences[id]}]
       \/ /\ Passed(d, id)
          /\ d.refused_deliveries[id] = None
          /\ dn = d

\* Mutant: the refusal is repeated for a row that was applied.
SettleRefusedDeliveryLate(d, dn, id, reason) ==
    /\ ~Enrolled(d, id)
    /\ Committed(d, id)
    /\ \/ /\ AtCursor(d, id)
          /\ ~Acknowledged(d, id)
          /\ PassRow([d EXCEPT !.refused_deliveries[id] = reason], dn,
                     d.delivery_sequences[id])
       \/ Passed(d, id) /\ dn = [d EXCEPT !.refused_deliveries[id] = reason]

\* SettleRefusedDeliveryAtCursor / ObserveAlreadyRefusedDelivery
SettleRefusedDelivery(d, dn, id, reason) ==
    /\ ~Enrolled(d, id)
    /\ Committed(d, id)
    /\ \/ /\ AtCursor(d, id)
          /\ ~Acknowledged(d, id)
          /\ PassRow([d EXCEPT !.refused_deliveries[id] = reason], dn,
                     d.delivery_sequences[id])
       \/ d.refused_deliveries[id] = reason /\ dn = d

-----------------------------------------------------------------------------

\* Mutant: a row is enrolled when it is listed, whatever happened to it.
BindDeliveryRecipientsEarly(d, dn, id, recipients) ==
    /\ Committed(d, id)
    /\ \/ /\ ~Passed(d, id)
          /\ ~Enrolled(d, id)
          /\ dn = [d EXCEPT !.delivery_recipient_bindings[id] = recipients,
                            !.acknowledged_sequences = @ \ {d.delivery_sequences[id]},
                            !.recipient_outcomes[id] = [r \in Recipients |-> None]]
       \/ d.delivery_recipient_bindings[id] = recipients /\ dn = d

\* BindNewDeliveryRecipients / ObserveBoundDeliveryRecipients
BindDeliveryRecipients(d, dn, id, recipients) ==
    /\ Committed(d, id)
    /\ \/ /\ AtCursor(d, id)
          /\ ~Acknowledged(d, id)
          /\ ~Enrolled(d, id)
          /\ dn = [d EXCEPT !.delivery_recipient_bindings[id] = recipients,
                            !.recipient_outcomes[id] = [r \in Recipients |-> None]]
       \/ d.delivery_recipient_bindings[id] = recipients /\ dn = d

\* SettlePendingDeliveryRecipient / ObserveSettledDeliveryRecipient
SettleDeliveryRecipient(d, dn, id, r, outcome) ==
    /\ Committed(d, id)
    /\ Enrolled(d, id)
    /\ r \in d.delivery_recipient_bindings[id]
    /\ \/ /\ AtCursor(d, id)
          /\ d.recipient_outcomes[id][r] = None
          /\ dn = SetOutcome(d, id, r, outcome)
       \/ d.recipient_outcomes[id][r] = outcome /\ dn = d

\* Every recipient of the row has the same outcome.
Unanimous(d, id, outcome) ==
    \A r \in d.delivery_recipient_bindings[id] : d.recipient_outcomes[id][r] = outcome

GroupSummary(d, id) ==
    IF Unanimous(d, id, "Applied") THEN "AllApplied"
    ELSE IF Unanimous(d, id, "Refused") THEN "AllRefused"
    ELSE IF Unanimous(d, id, "OperationAuthorizationUnavailable")
         THEN "AllAuthorizationUnavailable"
    ELSE "Mixed"

\* The refusal a group that settled unanimously against the delivery leaves.
GroupRefusal(summary) ==
    IF summary = "AllRefused" THEN "AuthorityDenied"
    ELSE IF summary = "AllAuthorizationUnavailable"
         THEN "OperationAuthorizationUnavailable"
    ELSE None

AllSettled(d, id) ==
    \A r \in d.delivery_recipient_bindings[id] : d.recipient_outcomes[id][r] # None

\* FinishSettledDeliveryRecipients / ObserveFinishedDeliveryRecipients
FinishDeliveryRecipients(d, dn, id) ==
    /\ Committed(d, id)
    /\ \/ /\ AtCursor(d, id)
          /\ Enrolled(d, id)
          /\ AllSettled(d, id)
          /\ PassRow([d EXCEPT
                        !.recipient_group_outcomes[id] = GroupSummary(d, id),
                        !.refused_deliveries[id] = GroupRefusal(GroupSummary(d, id))],
                     dn, d.delivery_sequences[id])
       \/ d.recipient_group_outcomes[id] # None /\ dn = d

-----------------------------------------------------------------------------

\* ClassifyDeliveryStatus: the arms whose guards hold.  The machine rejects
\* the input when none does, and the inbox when more than one does.
DeliveryStatus(d, id) ==
    LET refused == d.refused_deliveries[id] # None
        group == d.recipient_group_outcomes[id]
    IN  {s \in {"NotCommitted", "Refused", "Applied", "AcknowledgedAhead",
                "Pending", "Mixed"} :
            CASE s = "NotCommitted" -> ~Committed(d, id)
              [] s = "Refused" ->
                    /\ Committed(d, id)
                    /\ \/ refused
                       \/ /\ Passed(d, id)
                          /\ group \in {"AllRefused", "AllAuthorizationUnavailable"}
              [] s = "Applied" ->
                    Passed(d, id) /\ ~refused /\ group \in {None, "AllApplied"}
              [] s = "AcknowledgedAhead" ->
                    /\ Committed(d, id) /\ ~refused /\ ~Passed(d, id)
                    /\ Acknowledged(d, id)
              [] s = "Pending" ->
                    /\ Committed(d, id) /\ ~refused /\ ~Passed(d, id)
                    /\ ~Acknowledged(d, id)
              [] s = "Mixed" -> Passed(d, id) /\ ~refused /\ group = "Mixed"}

\* What a record must satisfy to be read back: the machine's declared
\* invariants and the checks of PersistedAuthorityState::validate.
Decodes(d) ==
    /\ {d.delivery_sequences[i] : i \in {j \in DeliveryIds : Committed(d, j)}}
            = 1..d.next_sequence
    /\ Cardinality({i \in DeliveryIds : Committed(d, i)}) = d.next_sequence
    /\ \A i \in DeliveryIds : Committed(d, i) <=> d.delivery_source_sequences[i] > 0
    /\ d.applied_cursor <= d.next_sequence
    /\ d.acknowledged_sequences \subseteq (d.applied_cursor + 1)..d.next_sequence
    /\ \A i \in DeliveryIds : d.refused_deliveries[i] # None => Passed(d, i)
    /\ \A i \in DeliveryIds :
          IF Enrolled(d, i)
          THEN /\ Committed(d, i)
               /\ ~Acknowledged(d, i)
               /\ d.refused_deliveries[i]
                    = GroupRefusal(d.recipient_group_outcomes[i])
               /\ \A r \in Recipients :
                     d.recipient_outcomes[i][r] # None
                        => r \in d.delivery_recipient_bindings[i]
               /\ Passed(d, i) <=> d.recipient_group_outcomes[i] # None
               /\ d.recipient_group_outcomes[i] # None
                    => /\ AllSettled(d, i)
                       /\ d.recipient_group_outcomes[i] = GroupSummary(d, i)
          ELSE /\ d.recipient_group_outcomes[i] = None
               /\ \A r \in Recipients : d.recipient_outcomes[i][r] = None

=============================================================================
