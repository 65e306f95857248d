------------------------ MODULE DeliveryInboxProofs ------------------------
(***************************************************************************)
(* The inbox of one runtime: the stored authority always decodes, no       *)
(* settlement is taken back, an acknowledged delivery is never executed,   *)
(* and the interleaved calls implement the ordered inbox.                  *)
(*                                                                         *)
(* The inductive invariant is InboxInv.  AuthorityDecodes is not inductive *)
(* by itself: a call writes what it computed from the record it read, so   *)
(* the invariant says that a call whose expected revision is the stored    *)
(* one has read the stored record.  A swap that commits is then an input   *)
(* of the machine applied to the stored record, and what it does is the    *)
(* lemma of RuntimeDeliveryProofs for that input.                          *)
(***************************************************************************)
EXTENDS DeliveryInbox, RuntimeDeliveryProofs, SequenceTheorems

\* A pending call is not ahead of the stored revision, and at that revision it
\* has read the stored authority.
ReadsAreRevisions ==
    /\ revision \in Nat
    /\ call = [c \in Callers |-> call[c]]
    /\ \A c \in Callers : call[c] # None =>
          /\ call[c].expected_revision \in Nat
          /\ call[c].expected_revision <= revision
          /\ call[c].expected_revision = revision => call[c].read = authority

InboxInv == ReadsAreRevisions /\ WellFormed(authority)

\* What a step does to the authority: nothing, an input of the machine, a new
\* row, or a new row that is acknowledged at once.
AuthorityStep ==
    \/ UNCHANGED authority
    \/ \E id \in DeliveryIds : InputEffect(authority, authority', id)
    \/ \E id \in DeliveryIds, s \in Nat \ {0} :
          /\ ~Committed(authority, id)
          /\ \/ authority' = CommittedNew(authority, id, s)
             \/ AcknowledgeDelivery(CommittedNew(authority, id, s), authority', id)

-----------------------------------------------------------------------------

\* The invariant holds before the first call.
LEMMA InboxInit == Init => InboxInv
BY EmptyWellFormed DEF Init, InboxInv, ReadsAreRevisions

\* A swap that commits works on the authority as it is stored, and leaves
\* every pending call behind the new revision.
LEMMA SwapReadsStored ==
    ASSUME ReadsAreRevisions, NEW c \in Callers, call[c] # None, CompareAndSwap(c)
    PROVE  call[c].read = authority /\ ReadsAreRevisions'
<1>1. call[c].read = authority
  BY DEF ReadsAreRevisions, CompareAndSwap
<1>2. /\ revision' \in Nat
      /\ call' = [b \in Callers |-> call'[b]]
      /\ \A b \in Callers : call'[b] # None =>
            call'[b].expected_revision \in Nat /\ call'[b].expected_revision < revision'
  BY DEF ReadsAreRevisions, CompareAndSwap
<1> QED
  BY <1>1, <1>2 DEF ReadsAreRevisions

\* Every step keeps the reads and revisions together and does to the
\* authority what an input of the machine does.
LEMMA StepOnAuthority ==
    ASSUME InboxInv, Next
    PROVE  ReadsAreRevisions' /\ AuthorityStep
<1>0. ReadsAreRevisions /\ WellFormed(authority)
  BY DEF InboxInv
<1>1. PICK c \in Callers :
        \/ Load(c)
        \/ EndCall(c)
        \/ \E id \in DeliveryIds :
              \/ \E s \in SourceSequences : Submit(c, id, s) \/ SubmitAcknowledged(c, id, s)
              \/ MarkApplied(c, id)
              \/ \E reason \in RefusalReasons : MarkRefused(c, id, reason)
              \/ Acknowledge(c, id)
              \/ \E recipients \in SUBSET Recipients : BindRecipients(c, id, recipients)
              \/ \E r \in Recipients, outcome \in RecipientOutcomes :
                    SettleRecipient(c, id, r, outcome)
              \/ FinishRecipients(c, id)
        \/ \E limit \in 1..Cardinality(DeliveryIds) : ListPending(c, limit)
  BY DEF Next
<1>2. CASE Load(c)
  BY <1>0, <1>2 DEF Load, ReadsAreRevisions, AuthorityStep
<1>3. CASE EndCall(c)
  BY <1>0, <1>3 DEF EndCall, ReadsAreRevisions, AuthorityStep
<1>4. ASSUME NEW limit \in 1..Cardinality(DeliveryIds), ListPending(c, limit)
      PROVE  ReadsAreRevisions' /\ AuthorityStep
  <2>1. UNCHANGED <<authority, revision>> /\ call' = [call EXCEPT ![c] = None]
    BY <1>4 DEF ListPending
  <2> QED
    BY <1>0, <2>1 DEF ReadsAreRevisions, AuthorityStep
<1>5. ASSUME NEW id \in DeliveryIds, NEW s \in SourceSequences, Submit(c, id, s)
      PROVE  ReadsAreRevisions' /\ AuthorityStep
  <2>1. call[c].read = authority /\ ReadsAreRevisions'
    BY <1>0, <1>5, SwapReadsStored DEF Submit
  <2>2. ~Committed(authority, id) /\ authority' = CommittedNew(authority, id, s)
    BY <1>5, <2>1 DEF Submit, CommitDelivery
  <2>3. s \in Nat \ {0}
    BY InboxAssumption
  <2> QED
    BY <2>1, <2>2, <2>3 DEF AuthorityStep
<1>6. ASSUME NEW id \in DeliveryIds, NEW s \in SourceSequences, SubmitAcknowledged(c, id, s)
      PROVE  ReadsAreRevisions' /\ AuthorityStep
  <2>1. call[c].read = authority /\ ReadsAreRevisions'
    BY <1>0, <1>6, SwapReadsStored DEF SubmitAcknowledged
  <2>2. /\ ~Committed(authority, id)
        /\ AcknowledgeDelivery(CommittedNew(authority, id, s), authority', id)
    BY <1>6, <2>1 DEF SubmitAcknowledged
  <2>3. s \in Nat \ {0}
    BY InboxAssumption
  <2> QED
    BY <2>1, <2>2, <2>3 DEF AuthorityStep
<1>7. ASSUME NEW id \in DeliveryIds, MarkApplied(c, id)
      PROVE  ReadsAreRevisions' /\ AuthorityStep
  <2>1. call[c].read = authority /\ ReadsAreRevisions'
    BY <1>0, <1>7, SwapReadsStored DEF MarkApplied, WriteAuthority
  <2>2. InputEffect(authority, authority', id)
    BY <1>0, <1>7, <2>1, MarkAppliedEffect DEF MarkApplied
  <2> QED
    BY <2>1, <2>2 DEF AuthorityStep
<1>8. ASSUME NEW id \in DeliveryIds, NEW reason \in RefusalReasons, MarkRefused(c, id, reason)
      PROVE  ReadsAreRevisions' /\ AuthorityStep
  <2>1. call[c].read = authority /\ ReadsAreRevisions'
    BY <1>0, <1>8, SwapReadsStored DEF MarkRefused, WriteAuthority
  <2>2. InputEffect(authority, authority', id)
    BY <1>0, <1>8, <2>1, RefuseEffect DEF MarkRefused
  <2> QED
    BY <2>1, <2>2 DEF AuthorityStep
<1>9. ASSUME NEW id \in DeliveryIds, Acknowledge(c, id)
      PROVE  ReadsAreRevisions' /\ AuthorityStep
  <2>1. call[c].read = authority /\ ReadsAreRevisions'
    BY <1>0, <1>9, SwapReadsStored DEF Acknowledge, WriteAuthority
  <2>2. InputEffect(authority, authority', id)
    BY <1>0, <1>9, <2>1, AcknowledgeEffect DEF Acknowledge
  <2> QED
    BY <2>1, <2>2 DEF AuthorityStep
<1>10. ASSUME NEW id \in DeliveryIds, NEW recipients \in SUBSET Recipients,
              BindRecipients(c, id, recipients)
       PROVE  ReadsAreRevisions' /\ AuthorityStep
  <2>1. call[c].read = authority /\ ReadsAreRevisions'
    BY <1>0, <1>10, SwapReadsStored DEF BindRecipients, WriteAuthority
  <2>2. InputEffect(authority, authority', id)
    BY <1>0, <1>10, <2>1, BindEffect DEF BindRecipients
  <2> QED
    BY <2>1, <2>2 DEF AuthorityStep
<1>11. ASSUME NEW id \in DeliveryIds, NEW r \in Recipients, NEW outcome \in RecipientOutcomes,
              SettleRecipient(c, id, r, outcome)
       PROVE  ReadsAreRevisions' /\ AuthorityStep
  <2>1. call[c].read = authority /\ ReadsAreRevisions'
    BY <1>0, <1>11, SwapReadsStored DEF SettleRecipient, WriteAuthority
  <2>2. InputEffect(authority, authority', id)
    BY <1>0, <1>11, <2>1, SettleEffect DEF SettleRecipient
  <2> QED
    BY <2>1, <2>2 DEF AuthorityStep
<1>12. ASSUME NEW id \in DeliveryIds, FinishRecipients(c, id)
       PROVE  ReadsAreRevisions' /\ AuthorityStep
  <2>1. call[c].read = authority /\ ReadsAreRevisions'
    BY <1>0, <1>12, SwapReadsStored DEF FinishRecipients, WriteAuthority
  <2>2. InputEffect(authority, authority', id)
    BY <1>0, <1>12, <2>1, FinishEffect DEF FinishRecipients
  <2> QED
    BY <2>1, <2>2 DEF AuthorityStep
<1> QED
  BY <1>1, <1>2, <1>3, <1>4, <1>5, <1>6, <1>7, <1>8, <1>9, <1>10, <1>11, <1>12

\* Two changes that take nothing back take nothing back together.
LEMMA AdvancesTogether ==
    ASSUME NEW d, NEW m, NEW dn, Advances(d, m), Advances(m, dn)
    PROVE  Advances(d, dn)
<1> SUFFICES ASSUME NEW i \in DeliveryIds
             PROVE  /\ Passed(d, i) => Passed(dn, i) /\ SameSettlement(d, dn, i)
                    /\ \A r \in Recipients :
                          d.recipient_outcomes[i][r] # None
                              => dn.recipient_outcomes[i][r] = d.recipient_outcomes[i][r]
                    /\ Acknowledged(d, i)
                          => /\ ~Enrolled(dn, i)
                             /\ dn.refused_deliveries[i] = None
                             /\ Acknowledged(dn, i) \/ Passed(dn, i)
  BY DEF Advances
<1>1. Passed(d, i) => Passed(dn, i) /\ SameSettlement(d, dn, i)
  BY DEF Advances, SameSettlement
<1>2. \A r \in Recipients :
          d.recipient_outcomes[i][r] # None
              => dn.recipient_outcomes[i][r] = d.recipient_outcomes[i][r]
  BY DEF Advances
<1>3. CASE Acknowledged(d, i) /\ Acknowledged(m, i)
  BY <1>1, <1>2, <1>3 DEF Advances
<1>4. CASE Acknowledged(d, i) /\ Passed(m, i)
  <2>1. Passed(dn, i) /\ SameSettlement(m, dn, i) /\ ~Enrolled(m, i)
           /\ m.refused_deliveries[i] = None
    BY <1>4 DEF Advances
  <2> QED
    BY <1>1, <1>2, <2>1 DEF SameSettlement, Enrolled
<1> QED
  BY <1>1, <1>2, <1>3, <1>4 DEF Advances

\* Every step leaves a well-formed authority and takes nothing back.
LEMMA InboxStep ==
    ASSUME InboxInv, [Next]_vars
    PROVE  InboxInv' /\ Advances(authority, authority')
<1>0. WellFormed(authority)
  BY DEF InboxInv
<1>1. CASE UNCHANGED authority
  <2>1. WellFormed(authority)' /\ Advances(authority, authority')
    BY <1>0, <1>1, ObserveEffect DEF InputEffect
  <2>2. ReadsAreRevisions'
    <3>1. CASE Next
      BY <3>1, StepOnAuthority
    <3>2. CASE UNCHANGED vars
      BY <3>2 DEF vars, InboxInv, ReadsAreRevisions
    <3> QED
      BY <3>1, <3>2
  <2> QED
    BY <2>1, <2>2 DEF InboxInv
<1>2. CASE Next
  <2>1. ReadsAreRevisions' /\ AuthorityStep
    BY <1>2, StepOnAuthority
  <2>2. ASSUME NEW id \in DeliveryIds, InputEffect(authority, authority', id)
        PROVE  WellFormed(authority') /\ Advances(authority, authority')
    BY <2>2 DEF InputEffect
  <2>3. ASSUME NEW id \in DeliveryIds, NEW s \in Nat \ {0}, ~Committed(authority, id),
               authority' = CommittedNew(authority, id, s)
        PROVE  WellFormed(authority') /\ Advances(authority, authority')
    BY <1>0, <2>3, CommitKeeps, CommitAdvances
  <2>4. ASSUME NEW id \in DeliveryIds, NEW s \in Nat \ {0}, ~Committed(authority, id),
               AcknowledgeDelivery(CommittedNew(authority, id, s), authority', id)
        PROVE  WellFormed(authority') /\ Advances(authority, authority')
    <3>1. /\ WellFormed(CommittedNew(authority, id, s))
          /\ Advances(authority, CommittedNew(authority, id, s))
      BY <1>0, <2>4, CommitKeeps, CommitAdvances
    <3>2. InputEffect(CommittedNew(authority, id, s), authority', id)
      BY <2>4, <3>1, AcknowledgeEffect
    <3> QED
      BY <3>1, <3>2, AdvancesTogether DEF InputEffect
  <2> QED
    BY <1>1, <2>1, <2>2, <2>3, <2>4 DEF AuthorityStep, InboxInv
<1> QED
  BY <1>1, <1>2 DEF vars

\* The invariant holds in every reachable state.
LEMMA InboxSafe == Spec => []InboxInv
<1>1. InboxInv /\ [Next]_vars => InboxInv'
  BY InboxStep
<1> QED
  BY <1>1, InboxInit, PTL DEF Spec

\* Whatever calls interleave, and wherever one stops, decode_authority accepts
\* the stored record.
THEOREM StoredAuthorityDecodes == Spec => []AuthorityDecodes
<1>1. InboxInv => AuthorityDecodes
  BY WellFormedDecodes DEF InboxInv, AuthorityDecodes
<1> QED
  BY <1>1, InboxSafe, PTL

-----------------------------------------------------------------------------

\* The status of a row the cursor passed depends on its settlement only.
LEMMA PassedStatus ==
    ASSUME NEW d, NEW dn, NEW i, Passed(d, i), Passed(dn, i), SameSettlement(d, dn, i)
    PROVE  DeliveryStatus(dn, i) = DeliveryStatus(d, i)
<1>1. Committed(d, i) /\ Committed(dn, i)
  BY DEF Passed
<1> QED
  BY <1>1 DEF DeliveryStatus, SameSettlement

\* No call replaces a verdict or the outcome of a recipient.
THEOREM SettlementsAreFinal == Spec => SettlementIsFinal
<1>1. InboxInv /\ [Next]_vars =>
        [\A i \in DeliveryIds :
          /\ Passed(authority, i)
                => DeliveryStatus(authority', i) = DeliveryStatus(authority, i)
          /\ \A r \in Recipients :
                authority.recipient_outcomes[i][r] # None
                    => authority'.recipient_outcomes[i][r]
                            = authority.recipient_outcomes[i][r]]_vars
  <2> SUFFICES ASSUME InboxInv, [Next]_vars, NEW i \in DeliveryIds
               PROVE  /\ Passed(authority, i)
                            => DeliveryStatus(authority', i) = DeliveryStatus(authority, i)
                      /\ \A r \in Recipients :
                            authority.recipient_outcomes[i][r] # None
                                => authority'.recipient_outcomes[i][r]
                                        = authority.recipient_outcomes[i][r]
    OBVIOUS
  <2>1. Advances(authority, authority')
    BY InboxStep
  <2> QED
    BY <2>1, PassedStatus DEF Advances
<1> QED
  BY <1>1, InboxSafe, PTL DEF Spec, SettlementIsFinal

\* A row that is passed, not refused and without recipients counts as applied.
LEMMA PlainStatus ==
    ASSUME NEW d, WellFormed(d), NEW i \in DeliveryIds, Passed(d, i), ~Enrolled(d, i),
           d.refused_deliveries[i] = None
    PROVE  DeliveryStatus(d, i) = {"Applied"}
<1>1. d.recipient_group_outcomes[i] = None /\ Committed(d, i)
  BY DEF WellFormed, Settlements, SettlementOf, Passed
<1>2. None \notin GroupOutcomes
  BY NoneAssumption
<1> QED
  BY <1>1, <1>2 DEF DeliveryStatus, GroupOutcomes

\* No recipient is ever enrolled for a delivery acknowledged out of band, and
\* it ends as applied.
THEOREM AcknowledgementsHold == Spec => AcknowledgedNeverExecutes
<1>1. InboxInv /\ InboxInv' /\ [Next]_vars =>
        [\A i \in DeliveryIds :
          Acknowledged(authority, i)
            => /\ authority'.delivery_recipient_bindings[i] = None
               /\ \/ Acknowledged(authority', i)
                  \/ DeliveryStatus(authority', i) = {"Applied"}]_vars
  <2> SUFFICES ASSUME InboxInv, InboxInv', [Next]_vars, NEW i \in DeliveryIds,
                      Acknowledged(authority, i)
               PROVE  /\ authority'.delivery_recipient_bindings[i] = None
                      /\ \/ Acknowledged(authority', i)
                         \/ DeliveryStatus(authority', i) = {"Applied"}
    OBVIOUS
  <2>1. Advances(authority, authority') /\ WellFormed(authority')
    BY InboxStep DEF InboxInv
  <2>2. /\ ~Enrolled(authority', i)
        /\ authority'.refused_deliveries[i] = None
        /\ Acknowledged(authority', i) \/ Passed(authority', i)
    BY <2>1 DEF Advances
  <2>3. CASE Passed(authority', i)
    BY <2>1, <2>2, <2>3, PlainStatus DEF Enrolled
  <2> QED
    BY <2>2, <2>3 DEF Enrolled
<1> QED
  BY <1>1, InboxSafe, PTL DEF Spec, AcknowledgedNeverExecutes
-----------------------------------------------------------------------------
(* The ordered inbox.                                                      *)

\* What the refinement mapping makes of a record.
At(d, n) == CHOOSE i \in DeliveryIds : d.delivery_sequences[i] = n

LogOf(d) == [n \in 1..d.next_sequence |-> At(d, n)]

FateOf(d) ==
    [n \in 1..d.applied_cursor |-> CHOOSE s \in DeliveryStatus(d, At(d, n)) : TRUE]

EarlyOf(d) == {i \in DeliveryIds : Acknowledged(d, i)}

\* How a passed row was settled.
Outcome(d, i) ==
    IF d.refused_deliveries[i] # None THEN "Refused"
    ELSE IF d.recipient_group_outcomes[i] = "Mixed" THEN "Mixed"
    ELSE "Applied"

\* A passed row has exactly one status.
LEMMA OneStatus ==
    ASSUME NEW d, WellFormed(d), NEW i \in DeliveryIds, Passed(d, i)
    PROVE  DeliveryStatus(d, i) = {Outcome(d, i)}
<1>1. Committed(d, i) /\ SettlementOf(d, i)
  BY DEF Passed, WellFormed, Settlements
<1>2. d.recipient_group_outcomes[i] \in GroupOutcomes \cup {None}
  BY DEF WellFormed, DeliveryAuthority
<1>3. /\ None \notin GroupOutcomes
      /\ None # "AuthorityDenied" /\ None # "OperationAuthorizationUnavailable"
  BY NoneAssumption DEF RefusalReasons
<1>4. d.recipient_group_outcomes[i] \in {"AllRefused", "AllAuthorizationUnavailable"}
         => d.refused_deliveries[i] # None
  BY <1>1, <1>3 DEF SettlementOf, GroupRefusal, GroupOutcomes
<1> QED
  BY <1>1, <1>2, <1>3, <1>4 DEF DeliveryStatus, Outcome, GroupOutcomes

\* A function on an initial segment is a sequence.
LEMMA SegmentIsSeq ==
    ASSUME NEW S, NEW n \in Nat, NEW f \in [1..n -> S]
    PROVE  f \in Seq(S) /\ Len(f) = n
OBVIOUS

\* The log holds each committed delivery at its sequence.
LEMMA LogIs ==
    ASSUME NEW d, WellFormed(d)
    PROVE  /\ LogOf(d) \in Seq(DeliveryIds)
           /\ Len(LogOf(d)) = d.next_sequence
           /\ \A n \in 1..d.next_sequence :
                 LogOf(d)[n] \in DeliveryIds /\ d.delivery_sequences[LogOf(d)[n]] = n
           /\ \A i \in DeliveryIds : Committed(d, i) =>
                 /\ d.delivery_sequences[i] \in 1..d.next_sequence
                 /\ LogOf(d)[d.delivery_sequences[i]] = i
<1>1. d \in DeliveryAuthority /\ Numbering(d)
  BY DEF WellFormed
<1>2. \A n \in 1..d.next_sequence :
          At(d, n) \in DeliveryIds /\ d.delivery_sequences[At(d, n)] = n
  BY <1>1 DEF Numbering, At
<1>3. LogOf(d) \in [1..d.next_sequence -> DeliveryIds]
  BY <1>2 DEF LogOf
<1>4. LogOf(d) \in Seq(DeliveryIds) /\ Len(LogOf(d)) = d.next_sequence
  BY <1>1, <1>3, SegmentIsSeq, FieldTypes
<1>5. \A n \in 1..d.next_sequence :
          LogOf(d)[n] \in DeliveryIds /\ d.delivery_sequences[LogOf(d)[n]] = n
  BY <1>2 DEF LogOf
<1>6. ASSUME NEW i \in DeliveryIds, Committed(d, i)
      PROVE  /\ d.delivery_sequences[i] \in 1..d.next_sequence
             /\ LogOf(d)[d.delivery_sequences[i]] = i
  <2>1. d.delivery_sequences[i] \in 1..d.next_sequence
    BY <1>1, <1>6, FieldTypes DEF Numbering, Committed
  <2> QED
    BY <1>1, <1>5, <1>6, <2>1 DEF Numbering
<1> QED
  BY <1>4, <1>5, <1>6

\* The fates are those of the rows the cursor passed, in the order of the log.
LEMMA FateIs ==
    ASSUME NEW d, WellFormed(d)
    PROVE  /\ FateOf(d) \in Seq(Ordered!Fates)
           /\ Len(FateOf(d)) = d.applied_cursor
           /\ d.applied_cursor <= d.next_sequence
           /\ \A n \in 1..d.applied_cursor : FateOf(d)[n] = Outcome(d, LogOf(d)[n])
<1>1. d \in DeliveryAuthority /\ d.applied_cursor <= d.next_sequence
  BY DEF WellFormed, Numbering
<1>2. \A n \in 1..d.applied_cursor : n \in 1..d.next_sequence
  BY <1>1, FieldTypes
<1>3. ASSUME NEW n \in 1..d.applied_cursor
      PROVE  /\ At(d, n) = LogOf(d)[n]
             /\ (CHOOSE s \in DeliveryStatus(d, At(d, n)) : TRUE) = Outcome(d, LogOf(d)[n])
  <2>1. At(d, n) = LogOf(d)[n]
    BY <1>2 DEF LogOf
  <2>2. LogOf(d)[n] \in DeliveryIds /\ d.delivery_sequences[LogOf(d)[n]] = n
    BY <1>2, LogIs
  <2>3. Passed(d, LogOf(d)[n])
    BY <1>1, <2>2, FieldTypes DEF Passed, Committed
  <2>4. DeliveryStatus(d, LogOf(d)[n]) = {Outcome(d, LogOf(d)[n])}
    BY <2>2, <2>3, OneStatus
  <2> QED
    BY <2>1, <2>4
<1>4. \A n \in 1..d.applied_cursor : FateOf(d)[n] = Outcome(d, LogOf(d)[n])
  BY <1>3 DEF FateOf
<1>5. FateOf(d) \in [1..d.applied_cursor -> Ordered!Fates]
  <2>1. \A i : Outcome(d, i) \in Ordered!Fates
    BY DEF Outcome, Ordered!Fates
  <2> QED
    BY <1>3, <2>1 DEF FateOf
<1> QED
  BY <1>1, <1>4, <1>5, SegmentIsSeq, FieldTypes

\* The mapping of the refinement, in terms of the record.
LEMMA Mapping ==
    /\ [n \in 1..authority.next_sequence |-> DeliveryAt(n)] = LogOf(authority)
    /\ [n \in 1..authority.applied_cursor |-> Verdict(DeliveryAt(n))] = FateOf(authority)
    /\ {i \in DeliveryIds : Acknowledged(authority, i)} = EarlyOf(authority)
BY DEF LogOf, FateOf, EarlyOf, At, DeliveryAt, Verdict
\* The step of the ordered inbox that takes in the early deliveries next to
\* the settled prefix f.
Absorbs(l, f, e, fn, en) ==
    \E n \in 0..(Len(l) - Len(f)) :
        /\ \A i \in 1..n : l[Len(f) + i] \in e
        /\ Len(f) + n < Len(l) => l[Len(f) + n + 1] \notin e
        /\ fn = f \o [i \in 1..n |-> "Applied"]
        /\ en = e \ {l[Len(f) + i] : i \in 1..n}

\* A row is early when its sequence is acknowledged.
LEMMA EarlyIs ==
    ASSUME NEW d, WellFormed(d)
    PROVE  /\ \A n \in 1..d.next_sequence :
                 LogOf(d)[n] \in EarlyOf(d) <=> n \in d.acknowledged_sequences
           /\ \A i \in EarlyOf(d) : i \in DeliveryIds /\ Committed(d, i)
BY LogIs, AcknowledgedRow DEF EarlyOf, Acknowledged

\* The log is read from the rows alone.
LEMMA SameLog ==
    ASSUME NEW d, WellFormed(d), NEW dn, WellFormed(dn), SameRows(d, dn)
    PROVE  LogOf(dn) = LogOf(d)
<1>1. /\ dn.delivery_sequences = d.delivery_sequences
      /\ dn.next_sequence = d.next_sequence
  BY DEF SameRows
<1>2. \A n \in 1..d.next_sequence : LogOf(dn)[n] = LogOf(d)[n]
  <2> SUFFICES ASSUME NEW n \in 1..d.next_sequence
               PROVE  LogOf(dn)[n] = LogOf(d)[n]
    OBVIOUS
  <2>1. /\ LogOf(d)[n] \in DeliveryIds /\ d.delivery_sequences[LogOf(d)[n]] = n
        /\ LogOf(dn)[n] \in DeliveryIds /\ d.delivery_sequences[LogOf(dn)[n]] = n
    BY <1>1, LogIs
  <2> QED
    BY <2>1 DEF WellFormed, Numbering, Committed
<1> QED
  BY <1>1, <1>2, LogIs, SeqEqual

\* A silent input is a stutter of the ordered inbox.
LEMMA SilentStutters ==
    ASSUME NEW d, WellFormed(d), NEW dn, WellFormed(dn), Silent(d, dn)
    PROVE  LogOf(dn) = LogOf(d) /\ FateOf(dn) = FateOf(d) /\ EarlyOf(dn) = EarlyOf(d)
<1>1. LogOf(dn) = LogOf(d)
  BY SameLog DEF Silent
<1>2. EarlyOf(dn) = EarlyOf(d)
  BY DEF EarlyOf, Acknowledged, Silent, SameRows
<1>3. \A i : Outcome(dn, i) = Outcome(d, i)
  BY DEF Outcome, Silent
<1>4. FateOf(dn) = FateOf(d)
  BY <1>1, <1>3, FateIs, SeqEqual DEF Silent
<1> QED
  BY <1>1, <1>2, <1>4

\* A pass of the cursor settles the next delivery of the log, with the early
\* ones that follow it as applied.
LEMMA PassAbsorbs ==
    ASSUME NEW d, WellFormed(d), NEW dn, WellFormed(dn), NEW id \in DeliveryIds, NEW c \in Nat,
           Passes(d, dn, id, c), Advances(d, dn)
    PROVE  /\ LogOf(dn) = LogOf(d)
           /\ Len(FateOf(d)) < Len(LogOf(d))
           /\ Outcome(dn, id) \in Ordered!Fates
           /\ Absorbs(LogOf(d), Append(FateOf(d), Outcome(dn, id)), EarlyOf(d),
                      FateOf(dn), EarlyOf(dn))
<1> DEFINE seq == d.delivery_sequences[id]
           o == Outcome(dn, id)
           f == Append(FateOf(d), o)
           n == c - seq
           tail == [i \in 1..n |-> "Applied"]
<1>1. d \in DeliveryAuthority /\ dn \in DeliveryAuthority /\ Numbering(d)
  BY DEF WellFormed
<1>2. /\ seq = d.applied_cursor + 1
      /\ SameRows(d, dn)
      /\ \A i \in DeliveryIds \ {id} : SameSettlement(d, dn, i)
      /\ c \in seq..d.next_sequence
      /\ (seq + 1)..c \subseteq d.acknowledged_sequences
      /\ c = d.next_sequence \/ c + 1 \notin d.acknowledged_sequences
      /\ dn.applied_cursor = c
      /\ dn.acknowledged_sequences = d.acknowledged_sequences \ seq..c
  BY DEF Passes, AtCursor
<1>3. LogOf(dn) = LogOf(d)
  BY <1>2, SameLog
<1>4. o \in Ordered!Fates /\ "Applied" \in Ordered!Fates
  BY DEF Outcome, Ordered!Fates
<1>5. /\ FateOf(d) \in Seq(Ordered!Fates)
      /\ Len(FateOf(d)) = d.applied_cursor
      /\ \A k \in 1..d.applied_cursor : FateOf(d)[k] = Outcome(d, LogOf(d)[k])
  BY FateIs
<1>6. /\ seq \in Nat /\ n \in Nat /\ d.applied_cursor \in Nat /\ d.next_sequence \in Nat
      /\ n \in 0..(d.next_sequence - seq)
      /\ c = seq + n
  BY <1>1, <1>2, FieldTypes
<1>7. Len(LogOf(d)) = d.next_sequence
  BY LogIs
<1> HIDE DEF o, n, seq
<1>8. /\ f \in Seq(Ordered!Fates)
      /\ Len(f) = seq
      /\ \A k \in 1..d.applied_cursor : f[k] = FateOf(d)[k]
      /\ f[seq] = o
  BY <1>2, <1>4, <1>5, <1>6
<1>9. /\ tail \in Seq(Ordered!Fates)
      /\ Len(tail) = n
      /\ \A k \in 1..n : tail[k] = "Applied"
  <2>1. tail \in [1..n -> Ordered!Fates]
    BY <1>4
  <2> QED
    BY <2>1, <1>6, SegmentIsSeq
<1> HIDE DEF f, tail
<1>10. /\ f \o tail \in Seq(Ordered!Fates)
       /\ Len(f \o tail) = c
       /\ \A k \in 1..c : (f \o tail)[k] = IF k <= seq THEN f[k] ELSE "Applied"
  <2>1. /\ f \o tail \in Seq(Ordered!Fates)
        /\ Len(f \o tail) = seq + n
        /\ \A k \in 1..seq + n : (f \o tail)[k] = IF k <= seq THEN f[k] ELSE tail[k - seq]
    BY <1>8, <1>9, ConcatProperties
  <2>2. \A k \in 1..c : ~(k <= seq) => k - seq \in 1..n
    BY <1>6
  <2> QED
    BY <1>6, <1>9, <2>1, <2>2
<1>11. ASSUME NEW k \in 1..c PROVE Outcome(dn, LogOf(d)[k]) = (f \o tail)[k]
  <2>1. /\ k \in 1..d.next_sequence
        /\ LogOf(d)[k] \in DeliveryIds
        /\ d.delivery_sequences[LogOf(d)[k]] = k
    BY <1>2, <1>6, LogIs
  <2>2. CASE k <= d.applied_cursor
    <3>1. LogOf(d)[k] # id
      BY <2>1, <2>2, <1>2, <1>6 DEF seq
    <3>2. Outcome(dn, LogOf(d)[k]) = Outcome(d, LogOf(d)[k])
      BY <1>2, <2>1, <3>1 DEF Outcome, SameSettlement
    <3> QED
      BY <1>2, <1>5, <1>6, <1>8, <1>10, <2>2, <3>2
  <2>3. CASE k = seq
    <3>1. LogOf(d)[k] = id
      BY <2>1, <2>3, <1>1, <1>2, <1>6 DEF seq, Numbering, Committed
    <3> QED
      BY <3>1, <1>8, <1>10, <2>3, <1>6 DEF o
  <2>4. CASE k > seq
    <3>1. k \in d.acknowledged_sequences
      BY <1>2, <1>6, <2>4
    <3>2. Acknowledged(d, LogOf(d)[k]) /\ LogOf(d)[k] # id
      BY <2>1, <2>4, <3>1, <1>6 DEF Acknowledged, seq
    <3>3. /\ dn.refused_deliveries[LogOf(d)[k]] = None
          /\ ~Enrolled(dn, LogOf(d)[k])
      BY <2>1, <3>2 DEF Advances
    <3>4. dn.recipient_group_outcomes[LogOf(d)[k]] = None
      BY <2>1, <3>3 DEF WellFormed, Settlements, SettlementOf
    <3>5. Outcome(dn, LogOf(d)[k]) = "Applied"
      BY <3>3, <3>4, NoneAssumption DEF Outcome, GroupOutcomes
    <3> QED
      BY <3>5, <1>10, <2>4, <1>6
  <2>5. k <= d.applied_cursor \/ k = seq \/ k > seq
    BY <1>2, <1>6
  <2> QED
    BY <2>2, <2>3, <2>4, <2>5
<1>12. FateOf(dn) = f \o tail
  <2>1. /\ FateOf(dn) \in Seq(Ordered!Fates)
        /\ Len(FateOf(dn)) = c
        /\ \A k \in 1..c : FateOf(dn)[k] = Outcome(dn, LogOf(d)[k])
    BY <1>2, <1>3, FateIs
  <2> QED
    BY <2>1, <1>10, <1>11, SeqEqual
<1>13. EarlyOf(dn) = EarlyOf(d) \ {LogOf(d)[seq + i] : i \in 1..n}
  <2>1. ASSUME NEW i \in DeliveryIds
        PROVE  Acknowledged(dn, i) <=> Acknowledged(d, i)
                    /\ \A j \in 1..n : i # LogOf(d)[seq + j]
    <3>1. Acknowledged(dn, i) <=> Acknowledged(d, i) /\ d.delivery_sequences[i] \notin seq..c
      BY <1>2 DEF Acknowledged, SameRows
    <3>2. Acknowledged(d, i) => Committed(d, i) /\ d.delivery_sequences[i] # seq
      BY <1>1, <1>2, AcknowledgedRow DEF Acknowledged, Numbering
    <3>3. ASSUME NEW j \in 1..n
          PROVE  /\ seq + j \in 1..d.next_sequence
                 /\ seq + j \in seq..c
                 /\ d.delivery_sequences[LogOf(d)[seq + j]] = seq + j
      <4>1. seq + j \in 1..d.next_sequence /\ seq + j \in seq..c
        BY <1>6
      <4> QED
        BY <4>1, LogIs
    <3>4. CASE Acknowledged(d, i) /\ d.delivery_sequences[i] \in seq..c
      <4>1. d.delivery_sequences[i] - seq \in 1..n
              /\ seq + (d.delivery_sequences[i] - seq) = d.delivery_sequences[i]
        BY <3>2, <3>4, <1>6
      <4>2. LogOf(d)[d.delivery_sequences[i]] = i
        BY <3>2, <3>4, LogIs
      <4> QED
        BY <3>1, <3>4, <4>1, <4>2
    <3> QED
      BY <3>1, <3>3, <3>4
  <2> QED
    BY <2>1 DEF EarlyOf
<1>14. \A i \in 1..n : LogOf(d)[seq + i] \in EarlyOf(d)
  <2>1. \A i \in 1..n : seq + i \in (seq + 1)..c /\ seq + i \in 1..d.next_sequence
    BY <1>6
  <2> QED
    BY <2>1, <1>2, EarlyIs
<1>15. seq + n < d.next_sequence => LogOf(d)[seq + n + 1] \notin EarlyOf(d)
  <2>1. seq + n < d.next_sequence => seq + n + 1 \in 1..d.next_sequence
    BY <1>6
  <2> QED
    BY <2>1, <1>2, <1>6, EarlyIs
<1>16. Absorbs(LogOf(d), f, EarlyOf(d), FateOf(dn), EarlyOf(dn))
  <2>1. n \in 0..(Len(LogOf(d)) - Len(f))
    BY <1>6, <1>7, <1>8
  <2>2. /\ \A i \in 1..n : LogOf(d)[Len(f) + i] \in EarlyOf(d)
        /\ Len(f) + n < Len(LogOf(d)) => LogOf(d)[Len(f) + n + 1] \notin EarlyOf(d)
    BY <1>7, <1>8, <1>14, <1>15
  <2>3. EarlyOf(dn) = EarlyOf(d) \ {LogOf(d)[Len(f) + i] : i \in 1..n}
    BY <1>8, <1>13
  <2>4. FateOf(dn) = f \o [i \in 1..n |-> "Applied"]
    BY <1>12 DEF tail
  <2> QED
    BY <2>1, <2>2, <2>3, <2>4 DEF Absorbs
<1> QED
  BY <1>2, <1>3, <1>4, <1>5, <1>6, <1>7, <1>16 DEF f, o
\* An acknowledgement ahead of the cursor makes a delivery early that is not
\* the next one.
LEMMA AheadIsEarly ==
    ASSUME NEW d, WellFormed(d), NEW dn, WellFormed(dn), NEW id \in DeliveryIds,
           AcknowledgesAhead(d, dn, id)
    PROVE  /\ LogOf(dn) = LogOf(d)
           /\ FateOf(dn) = FateOf(d)
           /\ EarlyOf(dn) = EarlyOf(d) \cup {id}
           /\ \E i \in (Len(FateOf(d)) + 2)..Len(LogOf(d)) : LogOf(d)[i] = id
<1>1. d \in DeliveryAuthority /\ Numbering(d)
  BY DEF WellFormed
<1>2. LogOf(dn) = LogOf(d)
  BY SameLog DEF AcknowledgesAhead
<1>3. \A i \in DeliveryIds : Outcome(dn, i) = Outcome(d, i)
  BY DEF Outcome, AcknowledgesAhead, SameSettlement
<1>4. FateOf(dn) = FateOf(d)
  <2>1. dn.applied_cursor = d.applied_cursor
    BY DEF AcknowledgesAhead
  <2>2. \A n \in 1..d.applied_cursor : n \in 1..d.next_sequence
    BY <1>1, FateIs, FieldTypes
  <2>3. \A n \in 1..d.applied_cursor : FateOf(dn)[n] = FateOf(d)[n]
    BY <1>2, <1>3, <2>1, <2>2, FateIs, LogIs
  <2> QED
    BY <2>1, <2>3, FateIs, SeqEqual
<1>5. EarlyOf(dn) = EarlyOf(d) \cup {id}
  <2>1. ASSUME NEW i \in DeliveryIds
        PROVE  Acknowledged(dn, i) <=> Acknowledged(d, i) \/ i = id
    BY <1>1 DEF AcknowledgesAhead, Acknowledged, SameRows, Numbering
  <2> QED
    BY <2>1 DEF EarlyOf
<1>6. /\ d.delivery_sequences[id] \in (d.applied_cursor + 2)..d.next_sequence
      /\ LogOf(d)[d.delivery_sequences[id]] = id
  BY <1>1, LogIs, FieldTypes DEF AcknowledgesAhead
<1> QED
  BY <1>2, <1>4, <1>5, <1>6, LogIs, FateIs

\* A new row is appended to the log.
LEMMA CommitAppends ==
    ASSUME NEW d, WellFormed(d), NEW id \in DeliveryIds, ~Committed(d, id),
           NEW s \in Nat \ {0}, NEW m, m = CommittedNew(d, id, s)
    PROVE  /\ \A i \in 1..Len(LogOf(d)) : LogOf(d)[i] # id
           /\ WellFormed(m)
           /\ LogOf(m) = Append(LogOf(d), id)
           /\ FateOf(m) = FateOf(d)
           /\ EarlyOf(m) = EarlyOf(d)
           /\ m.next_sequence = d.next_sequence + 1
           /\ m.applied_cursor = d.applied_cursor
           /\ m.delivery_sequences[id] = d.next_sequence + 1
<1>1. d \in DeliveryAuthority /\ Numbering(d)
  BY DEF WellFormed
<1>2. /\ WellFormed(m)
      /\ \A i \in DeliveryIds : SameSettlement(d, m, i)
      /\ d.delivery_sequences[id] = 0
  BY CommitKeeps
<1>3. /\ m.next_sequence = d.next_sequence + 1
      /\ m.delivery_sequences = [d.delivery_sequences EXCEPT ![id] = d.next_sequence + 1]
      /\ m.applied_cursor = d.applied_cursor
      /\ m.acknowledged_sequences = d.acknowledged_sequences
  BY <1>1 DEF CommittedNew, DeliveryAuthority
<1>4. /\ m.delivery_sequences[id] = d.next_sequence + 1
      /\ \A i \in DeliveryIds \ {id} : m.delivery_sequences[i] = d.delivery_sequences[i]
  BY <1>1, <1>3, FieldTypes
<1>5. /\ LogOf(d) \in Seq(DeliveryIds)
      /\ Len(LogOf(d)) = d.next_sequence
      /\ d.next_sequence \in Nat /\ d.applied_cursor \in Nat
      /\ \A n \in 1..d.next_sequence :
            LogOf(d)[n] \in DeliveryIds /\ d.delivery_sequences[LogOf(d)[n]] = n
  BY <1>1, LogIs, FieldTypes
<1>6. /\ LogOf(m) \in Seq(DeliveryIds)
      /\ Len(LogOf(m)) = d.next_sequence + 1
      /\ \A i \in DeliveryIds : Committed(m, i) => LogOf(m)[m.delivery_sequences[i]] = i
  <2>1. /\ LogOf(m) \in Seq(DeliveryIds)
        /\ Len(LogOf(m)) = m.next_sequence
        /\ \A i \in DeliveryIds : Committed(m, i) => LogOf(m)[m.delivery_sequences[i]] = i
    BY <1>2, LogIs
  <2>2. m.next_sequence = d.next_sequence + 1
    BY <1>3
  <2> QED
    BY <2>1, <2>2
<1>7. \A n \in 1..d.next_sequence : LogOf(d)[n] # id
  BY <1>2, <1>5
<1>8. \A n \in 1..d.next_sequence : LogOf(m)[n] = LogOf(d)[n]
  <2> SUFFICES ASSUME NEW n \in 1..d.next_sequence
               PROVE  LogOf(m)[n] = LogOf(d)[n]
    OBVIOUS
  <2>1. LogOf(d)[n] \in DeliveryIds \ {id} /\ d.delivery_sequences[LogOf(d)[n]] = n
    BY <1>5, <1>7
  <2>2. m.delivery_sequences[LogOf(d)[n]] = n
    BY <1>4, <2>1
  <2>3. Committed(m, LogOf(d)[n])
    BY <2>2 DEF Committed
  <2> QED
    BY <1>6, <2>1, <2>2, <2>3
<1>9. LogOf(m)[d.next_sequence + 1] = id
  BY <1>4, <1>5, <1>6 DEF Committed
<1>10. LogOf(m) = Append(LogOf(d), id)
  <2>1. /\ Append(LogOf(d), id) \in Seq(DeliveryIds)
        /\ Len(Append(LogOf(d), id)) = d.next_sequence + 1
        /\ \A n \in 1..d.next_sequence : Append(LogOf(d), id)[n] = LogOf(d)[n]
        /\ Append(LogOf(d), id)[d.next_sequence + 1] = id
    BY <1>5
  <2>2. \A n \in 1..(d.next_sequence + 1) : n \in 1..d.next_sequence \/ n = d.next_sequence + 1
    BY <1>5
  <2>3. \A n \in 1..(d.next_sequence + 1) : LogOf(m)[n] = Append(LogOf(d), id)[n]
    BY <1>8, <1>9, <2>1, <2>2
  <2> QED
    BY <1>6, <2>1, <2>3, SeqEqual
<1>11. FateOf(m) = FateOf(d)
  <2>1. \A n \in 1..d.applied_cursor : n \in 1..d.next_sequence
    BY <1>5, FateIs
  <2>2. \A i \in DeliveryIds : Outcome(m, i) = Outcome(d, i)
    BY <1>2 DEF Outcome, SameSettlement
  <2>3. \A n \in 1..d.applied_cursor : FateOf(m)[n] = FateOf(d)[n]
    BY <1>2, <1>3, <1>5, <1>8, <2>1, <2>2, FateIs
  <2> QED
    BY <1>2, <1>3, <2>3, FateIs, SeqEqual
<1>12. EarlyOf(m) = EarlyOf(d)
  <2>1. ~Acknowledged(d, id)
    BY AcknowledgedRow
  <2>2. ~Acknowledged(m, id)
    BY <1>1, <1>3, <1>4, <1>5 DEF Acknowledged, Numbering
  <2>3. \A i \in DeliveryIds \ {id} : Acknowledged(m, i) <=> Acknowledged(d, i)
    BY <1>3, <1>4 DEF Acknowledged
  <2> QED
    BY <2>1, <2>2, <2>3 DEF EarlyOf
<1> QED
  BY <1>2, <1>3, <1>4, <1>5, <1>7, <1>10, <1>11, <1>12

\* A row that arrives acknowledged is appended and, when it is next, absorbed
\* at once.
LEMMA AcknowledgedSubmissionAbsorbs ==
    ASSUME NEW d, WellFormed(d), NEW id \in DeliveryIds, ~Committed(d, id),
           NEW s \in Nat \ {0}, NEW dn,
           AcknowledgeDelivery(CommittedNew(d, id, s), dn, id)
    PROVE  /\ \A i \in 1..Len(LogOf(d)) : LogOf(d)[i] # id
           /\ LogOf(dn) = Append(LogOf(d), id)
           /\ Absorbs(LogOf(dn), FateOf(d), EarlyOf(d) \cup {id}, FateOf(dn), EarlyOf(dn))
<1> DEFINE m == CommittedNew(d, id, s)
<1>1. /\ \A i \in 1..Len(LogOf(d)) : LogOf(d)[i] # id
      /\ WellFormed(m)
      /\ LogOf(m) = Append(LogOf(d), id)
      /\ FateOf(m) = FateOf(d)
      /\ EarlyOf(m) = EarlyOf(d)
      /\ m.next_sequence = d.next_sequence + 1
      /\ m.applied_cursor = d.applied_cursor
      /\ m.delivery_sequences[id] = d.next_sequence + 1
  BY CommitAppends
<1>2. AcknowledgeDelivery(m, dn, id)
  OBVIOUS
<1> HIDE DEF m
<1>3. /\ InputEffect(m, dn, id)
      /\ ~Enrolled(m, id)
      /\ Committed(m, id)
  BY <1>1, <1>2, AcknowledgeEffect DEF AcknowledgeDelivery
<1>4. WellFormed(dn) /\ Advances(m, dn)
  BY <1>3 DEF InputEffect
<1>5. /\ m \in DeliveryAuthority /\ Numbering(m)
      /\ m.next_sequence \in Nat /\ m.applied_cursor \in Nat
      /\ m.applied_cursor < m.next_sequence
      /\ d.applied_cursor \in Nat /\ d.next_sequence \in Nat
  BY <1>1, FieldTypes DEF WellFormed, Numbering
<1>6. /\ Len(LogOf(m)) = m.next_sequence
      /\ LogOf(m)[m.next_sequence] = id
      /\ FateOf(m) \in Seq(Ordered!Fates)
      /\ Len(FateOf(m)) = m.applied_cursor
  BY <1>1, <1>3, LogIs, FateIs
<1>7. CASE AcknowledgesAhead(m, dn, id)
  <2>1. LogOf(dn) = LogOf(m) /\ FateOf(dn) = FateOf(m) /\ EarlyOf(dn) = EarlyOf(m) \cup {id}
    BY <1>1, <1>4, <1>7, AheadIsEarly
  <2>2. FateOf(m) \o [i \in 1..0 |-> "Applied"] = FateOf(m)
    <3>1. [i \in 1..0 |-> "Applied"] = << >>
      OBVIOUS
    <3> QED
      BY <3>1, <1>6, ConcatEmptySeq
  <2>3. LogOf(m)[Len(FateOf(m)) + 1] \notin EarlyOf(m) \cup {id}
    <3>1. m.applied_cursor + 1 \in 1..m.next_sequence
      BY <1>5
    <3>2. LogOf(m)[m.applied_cursor + 1] \notin EarlyOf(m)
      BY <1>1, <1>5, <3>1, EarlyIs DEF Numbering
    <3>3. m.delivery_sequences[LogOf(m)[m.applied_cursor + 1]] = m.applied_cursor + 1
      BY <1>1, <3>1, LogIs
    <3>4. m.delivery_sequences[id] > m.applied_cursor + 1
      BY <1>7 DEF AcknowledgesAhead
    <3> QED
      BY <1>5, <1>6, <3>2, <3>3, <3>4
  <2>4. Absorbs(LogOf(m), FateOf(m), EarlyOf(m) \cup {id}, FateOf(m), EarlyOf(m) \cup {id})
    <3>1. 0 \in 0..(Len(LogOf(m)) - Len(FateOf(m)))
      BY <1>5, <1>6
    <3>2. {LogOf(m)[Len(FateOf(m)) + i] : i \in 1..0} = {}
      OBVIOUS
    <3>3. Len(FateOf(m)) + 0 + 1 = Len(FateOf(m)) + 1
      BY <1>5, <1>6
    <3> QED
      BY <2>2, <2>3, <3>1, <3>2, <3>3 DEF Absorbs
  <2> QED
    BY <1>1, <2>1, <2>4
<1>8. ASSUME NEW c \in Nat, Passes(m, dn, id, c)
      PROVE  /\ LogOf(dn) = LogOf(m)
             /\ Absorbs(LogOf(m), FateOf(m), EarlyOf(m) \cup {id}, FateOf(dn), EarlyOf(dn))
  <2>1. /\ m.delivery_sequences[id] = m.applied_cursor + 1
        /\ m.next_sequence = m.applied_cursor + 1
        /\ c = m.next_sequence
        /\ dn.applied_cursor = c
    BY <1>1, <1>5, <1>8 DEF Passes, AtCursor
  <2>2. LogOf(dn) = LogOf(m)
    BY <1>1, <1>4, <1>8, SameLog DEF Passes
  <2>3. EarlyOf(dn) = {} /\ EarlyOf(m) = {}
    <3>1. m.acknowledged_sequences = {}
      BY <1>5, <2>1 DEF Numbering
    <3>2. dn.acknowledged_sequences = {}
      BY <3>1, <1>8 DEF Passes
    <3> QED
      BY <3>1, <3>2 DEF EarlyOf, Acknowledged
  <2>4. Outcome(dn, id) = "Applied"
    <3>1. dn.refused_deliveries[id] = None /\ dn.recipient_group_outcomes[id] = None
      <4>1. PassRow(m, dn, m.delivery_sequences[id])
        BY <1>2, <1>5, <2>1 DEF AcknowledgeDelivery, Passed
      <4>2. SameSettlement(m, dn, id)
        <5>1. AtCursor(m, id) /\ SameRows(m, m) /\ \A i \in DeliveryIds : SameSettlement(m, m, i)
          BY <2>1 DEF AtCursor, SameRows, SameSettlement
        <5> QED
          BY <1>5, <4>1, <5>1, PassRowPasses
      <4>3. ~Passed(m, id)
        BY <1>5, <2>1 DEF Passed
      <4>4. m.refused_deliveries[id] = None /\ m.recipient_group_outcomes[id] = None
        BY <1>1, <1>3, <4>3 DEF WellFormed, Settlements, SettlementOf
      <4> QED
        BY <4>2, <4>4 DEF SameSettlement
    <3> QED
      BY <3>1, NoneAssumption DEF Outcome, GroupOutcomes
  <2>5. FateOf(dn) = FateOf(m) \o [i \in 1..1 |-> "Applied"]
    <3> DEFINE one == [i \in 1..1 |-> "Applied"]
               f == FateOf(m)
    <3>1. one \in [1..1 -> Ordered!Fates] /\ one[1] = "Applied"
      BY DEF Ordered!Fates
    <3>2. one \in Seq(Ordered!Fates) /\ Len(one) = 1
      BY <3>1, SegmentIsSeq
    <3>3. /\ FateOf(dn) \in Seq(Ordered!Fates)
          /\ Len(FateOf(dn)) = m.applied_cursor + 1
          /\ \A k \in 1..(m.applied_cursor + 1) : FateOf(dn)[k] = Outcome(dn, LogOf(m)[k])
      BY <1>4, <2>1, <2>2, FateIs
    <3>4. \A k \in 1..m.applied_cursor : f[k] = Outcome(m, LogOf(m)[k])
      BY <1>1, FateIs
    <3> HIDE DEF one, f
    <3>5. /\ f \o one \in Seq(Ordered!Fates)
          /\ Len(f \o one) = m.applied_cursor + 1
          /\ \A k \in 1..(m.applied_cursor + 1) :
                (f \o one)[k] = IF k <= m.applied_cursor THEN f[k] ELSE one[k - m.applied_cursor]
      <4>1. f \in Seq(Ordered!Fates) /\ Len(f) = m.applied_cursor
        BY <1>6 DEF f
      <4>2. /\ f \o one \in Seq(Ordered!Fates)
            /\ Len(f \o one) = Len(f) + Len(one)
            /\ \A k \in 1..Len(f) + Len(one) :
                  (f \o one)[k] = IF k <= Len(f) THEN f[k] ELSE one[k - Len(f)]
        BY <4>1, <3>2, ConcatProperties
      <4> QED
        BY <4>1, <4>2, <3>2
    <3>6. ASSUME NEW k \in 1..(m.applied_cursor + 1)
          PROVE  Outcome(dn, LogOf(m)[k]) = (f \o one)[k]
      <4>1. LogOf(m)[k] \in DeliveryIds /\ m.delivery_sequences[LogOf(m)[k]] = k
        BY <1>1, <2>1, LogIs
      <4>2. CASE k <= m.applied_cursor
        <5>1. LogOf(m)[k] # id
          BY <4>1, <4>2, <2>1, <1>5
        <5>2. Outcome(dn, LogOf(m)[k]) = Outcome(m, LogOf(m)[k])
          BY <1>8, <4>1, <5>1 DEF Outcome, Passes, SameSettlement
        <5>3. k \in 1..m.applied_cursor
          BY <4>2, <1>5
        <5> QED
          BY <3>4, <3>5, <4>2, <5>2, <5>3
      <4>3. CASE k = m.applied_cursor + 1
        <5>1. LogOf(m)[k] = id
          BY <4>3, <1>6, <2>1
        <5>2. ~(k <= m.applied_cursor) /\ k - m.applied_cursor = 1
          BY <4>3, <1>5
        <5> QED
          BY <2>4, <3>1, <3>5, <5>1, <5>2
      <4>4. k <= m.applied_cursor \/ k = m.applied_cursor + 1
        BY <1>5
      <4> QED
        BY <4>2, <4>3, <4>4
    <3>7. FateOf(dn) = f \o one
      BY <3>3, <3>5, <3>6, SeqEqual
    <3> QED
      BY <3>7 DEF f, one
  <2>6. Absorbs(LogOf(m), FateOf(m), EarlyOf(m) \cup {id}, FateOf(dn), EarlyOf(dn))
    <3>1. 1 \in 0..(Len(LogOf(m)) - Len(FateOf(m))) /\ Len(FateOf(m)) + 1 = m.next_sequence
      BY <1>5, <1>6, <2>1
    <3>2. \A i \in 1..1 : LogOf(m)[Len(FateOf(m)) + i] = id
      BY <1>6, <3>1
    <3>3. {LogOf(m)[Len(FateOf(m)) + i] : i \in 1..1} = {id}
      BY <3>2
    <3>4. ~(Len(FateOf(m)) + 1 < Len(LogOf(m)))
      BY <1>5, <1>6, <3>1
    <3>5. EarlyOf(dn) = (EarlyOf(m) \cup {id}) \ {LogOf(m)[Len(FateOf(m)) + i] : i \in 1..1}
      BY <2>3, <3>3
    <3> QED
      BY <2>5, <3>1, <3>2, <3>4, <3>5 DEF Absorbs
  <2> QED
    BY <2>2, <2>6
<1>9. AcknowledgesAhead(m, dn, id) \/ \E c \in Nat : Passes(m, dn, id, c)
  <2>1. ~Silent(m, dn)
    <3>1. CASE AtCursor(m, id) /\ PassRow(m, dn, m.delivery_sequences[id])
      <4>1. SameRows(m, m) /\ \A i \in DeliveryIds : SameSettlement(m, m, i)
        BY DEF SameRows, SameSettlement
      <4>2. PICK c \in Nat : Passes(m, dn, id, c)
        BY <1>5, <3>1, <4>1, PassRowPasses
      <4> QED
        BY <1>5, <4>2, FieldTypes DEF Passes, Silent, AtCursor
    <3>2. CASE dn = [m EXCEPT !.acknowledged_sequences = @ \cup {m.delivery_sequences[id]}]
      <4>1. dn.acknowledged_sequences = m.acknowledged_sequences \cup {m.delivery_sequences[id]}
        BY <3>2, <1>5 DEF DeliveryAuthority
      <4>2. ~Acknowledged(m, id)
        <5>1. id \notin EarlyOf(d)
          BY EarlyIs
        <5> QED
          BY <5>1, <1>1 DEF EarlyOf
      <4> QED
        BY <4>1, <4>2 DEF Silent, Acknowledged
    <3>3. ~Passed(m, id)
      BY <1>1, <1>5 DEF Passed
    <3> QED
      BY <1>2, <3>1, <3>2, <3>3 DEF AcknowledgeDelivery
  <2> QED
    BY <1>3, <2>1 DEF InputEffect
<1> QED
  BY <1>1, <1>7, <1>8, <1>9
-----------------------------------------------------------------------------

\* Before the first call the log is empty.
LEMMA InitIsOrdered == Init => Ordered!Init
<1> HAVE Init
<1>1. authority = EmptyAuthority
  BY DEF Init
<1>2. /\ authority.next_sequence = 0
      /\ authority.applied_cursor = 0
      /\ authority.acknowledged_sequences = {}
  BY <1>1 DEF EmptyAuthority
<1>3. LogOf(authority) = << >> /\ FateOf(authority) = << >>
  BY <1>2 DEF LogOf, FateOf
<1>4. EarlyOf(authority) = {}
  BY <1>2 DEF EarlyOf, Acknowledged
<1> QED
  BY <1>3, <1>4, Mapping DEF Ordered!Init

\* Every step of the inbox is a step of the ordered inbox or leaves it alone.
LEMMA StepIsOrdered ==
    ASSUME InboxInv, InboxInv', [Next]_vars
    PROVE  [Ordered!Next]_(Ordered!vars)
<1>1. /\ [n \in 1..authority.next_sequence |-> DeliveryAt(n)] = LogOf(authority)
      /\ [n \in 1..authority.applied_cursor |-> Verdict(DeliveryAt(n))] = FateOf(authority)
      /\ {i \in DeliveryIds : Acknowledged(authority, i)} = EarlyOf(authority)
  BY Mapping
<1>2. /\ [n \in 1..authority.next_sequence |-> DeliveryAt(n)]' = LogOf(authority')
      /\ [n \in 1..authority.applied_cursor |-> Verdict(DeliveryAt(n))]' = FateOf(authority')
      /\ {i \in DeliveryIds : Acknowledged(authority, i)}' = EarlyOf(authority')
  BY DEF LogOf, FateOf, EarlyOf, At, DeliveryAt, Verdict
<1>3. WellFormed(authority) /\ WellFormed(authority')
  BY DEF InboxInv
<1>4. CASE UNCHANGED authority
  BY <1>1, <1>2, <1>4 DEF Ordered!vars
<1>5. ASSUME NEW id \in DeliveryIds, InputEffect(authority, authority', id)
      PROVE  [Ordered!Next]_(Ordered!vars)
  <2>1. CASE Silent(authority, authority')
    BY <1>1, <1>2, <1>3, <2>1, SilentStutters DEF Ordered!vars
  <2>2. CASE AcknowledgesAhead(authority, authority', id)
    <3>1. /\ LogOf(authority') = LogOf(authority)
          /\ FateOf(authority') = FateOf(authority)
          /\ EarlyOf(authority') = EarlyOf(authority) \cup {id}
          /\ \E i \in (Len(FateOf(authority)) + 2)..Len(LogOf(authority)) :
                LogOf(authority)[i] = id
      BY <1>3, <2>2, AheadIsEarly
    <3>2. Ordered!Acknowledge(id)
      BY <1>1, <1>2, <3>1 DEF Ordered!Acknowledge
    <3> QED
      BY <3>2 DEF Ordered!Next
  <2>3. ASSUME NEW c \in Nat, Passes(authority, authority', id, c)
        PROVE  [Ordered!Next]_(Ordered!vars)
    <3> DEFINE o == Outcome(authority', id)
    <3>1. /\ LogOf(authority') = LogOf(authority)
          /\ Len(FateOf(authority)) < Len(LogOf(authority))
          /\ o \in Ordered!Fates
          /\ Absorbs(LogOf(authority), Append(FateOf(authority), o), EarlyOf(authority),
                     FateOf(authority'), EarlyOf(authority'))
      BY <1>3, <1>5, <2>3, PassAbsorbs DEF InputEffect
    <3> HIDE DEF o
    <3>2. Ordered!Settle(o)
      <4>1. Ordered!Absorb(LogOf(authority), Append(FateOf(authority), o), EarlyOf(authority))
        BY <1>2, <3>1 DEF Ordered!Absorb, Absorbs
      <4> QED
        BY <1>1, <1>2, <3>1, <4>1 DEF Ordered!Settle
    <3> QED
      BY <3>1, <3>2 DEF Ordered!Next
  <2> QED
    BY <1>5, <2>1, <2>2, <2>3 DEF InputEffect
<1>6. ASSUME NEW id \in DeliveryIds, NEW s \in Nat \ {0}, ~Committed(authority, id),
             authority' = CommittedNew(authority, id, s)
      PROVE  [Ordered!Next]_(Ordered!vars)
  <2>1. /\ \A i \in 1..Len(LogOf(authority)) : LogOf(authority)[i] # id
        /\ LogOf(authority') = Append(LogOf(authority), id)
        /\ FateOf(authority') = FateOf(authority)
        /\ EarlyOf(authority') = EarlyOf(authority)
    BY <1>3, <1>6, CommitAppends
  <2>2. Ordered!Submit(id)
    BY <1>1, <1>2, <2>1 DEF Ordered!Submit
  <2> QED
    BY <2>2 DEF Ordered!Next
<1>7. ASSUME NEW id \in DeliveryIds, NEW s \in Nat \ {0}, ~Committed(authority, id),
             AcknowledgeDelivery(CommittedNew(authority, id, s), authority', id)
      PROVE  [Ordered!Next]_(Ordered!vars)
  <2>1. /\ \A i \in 1..Len(LogOf(authority)) : LogOf(authority)[i] # id
        /\ LogOf(authority') = Append(LogOf(authority), id)
        /\ Absorbs(LogOf(authority'), FateOf(authority), EarlyOf(authority) \cup {id},
                   FateOf(authority'), EarlyOf(authority'))
    BY <1>3, <1>7, AcknowledgedSubmissionAbsorbs
  <2>2. Ordered!SubmitAcknowledged(id)
    <3>1. Ordered!Absorb(LogOf(authority'), FateOf(authority), EarlyOf(authority) \cup {id})
      BY <1>2, <2>1 DEF Ordered!Absorb, Absorbs
    <3> QED
      BY <1>1, <1>2, <2>1, <3>1 DEF Ordered!SubmitAcknowledged
  <2> QED
    BY <2>2 DEF Ordered!Next
<1>8. CASE Next
  <2>1. AuthorityStep
    BY <1>8, StepOnAuthority
  <2> QED
    BY <2>1, <1>4, <1>5, <1>6, <1>7 DEF AuthorityStep
<1> QED
  BY <1>4, <1>8 DEF vars

\* The reads and swaps of any number of callers, interleaved in any order,
\* implement the ordered inbox: each delivery is appended once and settled
\* once, in order, an early one as applied.
THEOREM InboxOrder == Spec => InboxIsOrdered
<1>1. InboxInv /\ InboxInv' /\ [Next]_vars => [Ordered!Next]_(Ordered!vars)
  BY StepIsOrdered
<1> QED
  BY <1>1, InboxSafe, InitIsOrdered, PTL DEF Spec, InboxIsOrdered, Ordered!Spec
=============================================================================
