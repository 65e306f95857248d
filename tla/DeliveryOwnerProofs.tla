------------------------ MODULE DeliveryOwnerProofs ------------------------
(***************************************************************************)
(* Delivery owners of any number of processes over one inbox: sessions see *)
(* the inbox in order, and settlements are true.                           *)
(*                                                                         *)
(* The inductive invariant is OwnerInv.  The order of a session's effects  *)
(* is not inductive by itself: that a new effect comes last follows from   *)
(* EffectsAreEnrolled (what a session admitted is the row at the cursor or *)
(* one it passed) and, when the process is late and the cursor has passed  *)
(* its row, from the settlement of the row, which SettlementsAreTrue ties  *)
(* to the effects.  DrainsHold says what an owner in the middle of a row   *)
(* still may rely on, however long ago it listed, routed and bound it.     *)
(* What an inbox input does to the record is taken from                    *)
(* RuntimeDeliveryProofs.                                                  *)
(***************************************************************************)
EXTENDS DeliveryOwner, RuntimeDeliveryProofs, SequenceTheorems

\* A row is enrolled with the complete manifest, when its turn has come.
EnrolledInTurn(d) ==
    \A id \in DeliveryIds :
        Enrolled(d, id) => /\ d.delivery_recipient_bindings[id] = Targets[id]
                           /\ d.delivery_sequences[id] <= d.applied_cursor + 1

\* What a session admitted was enrolled before.
EffectsAreEnrolled ==
    /\ effects \in [Recipients -> Seq(DeliveryIds)]
    /\ \A r \in Recipients : \A i \in 1..Len(effects[r]) : Enrolled(authority, effects[r][i])

\* The recipient's settlement says something else than an admitted delivery.
SettledOtherwise(id, r) == authority.recipient_outcomes[id][r] \notin {None, "Applied"}

\* A session sees the deliveries addressed to it in inbox order.  A process that
\* held the session, lost it and has it back may still run the sink of a row that
\* another settled otherwise in between: that effect alone may be late.
EffectsInOrder ==
    \A r \in Recipients : \A i, j \in 1..Len(effects[r]) :
        i < j =>
            \/ SettledOtherwise(effects[r][i], r)
            \/ SettledOtherwise(effects[r][j], r)
            \/ authority.delivery_sequences[effects[r][i]]
                  <= authority.delivery_sequences[effects[r][j]]

\* The owners' loops are typed: a pass copies their signals.
OwnersTyped == owner \in [Hosts -> Owner]

\* An owner in the middle of a row: the row is enrolled once it was bound, and
\* an applied result is an effect.
DrainOk(p) ==
    /\ p \in Drain
    /\ p.at \in {"bind", "apply", "settle"}
          => p.row \in DeliveryIds /\ p.routes \subseteq Targets[p.row]
    /\ p.at \in {"apply", "settle"} => Enrolled(authority, p.row)
    /\ p.at = "settle"
          => /\ p.result \in [to : Recipients, outcome : RecipientOutcomes]
             /\ p.result.to \in Targets[p.row]
             /\ p.result.outcome = "Applied" => Admitted(p.result.to, p.row)

DrainsHold ==
    /\ drain \in [Hosts -> Drain]
    /\ \A h \in Hosts : DrainOk(drain[h])

OwnerInv ==
    /\ WellFormed(authority)
    /\ EnrolledInTurn(authority)
    /\ EffectsAreEnrolled
    /\ DrainsHold
    /\ SettlementsAreTrue
    /\ EffectsInOrder

-----------------------------------------------------------------------------

\* The invariant holds before the first delivery.
LEMMA OwnerInit == Init => OwnerInv
<1> HAVE Init
<1>1. WellFormed(authority)
  BY EmptyWellFormed DEF Init
<1>2. \A id \in DeliveryIds : ~Enrolled(authority, id)
  BY DEF Init, EmptyAuthority, Enrolled
<1>3. \A id \in DeliveryIds, r \in Recipients : authority.recipient_outcomes[id][r] # "Applied"
  BY NoneAssumption DEF Init, EmptyAuthority, RecipientOutcomes
<1>4. /\ effects \in [Recipients -> Seq(DeliveryIds)]
      /\ \A r \in Recipients : 1..Len(effects[r]) = {}
  BY DEF Init
<1>5. DrainsHold
  BY DEF Init, DrainsHold, DrainOk, Idle, Drain, Stages
<1> QED
  BY <1>1, <1>2, <1>3, <1>4, <1>5 DEF OwnerInv, EnrolledInTurn, EffectsAreEnrolled,
     SettlementsAreTrue, EffectsInOrder

-----------------------------------------------------------------------------
(* Steps of the authority.                                                 *)

\* Rows keep their sequence, enrolments and outcomes stay, and a recipient is
\* only settled as applied after its session admitted the delivery.
Moves(d, dn) ==
    /\ WellFormed(dn)
    /\ EnrolledInTurn(dn)
    /\ \A i \in DeliveryIds :
          /\ Committed(d, i) => dn.delivery_sequences[i] = d.delivery_sequences[i]
          /\ Enrolled(d, i) => Enrolled(dn, i)
          /\ \A r \in Recipients :
                /\ d.recipient_outcomes[i][r] # None
                      => dn.recipient_outcomes[i][r] = d.recipient_outcomes[i][r]
                /\ dn.recipient_outcomes[i][r] = "Applied" => Admitted(r, i)

\* An enrolled row is committed.
LEMMA EnrolledCommitted ==
    ASSUME NEW d, WellFormed(d), NEW id \in DeliveryIds, Enrolled(d, id)
    PROVE  Committed(d, id)
BY DEF WellFormed, Settlements, SettlementOf

\* What the effects say stays true when the authority moves.
LEMMA MovesKeeps ==
    ASSUME OwnerInv, Moves(authority, authority'), UNCHANGED effects
    PROVE  /\ WellFormed(authority)' /\ EnrolledInTurn(authority)' /\ EffectsAreEnrolled'
           /\ SettlementsAreTrue' /\ EffectsInOrder'
<1>1. WellFormed(authority') /\ EnrolledInTurn(authority')
  BY DEF Moves
<1>2. EffectsAreEnrolled'
  BY DEF EffectsAreEnrolled, Moves, OwnerInv
<1>3. SettlementsAreTrue'
  BY DEF SettlementsAreTrue, Moves, Admitted
<1>4. EffectsInOrder'
  <2> SUFFICES ASSUME NEW r \in Recipients, NEW i \in 1..Len(effects[r]),
                      NEW j \in 1..Len(effects[r]), i < j
               PROVE  \/ SettledOtherwise(effects[r][i], r)'
                      \/ SettledOtherwise(effects[r][j], r)'
                      \/ authority'.delivery_sequences[effects[r][i]]
                            <= authority'.delivery_sequences[effects[r][j]]
    BY DEF EffectsInOrder, SettledOtherwise
  <2> DEFINE a == effects[r][i]
             b == effects[r][j]
  <2>1. a \in DeliveryIds /\ b \in DeliveryIds
    BY DEF OwnerInv, EffectsAreEnrolled
  <2>2. Enrolled(authority, a) /\ Enrolled(authority, b)
    BY DEF OwnerInv, EffectsAreEnrolled
  <2>3. \/ SettledOtherwise(a, r)
        \/ SettledOtherwise(b, r)
        \/ authority.delivery_sequences[a] <= authority.delivery_sequences[b]
    BY DEF OwnerInv, EffectsInOrder
  <2> HIDE DEF a, b
  <2>4. /\ authority'.delivery_sequences[a] = authority.delivery_sequences[a]
        /\ authority'.delivery_sequences[b] = authority.delivery_sequences[b]
    BY <2>1, <2>2, EnrolledCommitted DEF OwnerInv, Moves
  <2>5. /\ SettledOtherwise(a, r) => SettledOtherwise(a, r)'
        /\ SettledOtherwise(b, r) => SettledOtherwise(b, r)'
    BY <2>1 DEF SettledOtherwise, Moves, a, b
  <2> QED
    BY <2>3, <2>4, <2>5 DEF a, b, SettledOtherwise
<1> QED
  BY <1>1, <1>2, <1>3, <1>4

\* What an owner relies on stays true when the authority moves.
LEMMA DrainKept ==
    ASSUME OwnerInv, Moves(authority, authority'), UNCHANGED effects,
           NEW h \in Hosts, DrainOk(drain'[h])
    PROVE  DrainOk(drain[h])'
BY DEF DrainOk, Moves, Admitted

\* The authority moves and at most one owner takes a step.
LEMMA MovesStep ==
    ASSUME OwnerInv, Moves(authority, authority'), UNCHANGED effects,
           NEW h \in Hosts, NEW p, drain' = [drain EXCEPT ![h] = p], DrainOk(p)
    PROVE  OwnerInv'
<1>1. drain' \in [Hosts -> Drain]
  BY DEF OwnerInv, DrainsHold, DrainOk
<1>2. ASSUME NEW g \in Hosts PROVE DrainOk(drain[g])'
  <2>1. DrainOk(drain'[g])
    BY DEF OwnerInv, DrainsHold
  <2> QED
    BY <2>1, DrainKept
<1> QED
  BY <1>1, <1>2, MovesKeeps DEF OwnerInv, DrainsHold

\* The authority as it stands.
LEMMA MovesNot ==
    ASSUME OwnerInv
    PROVE  Moves(authority, authority)
BY DEF OwnerInv, Moves, SettlementsAreTrue

\* One owner takes a step that leaves inbox and sessions alone.
LEMMA OneDrain ==
    ASSUME OwnerInv, UNCHANGED <<authority, effects>>,
           NEW h \in Hosts, NEW p, drain' = [drain EXCEPT ![h] = p], DrainOk(p)
    PROVE  OwnerInv'
<1>1. Moves(authority, authority')
  BY MovesNot
<1> QED
  BY <1>1, MovesStep

\* Nothing the invariant reads changes.
LEMMA NothingMoves ==
    ASSUME OwnerInv, UNCHANGED <<authority, effects, drain>>
    PROVE  OwnerInv'
BY DEF OwnerInv, EffectsAreEnrolled, DrainsHold, DrainOk, SettlementsAreTrue,
   EffectsInOrder, SettledOtherwise, Admitted

\* An input that leaves manifests and outcomes alone.
LEMMA PlainMoves ==
    ASSUME OwnerInv, NEW id, NEW dn, InputEffect(authority, dn, id),
           dn.delivery_recipient_bindings = authority.delivery_recipient_bindings,
           dn.recipient_outcomes = authority.recipient_outcomes
    PROVE  Moves(authority, dn)
<1> DEFINE d == authority
<1>1. WellFormed(dn) /\ WellFormed(d)
  BY DEF InputEffect, OwnerInv
<1>2. /\ d.applied_cursor \in Nat /\ dn.applied_cursor \in Nat
      /\ d.delivery_sequences \in [DeliveryIds -> Nat]
  BY <1>1, FieldTypes DEF WellFormed
<1>3. dn.delivery_sequences = d.delivery_sequences /\ d.applied_cursor <= dn.applied_cursor
  <2>1. CASE Silent(d, dn)
    BY <1>2, <2>1 DEF Silent, SameRows
  <2>2. CASE \E c \in Nat : Passes(d, dn, id, c)
    BY <1>2, <2>2 DEF Passes, SameRows, AtCursor
  <2>3. CASE AcknowledgesAhead(d, dn, id)
    BY <1>2, <2>3 DEF AcknowledgesAhead, SameRows
  <2> QED
    BY <2>1, <2>2, <2>3 DEF InputEffect
<1>4. EnrolledInTurn(dn)
  BY <1>2, <1>3 DEF OwnerInv, EnrolledInTurn, Enrolled
<1> QED
  BY <1>1, <1>3, <1>4 DEF Moves, OwnerInv, SettlementsAreTrue, Enrolled

\* The cursor passes a row: manifests and outcomes stay.
LEMMA PassRowFields ==
    ASSUME NEW e \in DeliveryAuthority, NEW dn, NEW seq, PassRow(e, dn, seq)
    PROVE  /\ dn.delivery_recipient_bindings = e.delivery_recipient_bindings
           /\ dn.recipient_outcomes = e.recipient_outcomes
BY DEF PassRow, AdvanceAcknowledgedPrefix, DeliveryAuthority

\* A delivery is committed.
LEMMA CommitMoves ==
    ASSUME OwnerInv, NEW id \in DeliveryIds, ~Committed(authority, id), NEW dn,
           CommitDelivery(authority, dn, id, 1)
    PROVE  Moves(authority, dn)
<1> DEFINE d == authority
<1>1. dn = CommittedNew(d, id, 1)
  BY DEF CommitDelivery
<1>2. d \in DeliveryAuthority /\ WellFormed(d)
  BY DEF OwnerInv, WellFormed
<1>3. /\ WellFormed(dn)
      /\ \A i \in DeliveryIds : SameSettlement(d, dn, i)
      /\ ~Enrolled(d, id)
  BY <1>1, <1>2, CommitKeeps
<1>4. /\ \A i \in DeliveryIds \ {id} : dn.delivery_sequences[i] = d.delivery_sequences[i]
      /\ dn.applied_cursor = d.applied_cursor
  BY <1>1, <1>2 DEF CommittedNew, DeliveryAuthority
<1>5. \A i \in DeliveryIds : Enrolled(dn, i) <=> Enrolled(d, i)
  BY <1>3 DEF SameSettlement, Enrolled
<1>6. EnrolledInTurn(dn)
  BY <1>3, <1>4, <1>5 DEF OwnerInv, EnrolledInTurn, SameSettlement
<1> QED
  BY <1>3, <1>4, <1>5, <1>6 DEF Moves, OwnerInv, SettlementsAreTrue, SameSettlement

\* A delivery is acknowledged by its producer.
LEMMA AcknowledgeMoves ==
    ASSUME OwnerInv, NEW id \in DeliveryIds, NEW dn, AcknowledgeDelivery(authority, dn, id)
    PROVE  Moves(authority, dn)
<1> DEFINE d == authority
<1>1. WellFormed(d) /\ d \in DeliveryAuthority
  BY DEF OwnerInv, WellFormed
<1>2. InputEffect(d, dn, id)
  BY <1>1, AcknowledgeEffect
<1>3. /\ dn.delivery_recipient_bindings = d.delivery_recipient_bindings
      /\ dn.recipient_outcomes = d.recipient_outcomes
  <2>1. CASE PassRow(d, dn, d.delivery_sequences[id])
    BY <1>1, <2>1, PassRowFields
  <2>2. CASE dn = [d EXCEPT !.acknowledged_sequences = @ \cup {d.delivery_sequences[id]}]
    BY <1>1, <2>2 DEF DeliveryAuthority
  <2> QED
    BY <2>1, <2>2 DEF AcknowledgeDelivery
<1> QED
  BY <1>2, <1>3, PlainMoves

\* A row is finished.
LEMMA FinishMoves ==
    ASSUME OwnerInv, NEW id \in DeliveryIds, NEW dn, FinishDeliveryRecipients(authority, dn, id)
    PROVE  Moves(authority, dn)
<1> DEFINE d == authority
           s == GroupSummary(d, id)
           e == [d EXCEPT !.recipient_group_outcomes[id] = s,
                          !.refused_deliveries[id] = GroupRefusal(s)]
<1>1. WellFormed(d) /\ d \in DeliveryAuthority
  BY DEF OwnerInv, WellFormed
<1>2. InputEffect(d, dn, id)
  BY <1>1, FinishEffect
<1>3. /\ dn.delivery_recipient_bindings = d.delivery_recipient_bindings
      /\ dn.recipient_outcomes = d.recipient_outcomes
  <2>1. CASE PassRow(e, dn, d.delivery_sequences[id])
    <3>1. s \in GroupOutcomes /\ GroupRefusal(s) \in RefusalReasons \cup {None}
      BY DEF GroupSummary, GroupRefusal, GroupOutcomes, RefusalReasons
    <3> HIDE DEF s
    <3>2. /\ e \in DeliveryAuthority
          /\ e.delivery_recipient_bindings = d.delivery_recipient_bindings
          /\ e.recipient_outcomes = d.recipient_outcomes
      BY <1>1, <3>1 DEF DeliveryAuthority
    <3> HIDE DEF e
    <3> QED
      BY <2>1, <3>2, PassRowFields
  <2> QED
    BY <2>1 DEF FinishDeliveryRecipients
<1> QED
  BY <1>2, <1>3, PlainMoves

\* A row is bound to its manifest.
LEMMA BindMoves ==
    ASSUME OwnerInv, NEW id \in DeliveryIds, NEW dn,
           BindDeliveryRecipients(authority, dn, id, Targets[id])
    PROVE  Moves(authority, dn) /\ Enrolled(dn, id)
<1> DEFINE d == authority
<1>1. WellFormed(d) /\ d \in DeliveryAuthority /\ Targets[id] \in SUBSET Recipients
  BY OwnerAssumption DEF OwnerInv, WellFormed
<1>2. CASE dn = d /\ d.delivery_recipient_bindings[id] = Targets[id]
  BY <1>1, <1>2, MovesNot, NoneAssumption DEF Enrolled
<1>3. CASE /\ AtCursor(d, id)
           /\ ~Enrolled(d, id)
           /\ dn = [d EXCEPT !.delivery_recipient_bindings[id] = Targets[id],
                             !.recipient_outcomes[id] = [r \in Recipients |-> None]]
  <2>1. WellFormed(dn)
    BY <1>1, BindEffect DEF InputEffect
  <2>2. /\ dn.delivery_recipient_bindings
              = [d.delivery_recipient_bindings EXCEPT ![id] = Targets[id]]
        /\ dn.recipient_outcomes
              = [d.recipient_outcomes EXCEPT ![id] = [r \in Recipients |-> None]]
        /\ dn.delivery_sequences = d.delivery_sequences
        /\ dn.applied_cursor = d.applied_cursor
        /\ d.delivery_recipient_bindings \in [DeliveryIds -> {None} \cup SUBSET Recipients]
        /\ d.recipient_outcomes \in [DeliveryIds -> [Recipients -> RecipientOutcomes \cup {None}]]
    BY <1>1, <1>3 DEF DeliveryAuthority
  <2>3. \A i \in DeliveryIds, r \in Recipients :
            dn.recipient_outcomes[i][r] = d.recipient_outcomes[i][r]
    BY <1>1, <1>3, <2>2 DEF WellFormed, Settlements, SettlementOf
  <2>4. /\ dn.delivery_recipient_bindings[id] = Targets[id]
        /\ \A i \in DeliveryIds \ {id} :
              dn.delivery_recipient_bindings[i] = d.delivery_recipient_bindings[i]
    BY <2>2
  <2>5. Enrolled(dn, id) /\ \A i \in DeliveryIds : Enrolled(d, i) => Enrolled(dn, i)
    BY <1>1, <2>4, NoneAssumption DEF Enrolled
  <2>6. dn.delivery_sequences[id] <= dn.applied_cursor + 1
    BY <1>1, <1>3, <2>2, FieldTypes DEF AtCursor
  <2>7. EnrolledInTurn(dn)
    BY <2>2, <2>4, <2>6 DEF OwnerInv, EnrolledInTurn, Enrolled
  <2> QED
    BY <2>1, <2>2, <2>3, <2>5, <2>7 DEF Moves, OwnerInv, SettlementsAreTrue
<1> QED
  BY <1>2, <1>3 DEF BindDeliveryRecipients

\* A recipient is settled, as applied only if its session admitted the row.
LEMMA SettleMoves ==
    ASSUME OwnerInv, NEW id \in DeliveryIds, NEW q \in Recipients,
           NEW outcome \in RecipientOutcomes, outcome = "Applied" => Admitted(q, id),
           NEW dn, SettleDeliveryRecipient(authority, dn, id, q, outcome)
    PROVE  Moves(authority, dn)
<1> DEFINE d == authority
<1>1. WellFormed(d) /\ d \in DeliveryAuthority
  BY DEF OwnerInv, WellFormed
<1>2. CASE dn = d
  BY <1>2, MovesNot
<1>3. CASE d.recipient_outcomes[id][q] = None /\ dn = SetOutcome(d, id, q, outcome)
  <2>1. WellFormed(dn)
    BY <1>1, SettleEffect DEF InputEffect
  <2>2. /\ dn.recipient_outcomes = [d.recipient_outcomes EXCEPT ![id][q] = outcome]
        /\ dn.delivery_recipient_bindings = d.delivery_recipient_bindings
        /\ dn.delivery_sequences = d.delivery_sequences
        /\ dn.applied_cursor = d.applied_cursor
        /\ d.recipient_outcomes \in [DeliveryIds -> [Recipients -> RecipientOutcomes \cup {None}]]
    BY <1>1, <1>3 DEF DeliveryAuthority, SetOutcome
  <2>3. \A i \in DeliveryIds, r \in Recipients :
            dn.recipient_outcomes[i][r]
                = IF i = id /\ r = q THEN outcome ELSE d.recipient_outcomes[i][r]
    BY <2>2
  <2>4. EnrolledInTurn(dn)
    BY <2>2 DEF OwnerInv, EnrolledInTurn, Enrolled
  <2> QED
    BY <1>3, <2>1, <2>2, <2>3, <2>4 DEF Moves, OwnerInv, SettlementsAreTrue, Enrolled
<1> QED
  BY <1>2, <1>3 DEF SettleDeliveryRecipient

-----------------------------------------------------------------------------
(* Steps of an owner.                                                      *)

\* A pass that has no row at hand.
LEMMA BetweenRows ==
    ASSUME NEW p \in Drain, p.at \notin {"bind", "apply", "settle"}
    PROVE  DrainOk(p)
BY DEF DrainOk

\* The record of an owner between passes.
LEMMA IdleOk == Idle \in Drain /\ DrainOk(Idle)
<1>1. Idle \in Drain /\ Idle.at = "idle"
  BY DEF Idle, Drain, Stages
<1> QED
  BY <1>1, BetweenRows

\* An owner that is down or starts over with its list.
LEMMA StartsOver ==
    ASSUME NEW at \in Stages \ {"bind", "apply", "settle"}
    PROVE  DrainOk([Idle EXCEPT !.at = at])
<1>1. [Idle EXCEPT !.at = at] \in Drain /\ [Idle EXCEPT !.at = at].at = at
  BY IdleOk DEF Drain
<1> QED
  BY <1>1, BetweenRows

\* The pass leaves the runtime.
LEMMA LeaveKeeps ==
    ASSUME OwnerInv, NEW h \in Hosts, NEW blocked, NEW awaiting, Leave(h, blocked, awaiting),
           UNCHANGED <<authority, effects>>
    PROVE  OwnerInv'
<1>1. drain' = [drain EXCEPT ![h] = Idle]
  BY DEF Leave
<1> QED
  BY <1>1, IdleOk, OneDrain

\* The pass before it comes to a row.
LEMMA PassKept ==
    ASSUME OwnerInv, OwnersTyped, NEW h \in Hosts,
           \/ StoreTick(h) \/ BeginPass(h) \/ ReadBacklog(h) \/ BacklogFails(h)
           \/ ListRows(h) \/ ReadAcknowledged(h) \/ Crash(h) \/ Restart(h)
    PROVE  OwnerInv'
<1>1. drain[h] \in Drain
  BY DEF OwnerInv, DrainsHold
<1>2. UNCHANGED <<authority, effects>>
  BY DEF StoreTick, BeginPass, ReadBacklog, BacklogFails, ListRows, ReadAcknowledged, Crash,
         Restart
<1>3. ASSUME NEW p \in Drain, p.at \notin {"bind", "apply", "settle"},
             drain' = [drain EXCEPT ![h] = p]
      PROVE  OwnerInv'
  BY <1>2, <1>3, BetweenRows, OneDrain
<1>4. CASE StoreTick(h)
  <2> DEFINE due == \E r \in owner[h].awaiting : Ours(h, r, IF cold = None THEN h ELSE cold)
             p == [drain[h] EXCEPT !.due = due]
  <2>1. due \in BOOLEAN
    OBVIOUS
  <2> HIDE DEF due
  <2>2. p \in Drain /\ p.at = drain[h].at
    BY <1>1, <2>1 DEF Drain
  <2>3. drain' = [drain EXCEPT ![h] = p] /\ drain[h].at = "idle"
    BY <1>4 DEF StoreTick, due
  <2> QED
    BY <1>3, <2>2, <2>3
<1>5. CASE BeginPass(h)
  <2> DEFINE p == [drain[h] EXCEPT !.at = "backlog", !.reconcile = owner[h].reconcile,
                                   !.retry = owner[h].retry]
  <2>1. owner[h].reconcile \in BOOLEAN /\ owner[h].retry \in BOOLEAN
    BY DEF OwnersTyped, Owner
  <2>2. p \in Drain /\ p.at = "backlog"
    BY <1>1, <2>1 DEF Drain, Stages
  <2>3. drain' = [drain EXCEPT ![h] = p]
    BY <1>5 DEF BeginPass
  <2> QED
    BY <1>3, <2>2, <2>3
<1>6. CASE ReadBacklog(h) \/ BacklogFails(h)
  <2>1. \E backlog \in BOOLEAN : Collect(h, backlog)
    BY <1>6 DEF ReadBacklog, BacklogFails
  <2>2. \E at \in {"list", "idle"} : drain' = [drain EXCEPT ![h] = [Idle EXCEPT !.at = at]]
    BY <2>1 DEF Collect
  <2> QED
    BY <1>2, <2>2, StartsOver, OneDrain DEF Stages
<1>7. CASE ListRows(h)
  <2> DEFINE page == {id \in PendingRows :
                        authority.delivery_sequences[id] <= authority.applied_cursor + Page}
             full == Cardinality(PendingRows) >= Page
             p == [drain[h] EXCEPT !.at = "acknowledged", !.rows = page, !.full = full]
  <2>1. page \subseteq DeliveryIds /\ full \in BOOLEAN
    BY DEF PendingRows
  <2>2. drain' = [drain EXCEPT ![h] = p]
    BY <1>7 DEF ListRows
  <2> HIDE DEF page, full
  <2>3. p \in Drain /\ p.at = "acknowledged"
    BY <1>1, <2>1 DEF Drain, Stages
  <2> QED
    BY <1>3, <2>2, <2>3
<1>8. CASE ReadAcknowledged(h)
  <2> DEFINE open == {id \in drain[h].rows : ~Acknowledged(authority, id)}
             p == [drain[h] EXCEPT !.at = "row", !.rows = open]
  <2>1. open \subseteq DeliveryIds
    BY <1>1 DEF Drain
  <2>2. drain' = [drain EXCEPT ![h] = p]
    BY <1>8 DEF ReadAcknowledged
  <2> HIDE DEF open
  <2>3. p \in Drain /\ p.at = "row"
    BY <1>1, <2>1 DEF Drain, Stages
  <2> QED
    BY <1>3, <2>2, <2>3
<1>9. CASE Crash(h)
  <2>1. drain' = [drain EXCEPT ![h] = [Idle EXCEPT !.at = "down"]]
    BY <1>9 DEF Crash
  <2> QED
    BY <1>2, <2>1, StartsOver, OneDrain DEF Stages
<1>10. CASE Restart(h)
  <2>1. drain' = [drain EXCEPT ![h] = Idle]
    BY <1>10 DEF Restart
  <2> QED
    BY <1>2, <2>1, IdleOk, OneDrain
<1> QED
  BY <1>4, <1>5, <1>6, <1>7, <1>8, <1>9, <1>10

\* A page is done, a row is routed, or its recipient has moved on.
LEMMA RowsKept ==
    ASSUME OwnerInv, NEW h \in Hosts,
           \/ PageDone(h)
           \/ \E id \in DeliveryIds : RouteRow(h, id)
           \/ \E r \in Recipients : SkipMoved(h, r)
    PROVE  OwnerInv'
<1>1. drain[h] \in Drain /\ DrainOk(drain[h])
  BY DEF OwnerInv, DrainsHold
<1>2. UNCHANGED <<authority, effects>>
  BY DEF PageDone, RouteRow, SkipMoved
<1>3. CASE \E blocked, awaiting : Leave(h, blocked, awaiting)
  BY <1>2, <1>3, LeaveKeeps
<1>4. CASE PageDone(h)
  <2>1. CASE drain' = [drain EXCEPT ![h] = [Idle EXCEPT !.at = "list"]]
    BY <1>2, <2>1, StartsOver, OneDrain DEF Stages
  <2> QED
    BY <1>3, <1>4, <2>1 DEF PageDone
<1>5. ASSUME NEW id \in DeliveryIds, RouteRow(h, id) PROVE OwnerInv'
  <2> DEFINE routes == {r \in Targets[id] : Ours(h, r, cold)}
             p == [drain[h] EXCEPT !.at = "bind", !.row = id, !.routes = routes]
  <2>1. routes \subseteq Targets[id] /\ routes \subseteq Recipients
    BY OwnerAssumption
  <2>2. CASE drain' = [drain EXCEPT ![h] = p]
    <3> HIDE DEF routes
    <3>1. p \in Drain /\ p.at = "bind" /\ p.row = id /\ p.routes = routes
      BY <1>1, <2>1 DEF Drain, Stages
    <3> HIDE DEF p
    <3>2. DrainOk(p)
      BY <2>1, <3>1 DEF DrainOk
    <3> QED
      BY <1>2, <2>2, <3>2, OneDrain
  <2> QED
    BY <1>3, <1>5, <2>2 DEF RouteRow
<1>6. ASSUME NEW r \in Recipients, SkipMoved(h, r) PROVE OwnerInv'
  <2> DEFINE p == [drain[h] EXCEPT !.routes = @ \ {r}]
  <2>1. drain' = [drain EXCEPT ![h] = p] /\ drain[h].at = "apply"
    BY <1>6 DEF SkipMoved
  <2>2. p \in Drain /\ p.at = "apply" /\ p.row = drain[h].row /\ p.routes \subseteq drain[h].routes
    BY <1>1, <2>1 DEF Drain
  <2> HIDE DEF p
  <2>3. DrainOk(p)
    BY <1>1, <2>1, <2>2 DEF DrainOk
  <2> QED
    BY <1>2, <2>1, <2>3, OneDrain
<1> QED
  BY <1>4, <1>5, <1>6

\* The row at hand is bound.
LEMMA BindKeeps ==
    ASSUME OwnerInv, NEW h \in Hosts, Bind(h)
    PROVE  OwnerInv'
<1> DEFINE id == drain[h].row
           settled == {r \in Targets[id] : authority.recipient_outcomes[id][r] # None}
           p == [drain[h] EXCEPT !.at = "apply", !.settled = settled]
<1>1. drain[h] \in Drain /\ id \in DeliveryIds /\ drain[h].routes \subseteq Targets[id]
  BY DEF OwnerInv, DrainsHold, DrainOk, Bind
<1>2. settled \subseteq Recipients
  BY <1>1, OwnerAssumption
<1>3. /\ drain' = [drain EXCEPT ![h] = p]
      /\ BindDeliveryRecipients(authority, authority', id, Targets[id])
      /\ UNCHANGED effects
  BY DEF Bind, Row
<1>4. Moves(authority, authority') /\ Enrolled(authority', id)
  BY <1>1, <1>3, BindMoves
<1> HIDE DEF settled
<1>5. p \in Drain /\ p.at = "apply" /\ p.row = id /\ p.routes \subseteq Targets[id]
  BY <1>1, <1>2 DEF Drain, Stages
<1>6. drain' \in [Hosts -> Drain] /\ drain'[h] = p
  BY <1>3, <1>5 DEF OwnerInv, DrainsHold
<1> HIDE DEF p, id
<1>7. DrainOk(drain[h])'
  BY <1>1, <1>4, <1>5, <1>6 DEF DrainOk
<1>8. ASSUME NEW g \in Hosts, g # h PROVE DrainOk(drain[g])'
  <2>1. DrainOk(drain'[g])
    BY <1>3, <1>8 DEF OwnerInv, DrainsHold
  <2> QED
    BY <1>3, <1>4, <2>1, DrainKept
<1> QED
  BY <1>3, <1>4, <1>6, <1>7, <1>8, MovesKeeps DEF OwnerInv, DrainsHold

\* A recipient of the row at hand is settled.
LEMMA SettleKeeps ==
    ASSUME OwnerInv, NEW h \in Hosts, Settle(h)
    PROVE  OwnerInv'
<1> DEFINE id == drain[h].row
           q == drain[h].result.to
           outcome == drain[h].result.outcome
           p == [drain[h] EXCEPT !.at = "apply", !.result = None, !.settled = @ \cup {q}]
<1>1. /\ drain[h] \in Drain /\ id \in DeliveryIds /\ drain[h].routes \subseteq Targets[id]
      /\ Enrolled(authority, id)
      /\ drain[h].result \in [to : Recipients, outcome : RecipientOutcomes]
      /\ outcome = "Applied" => Admitted(q, id)
  BY DEF OwnerInv, DrainsHold, DrainOk, Settle
<1>2. q \in Recipients /\ outcome \in RecipientOutcomes
  BY <1>1
<1>3. /\ drain' = [drain EXCEPT ![h] = p]
      /\ SettleDeliveryRecipient(authority, authority', id, q, outcome)
      /\ UNCHANGED effects
  BY DEF Settle, Row
<1>4. Moves(authority, authority')
  BY <1>1, <1>2, <1>3, SettleMoves
<1> HIDE DEF q, outcome
<1>5. p \in Drain /\ p.at = "apply" /\ p.row = id /\ p.routes = drain[h].routes
  BY <1>1, <1>2 DEF Drain, Stages
<1> HIDE DEF p
<1>6. DrainOk(p)
  BY <1>1, <1>5 DEF DrainOk
<1> QED
  BY <1>3, <1>4, <1>6, MovesStep

\* The row at hand is finished, or left to the other processes.
LEMMA FinishKeeps ==
    ASSUME OwnerInv, NEW h \in Hosts, Finish(h)
    PROVE  OwnerInv'
<1> DEFINE id == drain[h].row
           p == [drain[h] EXCEPT !.at = "row", !.rows = @ \ {id}, !.row = None, !.routes = {},
                                 !.settled = {}]
<1>1. drain[h] \in Drain /\ id \in DeliveryIds
  BY DEF OwnerInv, DrainsHold, DrainOk, Finish
<1>2. CASE Leave(h, "No", Targets[id] \ drain[h].settled) /\ UNCHANGED authority
  BY <1>2, LeaveKeeps DEF Finish
<1>3. CASE /\ FinishDeliveryRecipients(authority, authority', id)
           /\ drain' = [drain EXCEPT ![h] = p]
  <2>1. Moves(authority, authority')
    BY <1>1, <1>3, FinishMoves
  <2>2. p \in Drain /\ p.at = "row"
    BY <1>1 DEF Drain, Stages
  <2>3. DrainOk(p)
    BY <2>2, BetweenRows
  <2>4. UNCHANGED effects
    BY DEF Finish
  <2> QED
    BY <1>3, <2>1, <2>3, <2>4, MovesStep
<1> QED
  BY <1>2, <1>3 DEF Finish, Row

-----------------------------------------------------------------------------
(* The sink.                                                               *)

\* A delivery that is new to the session and enrolled comes after what the
\* session has admitted, or its settlement says that it was not.
LEMMA NewEffectInOrder ==
    ASSUME OwnerInv, NEW r \in Recipients, NEW id \in DeliveryIds, Enrolled(authority, id),
           r \in Targets[id], ~Admitted(r, id), NEW i \in 1..Len(effects[r])
    PROVE  \/ SettledOtherwise(id, r)
           \/ authority.delivery_sequences[effects[r][i]] <= authority.delivery_sequences[id]
<1> DEFINE d == authority
           a == effects[r][i]
<1>1. a \in DeliveryIds /\ Enrolled(d, a)
  BY DEF OwnerInv, EffectsAreEnrolled
<1>2. WellFormed(d) /\ d \in DeliveryAuthority
  BY DEF OwnerInv, WellFormed
<1>3. /\ d.delivery_sequences[a] \in Nat /\ d.delivery_sequences[id] \in Nat
      /\ d.applied_cursor \in Nat
  BY <1>1, <1>2, FieldTypes
<1>4. /\ Committed(d, id)
      /\ d.delivery_sequences[a] <= d.applied_cursor + 1
      /\ d.delivery_sequences[id] <= d.applied_cursor + 1
      /\ d.delivery_recipient_bindings[id] = Targets[id]
  BY <1>1, <1>2, EnrolledCommitted DEF OwnerInv, EnrolledInTurn
<1> HIDE DEF a
<1>5. CASE Passed(d, id)
  <2>1. AllSettled(d, id)
    BY <1>2, <1>5 DEF WellFormed, Settlements, SettlementOf
  <2>2. d.recipient_outcomes[id][r] # None
    BY <1>4, <2>1 DEF AllSettled
  <2>3. d.recipient_outcomes[id][r] # "Applied"
    BY DEF OwnerInv, SettlementsAreTrue
  <2> QED
    BY <2>2, <2>3 DEF SettledOtherwise
<1>6. CASE ~Passed(d, id)
  <2>1. d.delivery_sequences[id] = d.applied_cursor + 1
    BY <1>3, <1>4, <1>6 DEF Passed
  <2> QED
    BY <1>3, <1>4, <2>1 DEF a
<1> QED
  BY <1>5, <1>6

\* The sink of an enrolled row admits it once.
LEMMA AdmitEffect ==
    ASSUME OwnerInv, NEW r \in Recipients, NEW id \in DeliveryIds, Enrolled(authority, id),
           r \in Targets[id], Admit(r, id), UNCHANGED authority
    PROVE  /\ EffectsAreEnrolled' /\ SettlementsAreTrue' /\ EffectsInOrder'
           /\ \A q \in Recipients, k \in DeliveryIds : Admitted(q, k) => Admitted(q, k)'
           /\ Admitted(r, id)'
<1>1. effects \in [Recipients -> Seq(DeliveryIds)]
  BY DEF OwnerInv, EffectsAreEnrolled
<1>2. CASE Admitted(r, id)
  <2>1. effects' = effects
    BY <1>1, <1>2 DEF Admit, Admitted
  <2> QED
    BY <1>2, <2>1 DEF OwnerInv, EffectsAreEnrolled, SettlementsAreTrue, EffectsInOrder,
                      Admitted, SettledOtherwise
<1>3. CASE ~Admitted(r, id)
  <2> DEFINE s == effects[r]
  <2>0. effects' = [effects EXCEPT ![r] = Append(s, id)]
    BY <1>1, <1>3 DEF Admit, Admitted
  <2>1. s \in Seq(DeliveryIds) /\ Len(s) \in Nat
    BY <1>1
  <2>2. /\ Append(s, id) \in Seq(DeliveryIds)
        /\ Len(Append(s, id)) = Len(s) + 1
        /\ \A i \in 1..Len(s) : Append(s, id)[i] = s[i]
        /\ Append(s, id)[Len(s) + 1] = id
    BY <2>1
  <2>3. /\ effects' \in [Recipients -> Seq(DeliveryIds)]
        /\ Len(effects'[r]) = Len(s) + 1
        /\ \A i \in 1..Len(s) : effects'[r][i] = s[i]
        /\ effects'[r][Len(s) + 1] = id
        /\ \A q \in Recipients \ {r} : effects'[q] = effects[q]
    BY <1>1, <2>0, <2>2
  <2>4. \A i \in 1..Len(effects'[r]) : i \in 1..Len(s) \/ i = Len(s) + 1
    BY <2>1, <2>3
  <2>5. EffectsAreEnrolled'
    BY <2>3, <2>4 DEF OwnerInv, EffectsAreEnrolled
  <2>6. /\ Admitted(r, id)'
        /\ \A q \in Recipients, k \in DeliveryIds : Admitted(q, k) => Admitted(q, k)'
    <3>1. 1..Len(s) \subseteq 1..Len(effects'[r]) /\ Len(s) + 1 \in 1..Len(effects'[r])
      BY <2>1, <2>3
    <3> QED
      BY <2>3, <3>1 DEF Admitted
  <2>7. SettlementsAreTrue'
    BY <2>6 DEF OwnerInv, SettlementsAreTrue
  <2>8. EffectsInOrder'
    <3> SUFFICES ASSUME NEW q \in Recipients, NEW i \in 1..Len(effects'[q]),
                        NEW j \in 1..Len(effects'[q]), i < j
                 PROVE  \/ SettledOtherwise(effects'[q][i], q)
                        \/ SettledOtherwise(effects'[q][j], q)
                        \/ authority.delivery_sequences[effects'[q][i]]
                              <= authority.delivery_sequences[effects'[q][j]]
      BY DEF EffectsInOrder, SettledOtherwise
    <3>0. EffectsInOrder
      BY DEF OwnerInv
    <3>1. CASE q # r
      <4>1. effects'[q] = effects[q]
        BY <2>3, <3>1
      <4> QED
        BY <3>0, <4>1 DEF EffectsInOrder
    <3>2. CASE q = r /\ j \in 1..Len(s)
      <4>1. i \in 1..Len(s)
        BY <2>1, <2>3, <3>2
      <4> QED
        BY <2>3, <3>0, <3>2, <4>1 DEF EffectsInOrder
    <3>3. CASE q = r /\ j = Len(s) + 1
      <4>1. i \in 1..Len(s)
        BY <2>1, <2>3, <3>3
      <4>2. \/ SettledOtherwise(id, r)
            \/ authority.delivery_sequences[s[i]] <= authority.delivery_sequences[id]
        BY <1>3, <4>1, NewEffectInOrder
      <4> QED
        BY <2>3, <3>3, <4>1, <4>2
    <3> QED
      BY <2>4, <3>1, <3>2, <3>3
  <2> QED
    BY <2>5, <2>6, <2>7, <2>8
<1> QED
  BY <1>2, <1>3

\* The sink runs: an effect, or a verdict.
LEMMA ApplyKeeps ==
    ASSUME OwnerInv, NEW h \in Hosts, NEW r \in Recipients, ApplySink(h, r)
    PROVE  OwnerInv'
<1>0. drain[h].row \in DeliveryIds
  BY DEF OwnerInv, DrainsHold, DrainOk, ApplySink
<1> PICK id \in DeliveryIds : id = drain[h].row
  BY <1>0
<1>1. /\ drain[h] \in Drain /\ DrainOk(drain[h]) /\ drain[h].routes \subseteq Targets[id]
      /\ r \in Targets[id] /\ Enrolled(authority, id)
  BY DEF OwnerInv, DrainsHold, DrainOk, ApplySink, Open
<1>2. PICK outcome \in Verdicts :
          /\ drain' = [drain EXCEPT ![h].at = "settle",
                                    ![h].result = [to |-> r, outcome |-> outcome]]
          /\ IF outcome = "Applied" THEN Admit(r, id) ELSE UNCHANGED effects
  BY DEF ApplySink, Row
<1>3. UNCHANGED authority
  BY DEF ApplySink
<1> DEFINE res == [to |-> r, outcome |-> outcome]
           p == [drain[h] EXCEPT !.at = "settle", !.result = res]
<1>4. drain' = [drain EXCEPT ![h] = p]
  BY <1>2
<1>5. /\ res \in [to : Recipients, outcome : RecipientOutcomes]
      /\ res.to = r /\ res.outcome = outcome
  BY OwnerAssumption
<1> HIDE DEF res
<1>6. /\ p \in Drain /\ p.at = "settle" /\ p.row = id /\ p.routes = drain[h].routes
      /\ p.result = res
  BY <1>1, <1>5 DEF Drain, Stages
<1> HIDE DEF p
<1>7. /\ EffectsAreEnrolled' /\ SettlementsAreTrue' /\ EffectsInOrder'
      /\ \A q \in Recipients, k \in DeliveryIds : Admitted(q, k) => Admitted(q, k)'
      /\ outcome = "Applied" => Admitted(r, id)'
  <2>1. CASE outcome = "Applied"
    BY <1>1, <1>2, <1>3, <2>1, AdmitEffect
  <2>2. CASE outcome # "Applied"
    BY <1>2, <1>3, <2>2 DEF OwnerInv, EffectsAreEnrolled, SettlementsAreTrue,
       EffectsInOrder, Admitted, SettledOtherwise
  <2> QED
    BY <2>1, <2>2
<1>8. drain' \in [Hosts -> Drain] /\ drain'[h] = p
  BY <1>4, <1>6 DEF OwnerInv, DrainsHold
<1>9. DrainOk(drain[h])'
  BY <1>1, <1>3, <1>5, <1>6, <1>7, <1>8 DEF DrainOk
<1>10. ASSUME NEW g \in Hosts, g # h PROVE DrainOk(drain[g])'
  <2>1. DrainOk(drain'[g])
    BY <1>4, <1>10 DEF OwnerInv, DrainsHold
  <2> QED
    BY <1>3, <1>7, <2>1 DEF DrainOk
<1>11. WellFormed(authority)' /\ EnrolledInTurn(authority)'
  BY <1>3 DEF OwnerInv
<1> QED
  BY <1>7, <1>8, <1>9, <1>10, <1>11 DEF OwnerInv, DrainsHold

\* The sink fails, before its effect or after it.
LEMMA SinkFailsKeeps ==
    ASSUME OwnerInv, NEW h \in Hosts, NEW r \in Recipients, SinkFails(h, r)
    PROVE  OwnerInv'
<1>0. drain[h].row \in DeliveryIds
  BY DEF OwnerInv, DrainsHold, DrainOk, SinkFails
<1> PICK id \in DeliveryIds : id = drain[h].row
  BY <1>0
<1>1. r \in Targets[id] /\ Enrolled(authority, id)
  BY DEF OwnerInv, DrainsHold, DrainOk, SinkFails, Open
<1>2. UNCHANGED authority /\ drain' = [drain EXCEPT ![h] = Idle]
  BY DEF SinkFails, Leave
<1>3. CASE UNCHANGED effects
  BY <1>3, LeaveKeeps DEF SinkFails
<1>4. CASE Admit(r, id)
  <2>1. /\ EffectsAreEnrolled' /\ SettlementsAreTrue' /\ EffectsInOrder'
        /\ \A q \in Recipients, k \in DeliveryIds : Admitted(q, k) => Admitted(q, k)'
    BY <1>1, <1>2, <1>4, AdmitEffect
  <2>2. drain' \in [Hosts -> Drain] /\ DrainOk(drain'[h])
    BY <1>2, IdleOk DEF OwnerInv, DrainsHold
  <2>3. ASSUME NEW g \in Hosts PROVE DrainOk(drain[g])'
    <3>1. DrainOk(drain'[g])
      BY <1>2, <2>2 DEF OwnerInv, DrainsHold
    <3> QED
      BY <1>2, <2>1, <3>1 DEF DrainOk
  <2>4. WellFormed(authority)' /\ EnrolledInTurn(authority)'
    BY <1>2 DEF OwnerInv
  <2> QED
    BY <2>1, <2>2, <2>3, <2>4 DEF OwnerInv, DrainsHold
<1> QED
  BY <1>3, <1>4 DEF SinkFails, Row

-----------------------------------------------------------------------------

\* What happens around the owners.
LEMMA EnvironmentKeeps ==
    ASSUME OwnerInv, OwnersTyped, Environment
    PROVE  OwnerInv'
<1>1. ASSUME NEW id \in DeliveryIds, AcknowledgeApplied(id) PROVE OwnerInv'
  <2>1. Moves(authority, authority') /\ UNCHANGED <<effects, drain>>
    BY <1>1, AcknowledgeMoves DEF AcknowledgeApplied
  <2> QED
    BY <2>1, MovesKeeps, DrainKept DEF OwnerInv, DrainsHold
<1>2. ASSUME NEW h \in Hosts, NEW id \in DeliveryIds, Commit(h, id) \/ CommitUnsignalled(h, id)
      PROVE  OwnerInv'
  <2>1. Moves(authority, authority') /\ UNCHANGED <<effects, drain>>
    BY <1>2, CommitMoves DEF Commit, CommitUnsignalled
  <2> QED
    BY <2>1, MovesKeeps, DrainKept DEF OwnerInv, DrainsHold
<1>3. ASSUME NEW h \in Hosts, NEW r \in Recipients, Serve(h, r) \/ Release(h, r)
      PROVE  OwnerInv'
  BY <1>3, NothingMoves DEF Serve, Release
<1>4. ASSUME NEW h \in Hosts, Crash(h) \/ Restart(h) \/ BacklogFails(h) PROVE OwnerInv'
  BY <1>4, PassKept
<1>5. ASSUME NEW h \in Hosts, ListFails(h) PROVE OwnerInv'
  BY <1>5, LeaveKeeps DEF ListFails
<1> QED
  BY <1>1, <1>2, <1>3, <1>4, <1>5, SinkFailsKeeps DEF Environment

\* Every step keeps the invariant.
LEMMA OwnerNext == OwnerInv /\ OwnersTyped /\ [Next]_vars => OwnerInv'
<1> SUFFICES ASSUME OwnerInv, OwnersTyped, [Next]_vars PROVE OwnerInv'
  OBVIOUS
<1>1. ASSUME NEW h \in Hosts, OwnerStep(h) PROVE OwnerInv'
  <2>1. CASE BeginPass(h) \/ ReadBacklog(h) \/ ListRows(h) \/ ReadAcknowledged(h)
    BY <2>1, PassKept
  <2>2. CASE IgnoreRetry(h)
    BY <2>2, NothingMoves DEF IgnoreRetry
  <2>3. CASE \/ PageDone(h)
             \/ \E id \in DeliveryIds : RouteRow(h, id)
             \/ \E r \in Recipients : SkipMoved(h, r)
    BY <2>3, RowsKept
  <2>4. CASE BindRejected(h) \/ SettleRejected(h)
    BY <2>4, LeaveKeeps DEF BindRejected, SettleRejected
  <2>5. CASE Bind(h) \/ Settle(h) \/ Finish(h) \/ \E r \in Recipients : ApplySink(h, r)
    BY <2>5, BindKeeps, SettleKeeps, FinishKeeps, ApplyKeeps
  <2> QED
    BY <1>1, <2>1, <2>2, <2>3, <2>4, <2>5 DEF OwnerStep
<1>2. ASSUME NEW h \in Hosts, StoreTick(h) PROVE OwnerInv'
  BY <1>2, PassKept
<1>3. CASE UNCHANGED vars
  BY <1>3, NothingMoves DEF vars
<1> QED
  BY <1>1, <1>2, <1>3, EnvironmentKeeps DEF Next

\* The record of an owner's loop keeps its type when one field is written.
LEMMA OwnerWritten ==
    ASSUME OwnersTyped, NEW h \in Hosts, NEW o \in Owner, owner' = [owner EXCEPT ![h] = o]
    PROVE  OwnersTyped'
BY DEF OwnersTyped

\* The pass leaves the runtime with a set of recipients to wait for.
LEMMA LeaveTyped ==
    ASSUME OwnersTyped, NEW h \in Hosts, NEW blocked \in {"No", "Raced", "Failed"},
           NEW awaiting \in SUBSET Recipients, Leave(h, blocked, awaiting)
    PROVE  OwnersTyped'
<1> DEFINE o == [owner[h] EXCEPT !.blocked = blocked, !.awaiting = awaiting]
<1>1. o \in Owner
  BY DEF OwnersTyped, Owner
<1>2. owner' = [owner EXCEPT ![h] = o]
  BY DEF Leave
<1> QED
  BY <1>1, <1>2, OwnerWritten

\* Every step keeps the types of the owners' loops.
LEMMA OwnersTypedNext == OwnerInv /\ OwnersTyped /\ [Next]_vars => OwnersTyped'
<1> SUFFICES ASSUME OwnerInv, OwnersTyped, [Next]_vars PROVE OwnersTyped'
  OBVIOUS
<1>0. ASSUME NEW h \in Hosts
      PROVE  /\ owner[h] \in Owner /\ owner[h].awaiting \in SUBSET Recipients
             /\ ArmedOwner \in Owner
             /\ drain[h].at \in {"apply", "bind", "settle"}
                    => Targets[drain[h].row] \in SUBSET Recipients
  BY OwnerAssumption DEF OwnersTyped, Owner, ArmedOwner, OwnerInv, DrainsHold, DrainOk
<1>1. CASE UNCHANGED owner
  BY <1>1 DEF OwnersTyped
<1>2. ASSUME NEW h \in Hosts,
             \/ ListFails(h) \/ PageDone(h) \/ BindRejected(h)
             \/ SettleRejected(h) \/ Finish(h) \/ \E id \in DeliveryIds : RouteRow(h, id)
             \/ \E r \in Recipients : SinkFails(h, r)
      PROVE  OwnersTyped'
  <2>1. CASE \E blocked \in {"No", "Raced", "Failed"}, awaiting \in SUBSET Recipients :
                 Leave(h, blocked, awaiting)
    BY <2>1, LeaveTyped
  <2>2. CASE Finish(h)
    <3>1. Targets[Row(h)] \ drain[h].settled \in SUBSET Recipients
      BY <1>0, <2>2 DEF Finish, Row
    <3> QED
      BY <1>1, <2>1, <2>2, <3>1 DEF Finish
  <2>3. ASSUME NEW id \in DeliveryIds, RouteRow(h, id) PROVE OwnersTyped'
    <3>1. Targets[id] \in SUBSET Recipients
      BY OwnerAssumption
    <3> QED
      BY <1>1, <2>1, <2>3, <3>1 DEF RouteRow
  <2>4. CASE ListFails(h)
    BY <1>0, <2>1, <2>4 DEF ListFails
  <2>5. CASE \E r \in Recipients : SinkFails(h, r)
    BY <2>1, <2>5 DEF SinkFails
  <2>6. CASE PageDone(h)
    BY <1>1, <2>1, <2>6 DEF PageDone
  <2>7. CASE BindRejected(h) \/ SettleRejected(h)
    BY <2>1, <2>7 DEF BindRejected, SettleRejected
  <2> QED
    BY <1>2, <2>2, <2>3, <2>4, <2>5, <2>6, <2>7
<1>3. ASSUME NEW h \in Hosts, Crash(h) PROVE OwnersTyped'
  BY <1>0, <1>3, OwnerWritten DEF Crash
<1>4. ASSUME NEW h \in Hosts, NEW id \in DeliveryIds, Commit(h, id) PROVE OwnersTyped'
  BY <1>0, <1>4 DEF Commit, OwnersTyped, Owner
<1>5. ASSUME NEW h \in Hosts, NEW r \in Recipients, Serve(h, r) PROVE OwnersTyped'
  BY <1>0, <1>5 DEF Serve, OwnersTyped, Owner
<1>6. ASSUME NEW h \in Hosts, StoreTick(h) PROVE OwnersTyped'
  <2> DEFINE reconcile == owner[h].reconcile \/ cold = None \/ news[h]
             o == [owner[h] EXCEPT !.reconcile = reconcile]
  <2>1. reconcile \in BOOLEAN
    OBVIOUS
  <2>2. owner' = [owner EXCEPT ![h] = o]
    BY <1>6 DEF StoreTick
  <2> HIDE DEF reconcile
  <2>3. o \in Owner
    BY <1>0, <2>1 DEF Owner
  <2> QED
    BY <2>2, <2>3, OwnerWritten
<1>7. ASSUME NEW h \in Hosts, BeginPass(h) \/ IgnoreRetry(h) PROVE OwnersTyped'
  <2>1. CASE BeginPass(h)
    BY <1>0, <2>1 DEF BeginPass, OwnersTyped, Owner
  <2>2. CASE IgnoreRetry(h)
    BY <1>0, <2>2 DEF IgnoreRetry, OwnersTyped, Owner
  <2> QED
    BY <1>7, <2>1, <2>2
<1>8. ASSUME NEW h \in Hosts, ReadBacklog(h) PROVE OwnersTyped'
  <2>1. PICK awaiting \in SUBSET Recipients :
            owner' = [owner EXCEPT ![h].inbox_commit = FALSE, ![h].awaiting = awaiting]
    BY <1>0, <1>8 DEF ReadBacklog
  <2> DEFINE o == [owner[h] EXCEPT !.inbox_commit = FALSE, !.awaiting = awaiting]
  <2>2. o \in Owner
    BY <1>0 DEF Owner
  <2>3. owner' = [owner EXCEPT ![h] = o]
    BY <2>1
  <2> QED
    BY <2>2, <2>3, OwnerWritten
<1>9. ASSUME NEW h \in Hosts, BacklogFails(h) PROVE OwnersTyped'
  BY <1>0, <1>9 DEF BacklogFails, OwnersTyped, Owner
<1>10. ASSUME NEW h \in Hosts,
              \/ ListRows(h) \/ ReadAcknowledged(h) \/ Bind(h) \/ Settle(h) \/ Restart(h)
              \/ \E id \in DeliveryIds : CommitUnsignalled(h, id)
              \/ \E r \in Recipients : ApplySink(h, r) \/ SkipMoved(h, r) \/ Release(h, r)
       PROVE  UNCHANGED owner
  BY <1>10 DEF ListRows, ReadAcknowledged, Bind, Settle, Restart, CommitUnsignalled, ApplySink,
               SkipMoved, Release
<1>11. ASSUME NEW id \in DeliveryIds, AcknowledgeApplied(id) PROVE UNCHANGED owner
  BY <1>11 DEF AcknowledgeApplied
<1>12. CASE Environment
  BY <1>1, <1>2, <1>3, <1>4, <1>5, <1>9, <1>10, <1>11, <1>12 DEF Environment
<1>13. ASSUME NEW h \in Hosts, OwnerStep(h) PROVE OwnersTyped'
  BY <1>1, <1>2, <1>7, <1>8, <1>10, <1>13 DEF OwnerStep
<1>14. CASE UNCHANGED vars
  BY <1>1, <1>14 DEF vars
<1> QED
  BY <1>6, <1>12, <1>13, <1>14 DEF Next

\* The invariant holds throughout.
LEMMA OwnerSafe == Spec => []OwnerInv
<1>1. Init => OwnersTyped
  BY DEF Init, OwnersTyped, Owner, ArmedOwner
<1> QED
  BY <1>1, OwnerInit, OwnerNext, OwnersTypedNext, PTL DEF Spec

\* Whatever the number of processes, sessions and rows, however often sessions
\* move and processes stop: a session sees the deliveries in inbox order, except
\* one that was settled otherwise (apply_pending, apply_record).
THEOREM SessionOrder == Spec => []EffectsInOrder
<1>1. OwnerInv => EffectsInOrder
  BY DEF OwnerInv
<1> QED
  BY <1>1, OwnerSafe, PTL

\* A recipient is recorded as applied only if its session admitted the delivery.
THEOREM TrueSettlements == Spec => []SettlementsAreTrue
<1>1. OwnerInv => SettlementsAreTrue
  BY DEF OwnerInv
<1> QED
  BY <1>1, OwnerSafe, PTL
=============================================================================
