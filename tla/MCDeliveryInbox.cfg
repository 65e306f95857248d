SPECIFICATION Spec
CONSTANTS
    DeliveryIds = {d1, d2, d3}
    Recipients = {r1, r2}
    None = None
    Callers = {c1, c2}
    SourceSequences = {1, 2}
    MaxRevision = 6
INVARIANTS
    AuthorityDecodes
PROPERTIES
    SettlementIsFinal
    AcknowledgedNeverExecutes
    InboxIsOrdered
CHECK_DEADLOCK FALSE
SYMMETRY Symmetry
