SPECIFICATION Spec
CONSTANTS
    DeliveryIds = {1, 2}
    Recipients = {r1}
    None = None
    Hosts = {h1, h2}
    Shells = {h1}
    MaxGap = 2
    MaxFaults = 1
INVARIANTS
    InboxKeepsJobOrder
    AppliedMeansCommitted
    ProducerEffectOnce
PROPERTIES
    EntriesReachInbox
CHECK_DEADLOCK FALSE
