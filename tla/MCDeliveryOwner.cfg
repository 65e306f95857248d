SPECIFICATION Spec
CONSTANTS
    DeliveryIds = {d1}
    Recipients = {r1, r2}
    Targets <- AllRecipients
    None = None
    Hosts = {h1, h2}
    Page = 1
    Verdicts = {"Applied", "Refused"}
    MaxFaults = 1
INVARIANTS
    SettlementsAreTrue
PROPERTIES
    NoRowSleeps
CHECK_DEADLOCK FALSE
