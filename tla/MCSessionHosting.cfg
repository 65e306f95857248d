SPECIFICATION Spec
CONSTANTS
    p1 = p1
    p2 = p2
    a = a
    b = b
    c = c
    ta1 = ta1
    ta2 = ta2
    tb = tb
    tc = tc
    Processes = {p1, p2}
    Owners = {a, b, c}
    ProcessOf <- MCProcessOf
    Tasks = {ta1, ta2, tb, tc}
    OwnerOf <- MCOwnerOf
    ConsentOwners = {a, c}
    None = None
    MaxLineages = 3
    MaxCrashes = 1
INVARIANTS
    HostHoldsLock
    NoLeakedLock
    AttachedIsSettled
PROPERTIES
    HostingIsExclusive
CHECK_DEADLOCK FALSE
