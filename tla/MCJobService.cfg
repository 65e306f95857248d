SPECIFICATION ServiceSpec
CONSTANTS
    AttemptIds = {a1, a2}
    NoteIds = {"terminal"}
    Keys = {k1}
    Subs = {s1}
    None = None
    Actors = {w1, w2}
    MaxTime = 3
    MaxCursor = 1
    MaxAttempts = 2
    MaxRevision = 6
SYMMETRY Symmetry
PROPERTIES
    CallsAreAtomic
CHECK_DEADLOCK FALSE
