SPECIFICATION Spec
CONSTANTS
    AttemptIds = {a1, a2}
    NoteIds = {"terminal", "n1"}
    Keys = {k1}
    Subs = {s1}
    None = None
    Actors = {w1, w2}
    MaxTime = 3
    MaxCursor = 1
    MaxAttempts = 2
INVARIANTS
    TypeOK
    OutboxMatchesAuthority
    FencedAuthorship
    NotificationOncePerKey
    RestartClassHonoured
PROPERTIES
    TerminalOutcomeIsFinal
    LeasesNeverOverlap
    CancelBeatsOutcome
CHECK_DEADLOCK FALSE
SYMMETRY Symmetry
