SPECIFICATION Spec
CONSTANTS
    AttemptIds = {a1, a2}
    NoteIds = {}
    Keys = {}
    Subs = {}
    None = None
    LeaseTime = 1
    MaxTime = 5
    MaxAttempts = 2
    MaxFailures = 0
    Registrations = {r1, r2}
    MaxStarting = 1
PROPERTY CancellationIntentSurvives
