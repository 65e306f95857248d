SPECIFICATION Spec
CONSTANTS
  Callers = {c1, c2}
  None = None
CHECK_DEADLOCK FALSE
INVARIANTS
  AdmittedHasOneOwner
  InterruptedNeverSucceeds
  PromptLandsOnce
PROPERTIES
  InterruptEndsTurn
  ArchivedTaskExits
  SuspensionKept
