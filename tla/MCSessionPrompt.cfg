SPECIFICATION Spec
CONSTANTS
  Callers = {c1}
  None = None
CHECK_DEADLOCK FALSE
PROPERTIES
  StagedPromptNeverLost
