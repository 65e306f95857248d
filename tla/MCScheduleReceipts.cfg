SPECIFICATION Spec
CONSTANTS
  None = None
  ReclaimCap = 2
  MaxAttempts = 2
  MaxFaults = 0
  MaxEdits = 1
INVARIANTS
  OneTerminalReceipt
CHECK_DEADLOCK FALSE
