SPECIFICATION Spec
CONSTANTS
  None = None
  ReclaimCap = 2
  MaxAttempts = 6
  MaxFaults = 2
  MaxEdits = 1
INVARIANTS
  ReceiptsTellTheEnd
  CompletedMeansCompleted
  AdmittedNeverMisfires
PROPERTIES
  StaleAttemptsInert
  OccurrenceEnds
CHECK_DEADLOCK FALSE
