CONSTANTS
  FailureThreshold = 0
  BackoffCap = 5
  MaxFaults = 5
SPECIFICATION Spec
PROPERTY RecoveryAnnounced
CHECK_DEADLOCK FALSE
