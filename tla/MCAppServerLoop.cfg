CONSTANTS
  FailureThreshold = 0
  BackoffCap = 5
  MaxFaults = 5
SPECIFICATION Spec
INVARIANTS
  TypeOK
  NoLeakedChild
  ConnectedHasClient
PROPERTIES
  EventuallyConnected
  ShutdownStops
CHECK_DEADLOCK FALSE
