SPECIFICATION FairSpec
CONSTANTS
  root = root
  child = child
  elder = elder
  None = None
  Threads <- MCThreads
  Parent <- MCParent
  Statuses <- MCStatuses
  HookEvents <- MCHookEvents
  MaxChanges = 2
  MaxRequests = 2
INVARIANTS TypeOK AttentionVisible ActivityAnnounced WorkflowsShareRoots
PROPERTY EventuallyTrue
CHECK_DEADLOCK FALSE
