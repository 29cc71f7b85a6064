SPECIFICATION MCSpec
CONSTANTS
  i1 = i1
  i2 = i2
  u1 = u1
  u2 = u2
  t1 = t1
  t2 = t2
  None = None
  Installations <- MCInstallations
  Urls <- MCUrls
  Tokens <- MCTokens
  MaxVersion = 1
  MaxEvents = 3
INVARIANTS
  TypeOK
  StreamFollowsEntry
  CoordFollowsEntry
  StoredWasProbed
PROPERTIES
  RegressOnlyInFlight
  Converges
  RejectionAsksForToken
  IssueTracksSchema
CHECK_DEADLOCK FALSE
