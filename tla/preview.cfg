SPECIFICATION FairSpec
CONSTANTS
  MaxId = 5
  PageSize = 2
  MaxPages = 2
  MinInterval = 2
  MaxDeletes = 1
  MaxGlitches = 1
  MaxFailures = 1
  MaxChecks = 1
INVARIANTS
  SkippedOnlyWithCause
PROPERTIES
  ImplementsFeed
  BatchMovesCursor
  CallersKeepInterval
  PostIsCaptured
