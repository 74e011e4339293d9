SPECIFICATION FairSpec
CONSTANTS
  NoChannel = NoChannel
  Channel = {c1, c2}
  MaxBuffered = 2
  FaultKinds = {"restart", "store"}
  MaxUpdates = 3
  MaxFaults = 2
INVARIANTS
  Accounted
  CursorSafe
PROPERTIES
  ImplementsFeed
  EveryPostStored
