SPECIFICATION FairSpec
CONSTANTS
  Name = {politics, uncategorized, label}
  NoName = NoName
  Shipped = {politics}
  Label = label
  Uncategorized = uncategorized
  Post = {p1, p2}
  MaxId = 4
  MaxEdits = 4
  MaxFailures = 1
INVARIANTS
  References
  FiledAsDelivered
  MissingOnlyIfPulled
PROPERTIES
  EveryPostDelivered
