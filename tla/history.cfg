SPECIFICATION HSpec
CONSTANTS
  Name = {politics, uncategorized, label}
  NoName = NoName
  Shipped = {politics}
  Label = label
  Uncategorized = uncategorized
  Post = {p1, p2}
  MaxId = 3
  MaxEdits = 3
  MaxFailures = 1
  MaxViews = 1
INVARIANTS
  FinishedPageIsComplete
  GroupedAsDelivered
  PagesAgree
