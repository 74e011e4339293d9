SPECIFICATION Spec
CONSTANTS
  Category = {tech, other}
  NoCategory = NoCategory
  Uncategorized = other
  MaxItems = 4
  Lengths = {1, 5}
  MaxSummary = 3
  Frame = 2
  HeadingSize = 3
  HeaderSize = 2
  ContinuedSize = 3
  FooterSize = 3
  SingleLimit = 7
  SoftLimit = 14
  HardLimit = 18
INVARIANTS
  TypeOK
  PackedInOrder
  UnderItsHeading
  FitsTelegram
CHECK_DEADLOCK FALSE
