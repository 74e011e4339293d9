SPECIFICATION FairSpec
CONSTANTS
  Intervals = {2, 3}
  EnvInterval = 3
  MaxDelay = 1
  Horizon = 5
  MaxChanges = 1
  MaxStops = 2
INVARIANTS
  OneCycleAtATime
  WindowsAdvance
  WindowsKeepApart
PROPERTIES
  IntervalFollowsSetting
  CyclesRecur
