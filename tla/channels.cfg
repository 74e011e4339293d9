SPECIFICATION FairSpec
CONSTANTS
  Handle = {news, News}
  Channel = {cnews}
  ChannelOf <- MCChannelOf
  NoHandle = NoHandle
  MaxId = 3
  MaxMsg = 2
  MaxFailures = 1
INVARIANTS
  References
  CursorPassesNothing
  NoRecapture
PROPERTIES
  SelectedIsCaptured
