SPECIFICATION FairSpec
CONSTANTS
  Page = {page}
  Script = {script}
  Bot = Bot
  Interval = {short, long}
  Chat = {none, user, group}
  Label = {uncategorized}
  NoChat = none
  Group = {group}
  SeedInterval = short
  SeedLabel = uncategorized
  Bad = Bad
  Unset = Unset
  Env = {env1, env2}
  FirstEnv = env1
  NoRow = NoRow
  MaxRequests = 2
  MaxMessages = 2
  MaxFaults = 1
INVARIANTS
  LostOnlyToStaleWriter
PROPERTIES
  DiscoveredIsStored
