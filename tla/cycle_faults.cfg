SPECIFICATION Spec
CONSTANTS
  c1 = c1
  c2 = c2
  k1 = k1
  k2 = k2
  Channel = {c1}
  MaxMsg = 2
  KeyOf <- OneKey
  Rejected <- NoneRejected
  BatchLimit = 2
  FaultKinds = {"crash", "shutdown", "store", "fetch", "send"}
  MaxFaults = 2
  ItemCap = 1
INVARIANTS
  CopiesPaidByFaults
  SettledContentStaysSettled
  SentIsRecorded
  PendingIsPaid
PROPERTIES
  StatusTellsTheTruth
  ImplementsQueue
