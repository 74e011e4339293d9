SPECIFICATION Spec
CONSTANTS
  c1 = c1
  c2 = c2
  k1 = k1
  k2 = k2
  Channel = {c1}
  MaxMsg = 1
  KeyOf <- SharedKey
  Rejected <- NoneRejected
  BatchLimit = 2
  FaultKinds = {"shutdown"}
  MaxFaults = 1
  ItemCap = 2
INVARIANTS
  DeliveredOnce
