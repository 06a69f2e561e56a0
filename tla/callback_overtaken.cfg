SPECIFICATION Spec
CONSTANTS
  Nil = Nil
  Collections = {c1}
  Calls = {k1, k2}
  Configured = {"AIRTEL_MONEY"}
  MemoLimit = 64
  MaxDeliveries = 1
  MaxRequests = 1
  MaxFaults = 0
  MaxCrashes = 0
  MaxTroubles = 0
INVARIANT CallbackIsKept
CHECK_DEADLOCK FALSE
