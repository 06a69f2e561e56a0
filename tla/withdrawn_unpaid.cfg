SPECIFICATION Spec
CONSTANTS
  Nil = Nil
  Collections = {c1}
  Calls = {k1, k2}
  Configured = {"MPESA"}
  MemoLimit = 28
  MaxDeliveries = 1
  MaxRequests = 2
  MaxFaults = 1
  MaxCrashes = 0
  MaxTroubles = 1
INVARIANT WithdrawnIsPaidOut
CHECK_DEADLOCK FALSE
