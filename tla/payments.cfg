SPECIFICATION Spec
CONSTANTS
  Nil = Nil
  Collections = {c1}
  Calls = {k1, k2}
  Configured = {"MPESA", "AIRTEL_MONEY"}
  MemoLimit = 64
  MaxDeliveries = 2
  MaxRequests = 3
  MaxFaults = 1
  MaxCrashes = 1
  MaxTroubles = 1
SYMMETRY AlikeCalls
INVARIANTS
  TypeOK
  PaymentsAreBooked
  CompletedIsBacked
  OneOrderPerRow
  SuccessIsTrue
  ReportedIsPaidOut
PROPERTY CallbackSettlesItsRow
CHECK_DEADLOCK FALSE
