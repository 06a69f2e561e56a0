SPECIFICATION Spec
CONSTANTS
  Nil = Nil
  Calls = {k1, k2}
  MaxRequests = 3
  MaxFaults = 1
  MaxCrashes = 1
  MaxTroubles = 1
  Users = {u1}
  Points = {d1}
  DemoSize = 2
  MaxTime = 3
  WindowMs = 1
  MaxPerWindow = 1
  TTL = 2
  MaxBackups = 1
SYMMETRY AlikeCalls
INVARIANTS
  ServicesTypeOK
  WalletIsWhole
  WalletsBounded
  ReadyIsActive
  RegistersOnce
  PointAddressKept
  PassportsBounded
  GraphLagsOnlyByFailure
  DemoQueueBounded
  LimiterHolds
  PublicFiguresAreRecent
  KeysExpire
  RestoredIsWhole
  CatalogIsTrue
PROPERTIES
  LostToOverlapOnly
  RevokedByOutageOnly
CHECK_DEADLOCK FALSE
