SPECIFICATION BackupSpec
CONSTANTS
  Nil = Nil
  Calls = {k1}
  MaxBackups = 1
  MaxRequests = 2
  MaxFaults = 0
  MaxCrashes = 0
  MaxTroubles = 0
PROPERTIES OldestGoesFirst
CHECK_DEADLOCK FALSE
