SPECIFICATION AccountSpec
CONSTANTS
  Nil = Nil
  Calls = {k1, k2}
  MaxRequests = 3
  MaxFaults = 1
  MaxCrashes = 1
  MaxTroubles = 1
  Phones = {t1, t2, t3}
  AdminPhone = t1
  Verifier = t2
  Collector = t3
  FirstAccounts <- TwoAccounts
SYMMETRY AlikeCalls
INVARIANTS
  AccountTypeOK
  TokensMatchAccounts
  PictureExists
PROPERTIES
  RoleIsItsUsers
  ActivatedByStaff
  ApprovalIsKept
  RevokedForGood
CHECK_DEADLOCK FALSE
