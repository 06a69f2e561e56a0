\* One collection and everything that can go wrong with it: two reviewers at
\* once, a deletion, two failures of any kind, a crash.
SPECIFICATION Spec
CONSTANTS
  c1 = c1
  c2 = c2
  k1 = k1
  k2 = k2
  ann = ann
  Collections = {c1}
  Collectors = {ann}
  CollectorOf <- SameCollector
  Admin = admin
  RecordKeys = {k1, k2}
  RecordKey <- DistinctBags
  Nil = nil
  Sweeps = {s1}
  MaxAttempts = 2
  Batch = 2
  QueuedAtStart = {}
  Deletable = {c1}
  MaxReviews = 2
  MaxFaults = 2
  MaxCrashes = 1
INVARIANTS
  StatusBackedByLedger
  MintedForOneRecord
PROPERTIES
  LedgerIdKept
  
\* The model stops when nobody asks for anything: an idle server waits.
CHECK_DEADLOCK FALSE
