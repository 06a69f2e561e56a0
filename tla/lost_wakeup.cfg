\* One collection approved while a sweep is finding nothing, one failed call.
SPECIFICATION FairSpec
CONSTANTS
  c1 = c1
  c2 = c2
  k1 = k1
  k2 = k2
  ann = ann
  Collections = {c1}
  Collectors = {ann}
  CollectorOf <- SameCollector
  Admin = admin
  RecordKeys = {k1, k2}
  RecordKey <- DistinctBags
  Nil = nil
  Sweeps = {s1}
  MaxAttempts = 2
  Batch = 2
  QueuedAtStart = {}
  Deletable = {}
  MaxReviews = 1
  MaxFaults = 1
  MaxCrashes = 0
PROPERTIES
  Settled
\* The model stops when nobody asks for anything: an idle server waits.
CHECK_DEADLOCK FALSE
