\* One collection, six failed calls, the code's five attempts, and a sweep that starts
\* before the one before has ended.
SPECIFICATION Spec
CONSTANTS
  c1 = c1
  c2 = c2
  k1 = k1
  k2 = k2
  ann = ann
  Collections = {c1}
  Collectors = {ann}
  CollectorOf <- SameCollector
  Admin = admin
  RecordKeys = {k1, k2}
  RecordKey <- DistinctBags
  Nil = nil
  Sweeps = {s1, s2}
  MaxAttempts = 5
  Batch = 2
  QueuedAtStart = {c1}
  Deletable = {}
  MaxReviews = 1
  MaxFaults = 6
  MaxCrashes = 0
INVARIANTS
  AttemptsBounded
\* The model stops when nobody asks for anything: an idle server waits.
CHECK_DEADLOCK FALSE
