\* Two bags of one collector: one queued before the start, one reviewed while
\* the sweep runs; the server may be killed once.
SPECIFICATION Spec
CONSTANTS
  c1 = c1
  c2 = c2
  k1 = k1
  k2 = k2
  ann = ann
  Collections = {c1, c2}
  Collectors = {ann}
  CollectorOf <- SameCollector
  Admin = admin
  RecordKeys = {k1, k2}
  RecordKey <- DistinctBags
  Nil = nil
  Sweeps = {s1}
  MaxAttempts = 2
  Batch = 2
  QueuedAtStart = {c1}
  Deletable = {}
  MaxReviews = 1
  MaxFaults = 0
  MaxCrashes = 1
INVARIANTS
  TypeOK
  OneWorkerPerCollection
  OneSubmissionPerSigner
PROPERTIES
  PaidIsFinal
  ImplementsPayout
\* The model stops when nobody asks for anything: an idle server waits.
CHECK_DEADLOCK FALSE
