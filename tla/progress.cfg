\* Two bags of one collector with the same material and weight, so that the
\* contract refuses the second for a while; overlapping sweeps of one row each.
SPECIFICATION FairSpec
CONSTANTS
  c1 = c1
  c2 = c2
  k1 = k1
  k2 = k2
  ann = ann
  Collections = {c1, c2}
  Collectors = {ann}
  CollectorOf <- SameCollector
  Admin = admin
  RecordKeys = {k1, k2}
  RecordKey <- SameBags
  Nil = nil
  Sweeps = {s1, s2}
  MaxAttempts = 2
  Batch = 1
  QueuedAtStart = {c1, c2}
  Deletable = {}
  MaxReviews = 0
  MaxFaults = 0
  MaxCrashes = 0
PROPERTIES
  ComesToRest
\* The model stops when nobody asks for anything: an idle server waits.
CHECK_DEADLOCK FALSE
