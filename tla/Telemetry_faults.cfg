SPECIFICATION FairSpec
CONSTANTS
  s1 = s1
  s2 = s2
  m1 = m1
  f1 = f1
  f2 = f2
  Syncs = {s1, s2}
  Threshold = 2
  Responses = {m1}
  Flushes = {f1, f2}
  MaxCrashes = 1
INVARIANTS TypeOK MetricStoredOnce
PROPERTIES OutageIsReported RecoveryCloses
