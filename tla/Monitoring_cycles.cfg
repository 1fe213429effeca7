SPECIFICATION MCSpec
CONSTANTS
  d1 = d1
  d2 = d2
  r1 = r1
  r2 = r2
  Cycles = {d1, d2}
  Watched <- MCWatched
  Recorders = {r1, r2}
  BaseScores = {10, 50}
  Often = 1
  Persistent = 2
INVARIANTS TypeOK
PROPERTIES SilenceIsReported WhatIsOverIsResolved ThreatIsReported
