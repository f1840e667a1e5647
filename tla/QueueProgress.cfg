SPECIFICATION FairPart
CONSTANTS
  Parts = {"cancel", "ends", "waitEnds", "resume"}
  r1 = r1
  r2 = r2
  k1 = k1
  k2 = k2
  c1 = c1
  c2 = c2
  a1 = a1
  w1 = w1
  w2 = w2
  d1 = d1
  d2 = d2
  NoWorker = NoWorker
  Runs = {r1}
  Keys = {k1}
  Callers = {c1}
  Abandoners = {a1}
  MaxVersion = 3
  MaxCalls = 1
  MaxLosses = 1
CHECK_DEADLOCK FALSE
PROPERTIES
  EndedForGood
  WorkEnds
