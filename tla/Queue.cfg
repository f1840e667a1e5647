SPECIFICATION SpecPart
CONSTANTS
  Parts = {"cancel", "dispatch", "workers", "capacity", "busy", "wait", "routing", "resume"}
  r1 = r1
  r2 = r2
  k1 = k1
  k2 = k2
  c1 = c1
  c2 = c2
  a1 = a1
  w1 = w1
  w2 = w2
  d1 = d1
  d2 = d2
  NoWorker = NoWorker
  Runs = {r1, r2}
  Keys = {k1, k2}
  Callers = {c1, c2}
  Abandoners = {}
  MaxVersion = 1
  MaxCalls = 2
  MaxLosses = 0
CHECK_DEADLOCK FALSE
INVARIANTS
  ReceiptsHold
  
  
PROPERTIES
  
  ResumeHonest
