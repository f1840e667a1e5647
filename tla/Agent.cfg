SPECIFICATION SpecPart
CONSTANTS
  Parts = {"locks", "inbox", "profile", "belief", "evidence", "front", "cache", "loop", "context", "recall", "openai", "ollama", "connection"}
  p1 = p1
  p2 = p2
  p3 = p3
  k1 = k1
  k2 = k2
  e1 = e1
  e2 = e2
  e3 = e3
  c1 = c1
  c2 = c2
  va = va
  vb = vb
  absent = absent
  nobody = nobody
  user = user
  m1 = m1
  m2 = m2
  t1 = t1
  t2 = t2
  t3 = t3
  Keys = {k1, k2}
  NoKey = NoKey
  NoEntry = NoEntry
  Callers = {p1, p2, p3}
  Entries = {e1, e2, e3}
CHECK_DEADLOCK FALSE
INVARIANTS
  TableExact
  EffectsOnce
  
PROPERTIES
  ImplementsMutex
  VaultKept
  
  StreamsKeepPromise
