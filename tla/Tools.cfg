SPECIFICATION SpecPart
CONSTANTS
  Parts = {"approval", "registry", "drops", "credentials", "owned", "writes", "apart", "search", "files"}
  NoSession = NoSession
  NoCall = NoCall
  chat = chat
  output = output
  scratch = scratch
  note = note
  va = va
  vb = vb
  old = old
  c1 = c1
  c2 = c2
  c3 = c3
  p1 = p1
  p2 = p2
  p3 = p3
  t1 = t1
  t2 = t2
  w1 = w1
  None = None
  Automation = Automation
  Unavailable = Unavailable
  People = {p1}
  MaxChanges = 1
  MaxOpens = 2
  MaxGrants = 1
CHECK_DEADLOCK FALSE
INVARIANTS
  ShownIsGranted
  CredentialsFenced
PROPERTIES
  PreviewHolds
  
  
