SPECIFICATION SpecPart
CONSTANTS
  Parts = {"withdrawal", "events", "senders", "list", "cap", "leave", "join", "automations", "outcomes", "migrations", "profiles", "consent", "drift", "errand"}
  chat = chat
  task = task
  output = output
  note = note
  s1 = s1
  s2 = s2
  d1 = d1
  d2 = d2
  w1 = w1
  c1 = c1
  c2 = c2
  q1 = q1
  q2 = q2
  a1 = a1
  a2 = a2
  tool = tool
  p1 = p1
  p2 = p2
  keyed = keyed
  unkeyed = unkeyed
  errand = errand
  k1 = k1
  k2 = k2
  NoSession = NoSession
  Sessions = {chat, task}
  Parent <- TreeParent
  Files = {output, note}
  Owner <- TreeOwner
  Kind <- TreeKind
  Drivers = {d1, d2}
  MaxWrites = 0
  MaxFaults = 1
  LateWrites = TRUE
CHECK_DEADLOCK FALSE
INVARIANTS
  ChildrenFirst
PROPERTIES
  DeletedOnce
  
  
  FiringsHeld
  
  ConsentHeld
