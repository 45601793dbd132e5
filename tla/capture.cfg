SPECIFICATION Spec
CONSTANTS
  Stream = {s1}
  Graft = {g1}
  Copier = {c1}
  Region = {r1, r2}
  Paint = {a, b}
  Mode = {1, 2}
  s1 = s1
  g1 = g1
  c1 = c1
  r1 = r1
  r2 = r2
  a = a
  b = b
  Env = {{"stream", "lock", "gate", "stall"},
         {"graft", "lock", "gate", "stall"}, {"copy", "lock", "gate", "mode"}}
  None = None
INVARIANTS
  StreamExact
  CopyExact
PROPERTIES
  LockHides
  CatchesUp
