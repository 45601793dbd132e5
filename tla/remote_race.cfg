SPECIFICATION Spec
CONSTANTS
  Device = {}
  Injected = Injected
  Code = {k}
  Chords = {}
  Session = {s1, s2}
  Env = {"quick", "decoupled", "accept_fails"}
  MaxNotices = 1
  k = k
  s1 = s1
  s2 = s2
SYMMETRY Interchangeable
INVARIANT NothingWithoutConsent
INVARIANT CountsExact
CHECK_DEADLOCK TRUE
