SPECIFICATION Spec
CONSTANTS
  Machine = {m1, m2}
  m1 = m1
  m2 = m2
  Width <- Widths
  Key = {}
  Super = Super
  Axis = Axis
  Button = {b}
  b = b
  Cap = 2
  Env = {{}}
INVARIANTS
  ViewFollowsMachine
CHECK_DEADLOCK TRUE
