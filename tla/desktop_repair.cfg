SPECIFICATION Spec

CONSTANTS
  Window = {w1, x1}
  w1 = w1
  x1 = x1
  X11 = {x1}
  NumWorkspaces = 2
  None = None
  Layer = Layer
  LockSurface = LockSurface
  Off = Off
  Env = {"hidden_layout", "hidden_sticky", "late_rule", "x11_rule", "drag"}

INVARIANTS
  TypeOK
  NoWindowLost
PROPERTIES
  SwitchRestoresScene
  SwitchFocusesVisible
