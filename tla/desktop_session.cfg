SPECIFICATION Spec

CONSTANTS
  Window = {w1, x1}
  w1 = w1
  x1 = x1
  X11 = {x1}
  NumWorkspaces = 2
  None = None
  Layer = Layer
  LockSurface = LockSurface
  Off = Off
  Env = {"layer", "lock", "graft", "picker"}

INVARIANTS
  PickerEndsAtLock
PROPERTIES
  LockKeepsFocus
