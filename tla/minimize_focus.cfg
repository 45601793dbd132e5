SPECIFICATION Spec

CONSTANTS
  Window = {w1, w2}
  w1 = w1
  w2 = w2
  X11 = {}
  NumWorkspaces = 2
  None = None
  Layer = Layer
  LockSurface = LockSurface
  Off = Off
  Env = {}

SYMMETRY XdgWindows

PROPERTIES
  MinimizeSurrendersFocus
