SPECIFICATION Spec

CONSTANTS
  Conn = {c1, c2}
  Window = {w1}
  Backlog = 1
  Steps = 1
  Env = {{"stall", "gone", "windows", "hide"},
         {"stall", "gone", "server", "metrics", "captured"},
         {"gone", "drag", "pick", "garbage"}}
  None = None

INVARIANTS
  AnsweredOnce
  NoMissedWindow
  DragReleases
  GateNeedsServer
PROPERTIES
  ReplyNotCut
  LingerEnds
CHECK_DEADLOCK FALSE
