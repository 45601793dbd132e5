SPECIFICATION FairSpec
CONSTANTS
  Job = {j1, j2}
  j1 = j1
  j2 = j2
  Pipe = {out, err}
  out = out
  err = err
  MaxOut = 2
  Env = {{"alone", "command", "timeout", "output", "stray", "closes", "gone"}, {"alone", "command", "timeout", "group", "output"}, {"confirm", "gone", "detach"}, {"command", "shot", "detach"}}
  None = None
INVARIANTS
  ReplyComplete
PROPERTIES
  CommandAnswered
  NoZombies
  LoopComesBack
CHECK_DEADLOCK FALSE
