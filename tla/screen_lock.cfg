SPECIFICATION Spec
CONSTANTS
  Locker = {l1, l2}
  l1 = l1
  l2 = l2
  Char = {"x"}
  Password <- Right
  MaxTyped = 2
  Env = {{"typing", "crash"}, {"typing", "undrawn"}, {"typing", "no_user"}, {"typing", "idle"},
         {"idle", "crash", "foreign"}}
  None = None
INVARIANTS
  UnlockValid
  PromptForgets
PROPERTIES
  LockHeld
  LockAnswered
  IdleLocks
