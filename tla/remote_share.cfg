SPECIFICATION FairSpec
CONSTANTS
  Device = {kb}
  Injected = Injected
  Code = {k}
  Chords = {}
  Session = {s1, s2}
  Env = {"lease", "arm_fails", "crash"}
  MaxNotices = 1
  kb = kb
  k = k
  s1 = s1
  s2 = s2
INVARIANT TypeOK
INVARIANT DownExact
INVARIANT ViewerCountHonest
PROPERTY ViewersShareSeat
PROPERTY ConsentEndsSessions
PROPERTY IdleLeaseEnds
CHECK_DEADLOCK TRUE
