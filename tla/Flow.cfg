SPECIFICATION FairSpec
CONSTANTS
  s1 = s1
  NoSession = NoSession
  u1 = u1
  Sessions = {s1}
  Assocs = {u1}
  Apps = {s1}
  Targets = {s1}
  UpCap = 1
  DownCap = 1
CONSTRAINT Apart
INVARIANTS TypeOK StandstillHasCause
PROPERTIES CrossedForEver ReadLoopsComeBack
CHECK_DEADLOCK FALSE
