SPECIFICATION FairSpec
CONSTANTS
  s1 = s1
  s2 = s2
  Sessions = {s1}
  NoSession = NoSession
  NumChannels = 1
  MaxDials = 1
  Targets = {4}
  IPv6 = {}
  MaxUp = 1
  MaxPending = 2
  MaxDown = 1
PROPERTY DisconnectIsNoticed
CHECK_DEADLOCK FALSE
