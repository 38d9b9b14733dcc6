SPECIFICATION Spec
CONSTANTS
  s1 = s1
  s2 = s2
  Sessions = {s1}
  NoSession = NoSession
  NumChannels = 1
  MaxDials = 1
  Targets = {4, 6}
  IPv6 = {6}
  MaxUp = 2
  MaxPending = 2
  MaxDown = 0
INVARIANT OnePacketEach
CHECK_DEADLOCK FALSE
