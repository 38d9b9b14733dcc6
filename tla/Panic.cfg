SPECIFICATION Spec
CONSTANTS
  s1 = s1
  s2 = s2
  l1 = l1
  Sessions = {s1}
  NoSession = NoSession
  NumChannels = 2
  MaxDials = 1
  Kinds = {"tcp"}
  Listeners = {l1}
  ListenerOf <- OneListener
  MaxUp = 1
  MaxDown = 0
INVARIANT NoPanic
CHECK_DEADLOCK FALSE
