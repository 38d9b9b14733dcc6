SPECIFICATION Spec
CONSTANTS
  s1 = s1
  s2 = s2
  l1 = l1
  Sessions = {s1}
  NoSession = NoSession
  NumChannels = 2
  MaxDials = 2
  Kinds = {"forward"}
  Listeners = {l1}
  ListenerOf <- OneListener
  MaxUp = 1
  MaxDown = 0
INVARIANTS TypeOK OneRequest OnBoundChannel
PROPERTIES DialledOnce
CHECK_DEADLOCK FALSE
