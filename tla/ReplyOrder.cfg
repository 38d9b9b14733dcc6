SPECIFICATION Spec
CONSTANTS
  s1 = s1
  s2 = s2
  l1 = l1
  Sessions = {s1}
  NoSession = NoSession
  NumChannels = 1
  MaxDials = 1
  Kinds = {"connect"}
  Listeners = {l1}
  ListenerOf <- OneListener
  MaxUp = 1
  MaxDown = 1
INVARIANT ReplyFirst
CHECK_DEADLOCK FALSE
