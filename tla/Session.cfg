SPECIFICATION FairSpec
CONSTANTS
  s1 = s1
  s2 = s2
  l1 = l1
  Sessions = {s1}
  NoSession = NoSession
  NumChannels = 1
  MaxDials = 2
  Kinds = {"tcp"}
  Listeners = {l1}
  ListenerOf <- OneListener
  MaxUp = 2
  MaxDown = 1
INVARIANTS NoPanic ForgottenIsClosed
PROPERTIES CloseLosesNothing ImplementsRelay RelayIsReleased BrokenIsCleaned HangupReachesApp MapsAreCleaned
CHECK_DEADLOCK FALSE
