SPECIFICATION Spec
CONSTANTS
  s1 = s1
  s2 = s2
  l1 = l1
  Sessions = {s1, s2}
  NoSession = NoSession
  NumChannels = 1
  MaxDials = 1
  Kinds = {"tcp", "connect"}
  Listeners = {l1}
  ListenerOf <- OneListener
  MaxUp = 1
  MaxDown = 0
SYMMETRY Symmetric
INVARIANTS BoundAgrees OnOwnConnection EstablishedIsReal
CHECK_DEADLOCK FALSE
