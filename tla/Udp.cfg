SPECIFICATION FairSpec
CONSTANTS
  s1 = s1
  s2 = s2
  Sessions = {s1, s2}
  NoSession = NoSession
  NumChannels = 1
  MaxDials = 2
  Targets = {4}
  IPv6 = {}
  MaxUp = 2
  MaxPending = 1
  MaxDown = 2
CONSTRAINTS FewUnits Shared
INVARIANTS TypeOK ConnectedOnce AnswersInOrder BoundAgrees
PROPERTIES ClosedIsSilent EndsWithControl ConnectsOrEnds
CHECK_DEADLOCK FALSE
