SPECIFICATION Spec
CONSTANTS
  NumChannels = 2
  MaxKeys = 3
  MaxFaults = 2
  Domain <- MCDomain
  Answers <- MCAnswers
  FaultyAnswers <- MCFaultyAnswers
INVARIANTS TypeOK NeverWithoutKey KeyIsPublished
PROPERTY AllComeUp
CHECK_DEADLOCK FALSE
