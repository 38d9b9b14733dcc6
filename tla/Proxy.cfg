SPECIFICATION FairSpec
CONSTANTS
  Scripts <- MCScripts
  Packets <- MCPackets
  Sources <- MCSources
INVARIANTS TypeOK OnlyRequestsAreServed RequestsAreServed NothingIsLost DatagramIsRead AnswerIsReadable
PROPERTIES SilenceIsAllowed HandshakeEnds
CHECK_DEADLOCK FALSE
