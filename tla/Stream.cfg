SPECIFICATION FairSpec
CONSTANTS
  n1 = n1
  n2 = n2
  Node = {n1, n2}
  Dials <- BothWays
  Miners = {n1}
  Timed = {n1}
  MayCut = {n2}
  MaxConn = 2
  MaxMsg <- TwoAndOne
  MaxTalk = 1
  Sizes = {2}
  MagicSize = 1
  ReadSize = 2
  Capacity = 4
INVARIANTS RoundsInOrder EventsOfLiveSockets CloseAfterMessages
PROPERTIES TaintedByDisconnect LostOnlyAfterFullRead ImplementsMessageStream EverythingHandled
CHECK_DEADLOCK FALSE
