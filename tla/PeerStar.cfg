SPECIFICATION Spec
CONSTANTS
  n1 = n1
  n2 = n2
  n3 = n3
  Node = {n1, n2, n3}
  Neighbors <- Mesh
  MayExit = {}
  MaxConn = 2
  MaxFailed = 0
  MaxOutgoing = 8
  MaxIncoming = 1
  StaleFD = {0}
INVARIANTS SocketOfItsPeer
PROPERTIES TurnedAwayWhenFull
SYMMETRY Symmetry
CHECK_DEADLOCK FALSE
