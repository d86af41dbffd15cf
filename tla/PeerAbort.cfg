SPECIFICATION Spec
CONSTANTS
  n1 = n1
  n2 = n2
  n3 = n3
  Node = {n1, n2}
  Neighbors <- BothWays
  MayExit = {}
  MaxConn = 2
  MaxFailed = 0
  MaxOutgoing = 8
  MaxIncoming = 10
  StaleFD = {0}
INVARIANTS ConnectedSocketHasPeer
CHECK_DEADLOCK FALSE
