SPECIFICATION Spec
CONSTANTS
  n1 = n1
  n2 = n2
  n3 = n3
  Node = {n1, n2}
  Neighbors <- BothWays
  MayExit = {n2}
  MaxConn = 3
  MaxFailed = 1
  MaxOutgoing = 8
  MaxIncoming = 10
  StaleFD = {0}
INVARIANTS TypeOK CountersAgree AbortExplained
PROPERTIES AnsweringPeerKept
CHECK_DEADLOCK FALSE
