SPECIFICATION Spec
CONSTANTS
  n1 = n1
  n2 = n2
  n3 = n3
  Node = {n1, n2}
  Link <- Pair
  UpLink = {}
  MaxLinkDown = 0
  Tx = {1, 2}
  TxBroadcasters = {n1, n2}
  TxNumPerBlock = 2
  Initiators = {n1, n2}
  MaxTxGen = 2
  MaxBlocks = 2
INVARIANTS BlocksFull
CHECK_DEADLOCK FALSE
