SPECIFICATION Spec
CONSTANTS
  n1 = n1
  n2 = n2
  n3 = n3
  Node = {n1, n2}
  Link <- Pair
  UpLink <- Pair
  MaxLinkDown = 0
  Tx = {1}
  TxBroadcasters = {}
  TxNumPerBlock = 1
  Initiators = {n1}
  MaxTxGen = 3
  MaxBlocks = 3
INVARIANTS TreesInSync
CHECK_DEADLOCK FALSE
