SPECIFICATION Spec
CONSTANTS
  n1 = n1
  n2 = n2
  n3 = n3
  Node = {n1, n2, n3}
  Link <- Line
  UpLink = {}
  MaxLinkDown = 1
  Tx = {1}
  TxBroadcasters = {}
  TxNumPerBlock = 1
  Initiators = {n1, n3}
  MaxTxGen = 2
  MaxBlocks = 2
INVARIANTS TypeOK ParentsHeld TipIsLongest ArrivingBlockFits CommonBlockExists OneRequest MinerAtMostOneBehind RequestedBlockHeld
PROPERTIES ImplementsLongestChain
CHECK_DEADLOCK FALSE
