SPECIFICATION FairSpec
CONSTANTS
  n1 = n1
  n2 = n2
  n3 = n3
  Node = {n1, n2, n3}
  Link <- Line
  UpLink = {}
  MaxLinkDown = 0
  Tx = {1}
  TxBroadcasters = {}
  TxNumPerBlock = 1
  Initiators = {n1, n3}
  MaxTxGen = 2
  MaxBlocks = 2
PROPERTIES ProcessingEnds NetworkQuiets
CHECK_DEADLOCK FALSE
