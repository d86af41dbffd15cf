SPECIFICATION FairSpec
CONSTANTS
  n1 = n1
  n2 = n2
  n3 = n3
  n4 = n4
  Node = {n1, n2, n3, n4}
  Link <- Ring
  UpLink <- Ring
  MaxLinkDown = 1
  Tx = {1, 2}
  TxBroadcasters = {n1, n2, n3, n4}
  Generators = {n1}
  MaxTxGen = 2
INVARIANTS TypeOK AnnouncedHeld NoTxForgotten
PROPERTIES TxReachesAll GossipQuiets
