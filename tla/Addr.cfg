SPECIFICATION FairSpec
CONSTANTS
  n1 = n1
  n2 = n2
  n3 = n3
  Node = {n1, n2, n3}
  Link <- AllPairs
  UpLink = {}
  MaxLinkDown = 2
  Slot <- SharedSlot
  Neighbors <- Line
  MaxRelayed = 1
INVARIANTS TableOfOthers ToldWhatItKnows
PROPERTIES OwnAddressArrives AdvertisingQuiets
CHECK_DEADLOCK FALSE
