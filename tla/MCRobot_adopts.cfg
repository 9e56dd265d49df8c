SPECIFICATION FairSpec
CONSTANTS
  p1 = p1
  l1 = l1
  l2 = l2
  v = v
  Me = me
  Absent = Absent
  NoEntry = NoEntry
  Never = Never
  Peer <- OnePeer
  Leaf <- TwoLeaves
  Value <- OneValue
  LocalAdverts <- SameService
  PeerAdverts <- Swapped
  Asking <- NoPeer
  Debounce = 1
  PruneAge = 0
  Interval = 1
  BroadcastEvery = 9
  MaxTime = 0
  MaxEdits = 2
  MaxFaults = 1
INVARIANT AdoptedWasExposed
PROPERTY EventuallyAdopted
