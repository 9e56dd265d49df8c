SPECIFICATION Spec
CONSTANTS
  p1 = p1
  l1 = l1
  l2 = l2
  v = v
  Me = me
  Absent = Absent
  NoEntry = NoEntry
  Never = Never
  Peer <- OnePeer
  Leaf <- OneLeaf
  Value <- OneValue
  LocalAdverts <- OneService
  PeerAdverts <- OneService
  Asking <- NoPeer
  Debounce = 2
  PruneAge = 2
  Interval = 1
  BroadcastEvery = 9
  MaxTime = 3
  MaxEdits = 1
  MaxFaults = 0
INVARIANT AdoptsLatest
