SPECIFICATION Spec
CONSTANTS
  p1 = p1
  l1 = l1
  l2 = l2
  v = v
  Me = me
  Absent = Absent
  NoEntry = NoEntry
  Never = Never
  Peer <- OnePeer
  Leaf <- OneLeaf
  Value <- OneValue
  LocalAdverts <- NoService
  PeerAdverts <- OneService
  Asking <- OnePeer
  Debounce = 2
  PruneAge = 1
  Interval = 9
  BroadcastEvery = 9
  MaxTime = 2
  MaxEdits = 1
  MaxFaults = 1
INVARIANTS TypeOK SaveInv ClockInv HeardInv AdoptsUnlessBehind LivePeerKept
  AnnouncedWasExposed
PROPERTY PeerUpdateNeverGoesBack
