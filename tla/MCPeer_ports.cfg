SPECIFICATION FairSpec
CONSTANTS
  s1 = s1
  s2 = s2
  n1 = n1
  n2 = n2
  v1 = v1
  v2 = v2
  None = None
  PeerService <- OnePeer
  Name <- OneName
  NameOf <- OnlyOne
  Value <- TwoValues
  MaxEdits = 1
  MaxFaults = 0
  Earlier <- NoName
PROPERTY PortsSettle
