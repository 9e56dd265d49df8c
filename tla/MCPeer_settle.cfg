SPECIFICATION FairSpec
CONSTANTS
  s1 = s1
  s2 = s2
  n1 = n1
  n2 = n2
  v1 = v1
  v2 = v2
  None = None
  PeerService <- TwoPeers
  Name <- TwoNames
  NameOf <- OneToOne
  Value <- TwoValues
  MaxEdits = 1
  MaxFaults = 1
  Earlier <- OneName
INVARIANT TypeOK EndpointsWerePublished RoundMirrors
PROPERTY ListedNotDeleted MirrorsSettle
