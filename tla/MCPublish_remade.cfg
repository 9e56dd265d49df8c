SPECIFICATION FairSpec
CONSTANTS
  web = web
  n1 = n1
  n2 = n2
  Absent = Absent
  Name <- OneName
  Node <- TwoNodes
  PreferLoadBalancer = FALSE
  Service <- ByNodesRemade
  InitialNodes <- SteadyOnly
  NodeChoices <- TheseOnly
  Asking = TRUE
  Interval = 0
  MaxEdits = 2
  MaxFaults = 0
INVARIANT QuietMeansCurrent
PROPERTIES PatchingEnds EventuallyAnnounced
