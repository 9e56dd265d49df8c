SPECIFICATION Spec
CONSTANTS
  web = web
  n1 = n1
  n2 = n2
  Absent = Absent
  Name <- OneName
  Node <- TwoNodes
  PreferLoadBalancer = TRUE
  Service <- ByIngress
  InitialNodes <- SteadyOnly
  NodeChoices <- TheseOnly
  Asking = FALSE
  Interval = 1
  MaxEdits = 0
  MaxFaults = 0
INVARIANT LoadBalancerPortsRecorded
