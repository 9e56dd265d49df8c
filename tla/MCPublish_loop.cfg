SPECIFICATION FairSpec
CONSTANTS
  web = web
  n1 = n1
  n2 = n2
  Absent = Absent
  Name <- OneName
  Node <- TwoNodes
  PreferLoadBalancer = FALSE
  Service <- ByNodes
  InitialNodes <- OneOrTwo
  NodeChoices <- ComesAndGoes
  Asking = FALSE
  Interval = 1
  MaxEdits = 1
  MaxFaults = 1
INVARIANTS TypeOK NeverForgotten QuietMeansCurrent NodePortsRecorded
PROPERTY EventuallyAnnounced
