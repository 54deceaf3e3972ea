SPECIFICATION Spec
CONSTANTS
  Nodes = {"n", "m"}
  Links = {1, 2}
  Ends <- MCEnds
  Services = {"s"}
  Owner <- MCOwner
  Clients = {"n"}
  MaxServices = 1
  MaxPingFailures = 1
  MaxRequests = 2
INVARIANTS
  TypeOK
  PeersAreConnected
PROPERTIES
  FetchAnswered
  ServicesLearned
CHECK_DEADLOCK FALSE
