SPECIFICATION FairSpec
CONSTANTS
  Networks = {"n1"}
  Endpoints = {"e1", "e2"}
  EndpointsOf <- MCEndpointsOf
  Fetchers = {"f1", "f2"}
  NetOf <- MCNetOf
  MaxRetries = 1
  None = None
  Free = Free
INVARIANTS
  TypeOK
  SwitchFindsClient
PROPERTIES
  SwitchesEnd
  ProbingStops
  ClientsConverge
