SPECIFICATION StartupFairSpec
CONSTANTS
  Networks = {"arbitrum", "other"}
  FeedNetwork = "arbitrum"
  Endpoints = {"e1", "e2"}
  EndpointsOf <- MCEndpointsOf
  Fetchers = {"f1"}
  NetOf <- MCNetOf
  MaxRetries = 1
  MaxLooks = 2
  None = None
  Free = Free
INVARIANTS
  StartupTypeOK
  StartedWithClient

PROPERTIES
  StartupEnds
  ShutdownCompletes
CHECK_DEADLOCK FALSE
