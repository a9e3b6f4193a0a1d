SPECIFICATION FairSpec
CONSTANTS
  Timeout = 3
  CtxTimeout = 6
  HttpRetries = 1
  FirstBackoffs = {1}
  MaxBackoff = 1
  Sleeps <- SleepsOfInstance
  Feeds = {f}
  Interval = 6
  MaxSignals = 3
PROPERTY
  SignalStops
CHECK_DEADLOCK FALSE
