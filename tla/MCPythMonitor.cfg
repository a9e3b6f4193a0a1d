SPECIFICATION FairSpec
CONSTANTS
  Timeout = 3
  CtxTimeout = 6
  HttpRetries = 3
  FirstBackoffs = {1, 2}
  MaxBackoff = 2
  Sleeps <- SleepsOfInstance
  Feeds = {f}
  Interval = 6
  MaxSignals = 3
INVARIANTS
  TypeOK
  CallBounded
  PollsInTime
PROPERTIES
  FetchesEnd
  TwoSignalsStop
CHECK_DEADLOCK FALSE
