SPECIFICATION FairSpec
CONSTANTS
  Networks <- MCNetworks
  Feeds <- MCFeeds
  NetOf <- MCNetOf
  Updaters = {u}
  HasSwitcher = TRUE
  SemCap = 2
  MaxRetries = 1
  MaxTicks = 1
INVARIANTS
  TypeOK
  InFlightBounded
  RoundsDoNotOverlap
PROPERTIES
  FetchesAdvance
  RoundsEnd
  StopTakesEffect
CHECK_DEADLOCK FALSE
