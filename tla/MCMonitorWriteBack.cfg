SPECIFICATION Spec
CONSTANTS
  Networks <- MCNetworks
  Feeds <- MCTwoFeeds
  NetOf <- MCTwoNetOf
  Updaters = {u}
  HasSwitcher = TRUE
  SemCap = 1
  MaxRetries = 1
  MaxTicks = 1
PROPERTY
  PricesNeverGoBack
CHECK_DEADLOCK FALSE
