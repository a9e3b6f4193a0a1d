SPECIFICATION FairSpec
CONSTANTS
  Callers = {c1, c2}
  Networks = {n1, n2}
  Sources = {"chainlink", "pyth"}
  Ids = {a}
  Times = {1, 2}
  NoPrice = NoPrice
  NoMap = NoMap
  Free = Free
  MaxCacheSizeBytes = 6
  MapBytes = 1
  KeyBytes = 1
  InfoBytes <- MCInfoBytes
INVARIANTS
  TypeOK
  LockDiscipline
  FeedsCoverData
  NoDuplicateFeeds
PROPERTIES
  FeedsAppendOnly
  UpdatesReturn
  ImplementsAtomicStore
