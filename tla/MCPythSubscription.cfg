SPECIFICATION SubFairSpec
CONSTANTS
  Goroutines = {1}
  Conns = {1, 2, 3}
  MaxReconnects = 1
  None = None
  Subscriber = subscriber
  Starter = starter
  IdLists = {list1, list2}
  NoIds = NoIds
  Nothing = Nothing
INVARIANTS
  SubTypeOK
  ConnectionIsTold
  AloneIsCurrent
PROPERTY
  ToldInTheEnd
CHECK_DEADLOCK FALSE
