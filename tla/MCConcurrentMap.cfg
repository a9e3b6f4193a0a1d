SPECIFICATION FairSpec
CONSTANTS
  Names = {"a", "b", "c"}
  Values = {1}
  ShardCount = 2
  ShardOf <- MCShardOf
  Writers = {"writer"}
  Calls = {"call"}
  None = None
INVARIANTS
  TypeOK
  ItemsConsistent
  KeysConsistent
PROPERTY
  CallsReturn
CHECK_DEADLOCK FALSE
