SPECIFICATION Spec
CONSTANTS
  Keys = {1, 2, 3, 4}
  Values = {x, y}
  NULL = NULL
  Hash <- MCHash
  InitialCapacity = 2
  MaxCapacity = 8
  Deletes = TRUE
INVARIANTS
  TypeOK
  WellPlaced
  UsedIsExact
  EndlessNeedsTombstone
PROPERTY ImplementsDictionary
CHECK_DEADLOCK FALSE
