SPECIFICATION Spec
CONSTANTS
  Keys = {1, 2, 3, 4}
  Values = {x}
  NULL = NULL
  Hash <- MCHash
  InitialCapacity = 2
  MaxCapacity = 8
  Deletes = TRUE
INVARIANT SearchEnds
CHECK_DEADLOCK FALSE
