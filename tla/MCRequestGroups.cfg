SPECIFICATION FairSpec
CONSTANTS
  Clients = {c1, c2, c3}
  MaxLanes = 2
  MaxBatches = 2
INVARIANTS NobodyForgotten LockStep
PROPERTIES ReadyGroupsFrozen StreamsEnd
CHECK_DEADLOCK FALSE
