SPECIFICATION SvcFairSpec
CONSTANTS
  Sids = {s1, s2}
  Capacity = 1
  Retire = FALSE
  PerClient = TRUE
  ModelCapacity = 1
  MaxRounds = 1
  Requests = {r1, r2}
  Methods = {"virtual_acquire", "virtual_commit", "virtual_abort", "train_tail"}
  Lanes = 1
  Impatient = TRUE
INVARIANTS ExecutionOwned NothingSurvives
PROPERTY ServiceEnds
