SPECIFICATION SvcSpec
CONSTANTS
  Sids = {s1, s2}
  Capacity = 1
  Retire = TRUE
  PerClient = FALSE
  ModelCapacity = 2
  MaxRounds = 1
  Requests = {r1, r2}
  Methods = {"virtual_acquire", "virtual_commit", "virtual_abort", "train_tail", "virtual_upload_state"}
  Lanes = 1
  Impatient = TRUE
SYMMETRY Symmetry
INVARIANTS ExecutionOnLiveReplica
