SPECIFICATION FairSpec
CONSTANTS
  Workers = {w1, w2}
  Rounds = 2
  Attempts = 2
  MaxFaults = 2
INVARIANTS ReleasedTogether CompletedWhole
PROPERTY RunEnds
CHECK_DEADLOCK FALSE
