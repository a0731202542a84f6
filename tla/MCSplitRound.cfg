CONSTANTS
  c1 = c1
  c2 = c2
  Clients = {c1, c2}
  Constrained = {c1}
  Batches = 1
  Settings <- MCSettings
  MaxRounds = 2
SPECIFICATION FairSpec
INVARIANTS PrefixHasSuffix ContextBehindSuffix
PROPERTIES PairsMatch ImplementsGlobal AllOrNothing RunEnds
