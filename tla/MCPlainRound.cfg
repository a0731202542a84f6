SPECIFICATION FairSpec
CONSTANTS
  Clients = {c1, c2}
  Scopes = {"shared", "per_client"}
  Batches = 2
  Concurrency = 2
  Raises = TRUE
  MaxRounds = 2
INVARIANTS StepsWhole EvaluatesPublished
PROPERTY RunEnds
