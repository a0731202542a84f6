SPECIFICATION CheckpointSpec
CONSTANTS
  Clients = {c1, c2}
  Boundaries = {b1, b2}
  Cooldown = 1
  Evaluates = FALSE
  NumRounds <- MCRounds
  MaxConns = 2
SYMMETRY Symmetry
INVARIANTS  CheckpointUsable LearningSound
CHECK_DEADLOCK FALSE
