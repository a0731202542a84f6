SPECIFICATION Spec
CONSTANTS
  Sids = {s1, s2, s3}
  Capacity = 2
  Retire = TRUE
  PerClient = FALSE
  ModelCapacity = 3
  MaxRounds = 2
SYMMETRY Symmetry
INVARIANTS RegistryOK PrivateSlots CapacityHeld
PROPERTIES ImplementsLedger
