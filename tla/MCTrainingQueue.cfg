SPECIFICATION QueueSpec
CONSTANTS
  Total = 3
  Memory <- MCMemory
  MaxFaults = 2
  Controllers = {1, 2}
  Jobs = 2
INVARIANTS SlotsBacked  PassedEarned JobsAlone
PROPERTY OutcomeKept
CHECK_DEADLOCK FALSE
