--------------------------- MODULE MCTrainingQueue ---------------------------
\* TrainingQueue with three clients, memory for one, two or three resident
\* suffixes, just for none and in between, two jobs and a second controller.
EXTENDS TrainingQueue

MCMemory == {6, 7, 12, 15}
==============================================================================
