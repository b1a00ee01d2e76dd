SPECIFICATION Spec
CONSTANTS
  Runs = {1, 2}
  Overlap = FALSE
PROPERTIES SweepClosesRace
CHECK_DEADLOCK FALSE
