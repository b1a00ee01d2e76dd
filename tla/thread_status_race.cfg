SPECIFICATION Spec
CONSTANTS
  Runs = {1, 2}
  Overlap = TRUE
INVARIANTS StatusTruthful
CHECK_DEADLOCK FALSE
