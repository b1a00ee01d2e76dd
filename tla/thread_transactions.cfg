SPECIFICATION FairSpec
CONSTANTS
  Runs = {1, 2}
  Overlap = FALSE
INVARIANTS TypeOK StatusTruthful
PROPERTIES SweepSpares  TransactionsEnd
CHECK_DEADLOCK FALSE
