CONSTANTS
  N = 3
  Totals <- MCTotals
SPECIFICATION Spec
INVARIANTS TypeOK Verdict CountIsHonest ReaderWaits
PROPERTY PoolEnds
