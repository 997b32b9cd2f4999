SPECIFICATION RSpec
CONSTANTS
  MaxSecond = 6
  MaxLevel = 2
  MaxValues = 3
  Intervals = {1, 2, 3}
  EarlyFirst = TRUE
INVARIANTS
  AverageIsMean
  EveryValueAveraged
  ExtremesKept
PROPERTY
  Returns
CHECK_DEADLOCK FALSE
