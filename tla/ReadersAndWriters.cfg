SPECIFICATION Spec
CONSTANTS
  HourSecs = 2
  BufCap = 3
  c1 = c1
  c2 = c2
  Callers = {c1, c2}
  Starts <- NewOrGap
  FirstNumber = 5
  StartTime = 12
  StrayHours = {0, 9}
  Dates = {13, 14}
  Hours = {4, 5, 7}
  MaxTime = 13
  MaxCalls = 3
INVARIANTS
  SharedTypeOK
  BlocksWhole
  ReadersExact
  TrueMeansWritten
  RuleKeptAlone
PROPERTY
  EveryCallReturns
CHECK_DEADLOCK FALSE
