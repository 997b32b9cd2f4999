SPECIFICATION Spec
CONSTANTS
  HourSecs = 2
  BufCap = 8
  Types = {"Float"}
  MaxTime = 9
  MaxWrites = 3
  HistoryReads = TRUE
INVARIANT
  HourReadAnswered
