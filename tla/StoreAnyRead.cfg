SPECIFICATION Spec
CONSTANTS
  HourSecs = 2
  BufCap = 3
  Types = {"Float"}
  MaxTime = 9
  MaxWrites = 3
  HistoryReads = TRUE
INVARIANTS
  HourReadSound
  RangeReadSound
  IndexCoversHistory
  EndsFound
