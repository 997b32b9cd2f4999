SPECIFICATION ClockSpec
CONSTANTS
  HourSecs = 2
  BufCap = 3
  Types = {"Float"}
  MaxTime = 7
  MaxWrites = 3
  HistoryReads = FALSE
  Writes = {"WriteOldValue", "WriteTimeValue"}
  FirstDate = 2
  MaxSteps = 2
INVARIANTS
  RefusedUntilReached
PROPERTIES
  RuleWhateverClock
  RefusalEnds
