SPECIFICATION Spec
CONSTANTS
  HourSecs = 2
  BufCap = 3
  Types = {"Float", "Int"}
  MaxTime = 9
  MaxWrites = 3
  HistoryReads = FALSE
INVARIANTS
  TypeOK
  LogIsHistory
  IndexAccurate
  ReopenInvisible
PROPERTIES
  ImplementsTimeSeries
