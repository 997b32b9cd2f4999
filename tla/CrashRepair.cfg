SPECIFICATION Spec
CONSTANTS
  HourSecs = 2
  BufCap = 50
  StrayHours = {1, 9}
  IOErrors = FALSE
  Dates = {2, 3, 6}
  MaxWrites = 3
  MaxCrashes = 2
  MaxIndex = 3
  Cuts = {"value"}
  Faults = {"createIndex", "removeIndex", "removeData"}
  RepairFirst = TRUE
INVARIANTS
  LogSurvives
  IndexSurvives
  RepairedOpens
PROPERTIES
  MoreRecentRule
  RemovedWhole
  ImplementsDurableSeries
