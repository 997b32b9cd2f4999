SPECIFICATION Spec
CONSTANTS
  HourSecs = 2
  BufCap = 50
  c1 = c1
  c2 = c2
  Callers = {c1, c2}
  Starts <- OneHour
  FirstNumber = 3
  StartTime = 3
  StrayHours = {0, 9}
  Dates = {4, 5}
  Hours = {1, 2}
  MaxTime = 5
  MaxCalls = 3
INVARIANTS
  ReadsWhatWasWritten
CHECK_DEADLOCK FALSE
