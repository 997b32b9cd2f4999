SPECIFICATION RunsSpec
CONSTANTS
  HourSecs = 2
  BufCap = 3
  StrayHours = {1, 9}
  IOErrors = TRUE
  DataFiles <- MCDataFiles
  IndexFiles <- MCIndexFiles
  MaxRuns = 2
  MaxBlocks = 3
INVARIANTS
  RebuiltExactly
  OldIndexKept
CHECK_DEADLOCK FALSE
