SPECIFICATION ServerSpec
CONSTANTS
  HourSecs = 2
  BufCap = 3
  Types = {"Float"}
  MaxTime = 6
  MaxWrites = 2
  HistoryReads = FALSE
  Names = {"BaseName", "SensorId"}
  Words = {"", "read", "write", "lastvalue", "db", "none", "s"}
  Offsets <- AnyOffsets
  Uris <- AllUris
  Walls = {2, 3, 4, 5, 6}
  Intervals = {0, 2}
  Summer = {2, 3}
  Wrap = 256
INVARIANTS
  WriteAnswered
  ReadAnswered
  FailureTold
  NegativeRefused
PROPERTY EveryRequestAnswered
