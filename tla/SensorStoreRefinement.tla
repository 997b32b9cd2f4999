------------------------ MODULE SensorStoreRefinement ------------------------
(* The files of a sensor implement the series of TimeSeries, as long as      *)
(* every read runs to the end of the log.                                    *)
EXTENDS SensorStoreProps

(* The type of the series is the one in the header of the data file; a file  *)
(* without values, which only exists inside the first write, is no series.   *)
Series == INSTANCE TimeSeries WITH
  FirstTime <- HourSecs,
  clock     <- now,
  kind      <- IF history = <<>> THEN "Undefined" ELSE Contents(data)[1].type,
  series    <- history,
  reply     <- [call |-> answer.call, ok |-> answer.ok, values |-> answer.values]

(* Every call of the class is a step of the series or changes nothing a      *)
(* caller sees: opening and closing files, flushing, the index and           *)
(* FilesInfo are invisible.                                                  *)
ImplementsTimeSeries == Series!TSpec
=============================================================================
