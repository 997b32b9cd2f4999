----------------------------- MODULE ClockSteps ------------------------------
(* The store of SensorStore when the clock of the host is stepped back, and  *)
(* when callers date values freely: in the future, or in the hour 0.  What   *)
(* changes is what writeTimeValue computes from a time before startHour, and *)
(* what openFiles says of values that are later than the clock.              *)
EXTENDS SensorStoreProps

CONSTANTS
  Writes,    \* the writes that are called
  FirstDate, \* bound: no date is earlier
  MaxSteps   \* bound: steps back of the clock

ASSUME WritesAssumption == Writes \subseteq {"WriteValue", "WriteOldValue", "WriteTimeValue"}
ASSUME StepsAssumption == FirstDate \in 0 .. HourSecs /\ MaxSteps \in Nat

VARIABLE steps   \* steps back so far

clockVars == <<vars, steps>>

Dates == FirstDate .. MaxTime

FreeCalls ==
  {c \in [op : {"WriteValue"}, type : Types]
           \union [op : {"WriteOldValue"}, type : Types, offset : 0 .. now - FirstDate]
           \union [op : {"WriteTimeValue"}, type : Types, time : Dates] : c.op \in Writes}
    \union {[op |-> "ReadLastValue"], [op |-> "GetSensorInfo"]}

(* The bytes of a record: one whose offset is LTSDB_ENDLINE reads as an end  *)
(* mark and an hour made of the bytes of the value.                          *)
PutRecord(f, offset, value) ==
  IF offset = 65534 THEN Put(Put(f, EndLine), HourCell(value))
  ELSE Put(f, ValueCell(offset, value))

(* The cast to 16 bits; of a negative difference it is undefined and keeps   *)
(* the low bits on the usual machines.                                       *)
CastOffset(time) == (time - info.startHour) % 65536

CastInHour(time) ==
  /\ ~StartsHour(time)
  /\ data' = PutRecord(data, CastOffset(time), NextValue)
  /\ info' = FilesInfo(info.type, info.startHour, info.minHour, info.maxHour,
                       CastOffset(time), info.indexSize)
  /\ UNCHANGED index

(* Without the rule of the dated writes, the time is not compared.           *)
CastWrite(time) ==
  /\ call.op = "WriteValue" \/ ~HasMoreRecent(time)
  /\ WriteInNewHour(time) \/ CastInHour(time)
  /\ history' = Append(history, [time |-> time, value |-> NextValue])
  /\ Return(TRUE, "", {})

RefuseOlder(time) ==
  /\ call.op # "WriteValue" /\ HasMoreRecent(time)
  /\ Return(FALSE, "WRITE_MRV", {})
  /\ UNCHANGED <<data, index, info, history>>

TimeToWrite ==
  CASE call.op = "WriteValue"    -> now
    [] call.op = "WriteOldValue" -> now - call.offset
    [] OTHER                     -> call.time

Write ==
  /\ call.op \in {"WriteValue", "WriteOldValue", "WriteTimeValue"}
  /\ CastWrite(TimeToWrite) \/ RefuseOlder(TimeToWrite)
  /\ UNCHANGED now

(* getFilesInfo, for the calls of this module.                               *)
Enter ==
  /\ call = Idle
  /\ \E c \in FreeCalls :
       /\ TypeOf(c) # "Undefined" => Len(history) < MaxWrites
       /\ \/ UseOpenFiles(c) \/ OpenFiles(c) \/ OpenFilesFails(c)
          \/ NoFile(c) \/ CreateFiles(c)
  /\ UNCHANGED <<now, history>>

StepBack ==
  /\ steps < MaxSteps
  /\ \E earlier \in HourSecs .. now - 1 :
       /\ call.op = "WriteOldValue" => earlier - call.offset >= FirstDate
       /\ now' = earlier
  /\ steps' = steps + 1
  /\ UNCHANGED <<data, index, info, call, answer, history>>

ClockInit == Init /\ steps = 0

ClockNext ==
  \/ StepBack
  \/ (Enter \/ Write \/ ReadLastValue \/ GetSensorInfo \/ CloseSensor \/ Remove \/ Tick)
       /\ UNCHANGED steps

(* Time passes.                                                              *)
ClockSpec == ClockInit /\ [][ClockNext]_clockVars /\ WF_clockVars(Tick /\ UNCHANGED steps)

-----------------------------------------------------------------------------
(* The more-recent rule compares with what was written, never with the       *)
(* clock: whatever the clock does, dated writes are accepted exactly when    *)
(* they are later than every accepted value.                                 *)
RuleWhateverClock ==
  [][call.op \in {"WriteOldValue", "WriteTimeValue"} /\ call' = Idle =>
       (answer'.ok <=> \A k \in 1 .. Len(history) : history[k].time < TimeToWrite)]_clockVars

(* A sensor with values later than the clock is refused with OPEN_COR2, and  *)
(* with nothing else, until the clock has reached them.                      *)
RefusedUntilReached ==
  FileExists(data) /\ ~IsOpen =>
    /\ VerifyLastIndex \in {"OK", "OPEN_COR2"}
    /\ VerifyLastIndex = "OK" <=> Last(history).time <= now

(* LightTSDB.cpp:452 "Data file is corrupt.": the refusal does not last, it  *)
(* ends as the clock goes on.                                                *)
RefusalEnds ==
  (answer.error = "OPEN_COR2") ~> (FileExists(data) /\ ~IsOpen => VerifyLastIndex = "OK")

(* LightTSDB.h:206, "Read all values of a sensor into LightTSDB for an       *)
(* hour": a value that was accepted stands behind the header of an hour.     *)
BehindAnHour ==
  LET c == Contents(data)
  IN  \A i \in 1 .. Len(c) : IsValue(c, i) => \E j \in 1 .. i : IsHour(c, j)
=============================================================================
