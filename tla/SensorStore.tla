----------------------------- MODULE SensorStore -----------------------------
(* Class LightTSDB seen by one caller working on one sensor: the data file   *)
(* and the index file, the FilesInfo kept in memory while the files are      *)
(* open, and the public operations.  A call takes two steps, as in the code: *)
(* getFilesInfo under the map lock (open, create, or find the FilesInfo),    *)
(* then the body on what it returned.                                        *)
(*                                                                           *)
(* `history' is the list of what was accepted, kept to be compared with what *)
(* the files say; a value is named by its rank in it.  A list of values that *)
(* is read from the file is the set of its members: their ranks tell them    *)
(* apart, and the order of the list is that of the file.                     *)
EXTENDS DataFile, IndexSearch

CONSTANTS
  Types,        \* the FileDataTypes callers write, among ValueTypes
  MaxTime,      \* bound: the clock stops there
  MaxWrites,    \* bound: values accepted
  HistoryReads  \* TRUE: any hour and any range is read;
                \* FALSE: only reads that run to the end of the log

AllTypes == ValueTypes \union {"Undefined"}

ASSUME TypesAssumption == Types \subseteq ValueTypes
ASSUME BoundsAssumption == /\ MaxTime \in Nat /\ MaxWrites \in Nat
                            /\ HourSecs <= MaxTime
ASSUME HistoryReadsAssumption == HistoryReads \in BOOLEAN

VARIABLES
  now,      \* the clock MOCK::time reads
  data,     \* the data file
  index,    \* the entries of the index file, buffered ones included
  info,     \* FilesInfo of the sensor, NoInfo when it is not in m_FilesInfo
  call,     \* the call whose body is still to run
  answer,   \* what the last call returned
  history   \* the accepted values

vars == <<now, data, index, info, call, answer, history>>

-----------------------------------------------------------------------------
(* FilesInfo.                                                                *)

FilesInfo(type, startHour, minHour, maxHour, maxOffset, indexSize) ==
  [type |-> type, startHour |-> startHour, minHour |-> minHour, maxHour |-> maxHour,
   maxOffset |-> maxOffset, indexSize |-> indexSize]

NoInfo == FilesInfo("Undefined", 0, 0, 0, 0, 0)

InfoType == [type : AllTypes, startHour : Nat, minHour : Nat, maxHour : Nat,
             maxOffset : Nat, indexSize : Nat]

IsOpen == info # NoInfo

FindHour(hour) ==
  FindIndex(index, info.indexSize, info.minHour, info.maxHour, hour)

Shorts == 0 .. 2^16 - 1

(* The offset openDataFile takes for the last one: it steps back from the    *)
(* end by the size of a record that holds a float.  Only 4-byte types have   *)
(* such records; with Bool the bytes are those of the last value but one, or *)
(* of the hour; with Double, 16 bits of the value, whichever they are.       *)
TailOffsets(c) ==
  LET last == Len(c)
  IN  CASE c[1].type \in {"Float", "Int"} -> {c[last].offset}
        [] c[1].type = "Bool" /\ IsValue(c, last - 1) -> {c[last - 1].offset}
        [] c[1].type = "Bool" /\ ~IsValue(c, last - 1) ->
             {(HourAt(c, last) \div 256) % 65536}
        [] OTHER -> Shorts

LastHour == index[Len(index)].hour

(* Mutant: startHour is not made a time.                                     *)
OpenedInfoRaw(offset) ==
  FilesInfo(Contents(data)[1].type, LastHour, index[1].hour, LastHour, offset, Len(index))

(* What openFiles leaves in FilesInfo.                                       *)
OpenedInfo(offset) ==
  FilesInfo(Contents(data)[1].type, ToTimeT(LastHour, 0), index[1].hour, LastHour,
            offset, Len(index))

(* Mutant: a value of this very second is in the future.                     *)
NotBeforeClock(time) == time >= now

LaterThanClock(time) == time > now

(* ReadLastIndex and VerifyDataHourlyTimestamp: the last entry of the index  *)
(* must lead to its hour, whose last value must not be in the future.        *)
VerifyLastIndex ==
  LET c    == Contents(data)
      last == index[Len(index)]
      stop == FirstOf(c, {i \in last.pos + 2 .. Len(c) : ~IsValue(c, i)})
  IN  IF ~HasCell(data, last.pos) \/ CellAt(data, last.pos) # HourCell(last.hour)
      THEN "OPEN_COR1"
      ELSE IF stop > last.pos + 2 /\ LaterThanClock(TimeAt(c, stop - 1)) THEN "OPEN_COR2"
      ELSE "OK"

-----------------------------------------------------------------------------
(* Calls and answers.                                                        *)

Idle     == [op |-> "Idle"]
NoAnswer == [call |-> Idle, ok |-> TRUE, error |-> "", values |-> {}]

Times == HourSecs .. MaxTime
Hours == FromTimeT(HourSecs) .. FromTimeT(MaxTime)

WriteCalls ==
  [op : {"WriteValue"}, type : Types]
    \union [op : {"WriteOldValue"}, type : Types, offset : 0 .. now - HourSecs]
    \union [op : {"WriteTimeValue"}, type : Types, time : HourSecs .. now]

(* The time argument of ReadValues for an hour only counts by its hour.      *)
ReadCalls ==
  [op : {"ReadHour"}, hour : {h \in Hours : HistoryReads \/ h >= FromTimeT(now)}]
    \union [op : {"ReadRange"}, begin : Times,
            end : {t \in Times : HistoryReads \/ t >= now}]
    \union {[op |-> "ReadLastValue"], [op |-> "GetSensorInfo"]}

Calls == WriteCalls \union ReadCalls

TypeOf(c) == IF c.op \in {"WriteValue", "WriteOldValue", "WriteTimeValue"}
             THEN c.type ELSE "Undefined"

Answer(c, ok, error, values) ==
  [call |-> c, ok |-> ok, error |-> error, values |-> values]

Return(ok, error, values) == /\ answer' = Answer(call, ok, error, values)
                             /\ call' = Idle

Refuse(c, error) == /\ answer' = Answer(c, FALSE, error, {})
                    /\ call' = Idle

Admit(c) == /\ answer' = NoAnswer
            /\ call' = c

-----------------------------------------------------------------------------
(* getFilesInfo.                                                             *)

(* The FilesInfo that was found or made must have the type of the value.     *)
CheckType(c, type) ==
  IF TypeOf(c) \in {"Undefined", type} THEN Admit(c) ELSE Refuse(c, "MISMATCH")

UseOpenFiles(c) ==
  /\ IsOpen
  /\ CheckType(c, info.type)
  /\ UNCHANGED <<data, index, info>>

(* openFiles: both streams end at the end of their file.                     *)
OpenFiles(c) ==
  /\ ~IsOpen /\ FileExists(data) /\ VerifyLastIndex = "OK"
  /\ data' = SeekEnd(Open(data))
  /\ \E offset \in TailOffsets(Contents(data)) : info' = OpenedInfo(offset)
  /\ CheckType(c, Contents(data)[1].type)
  /\ UNCHANGED index

OpenFilesFails(c) ==
  /\ ~IsOpen /\ FileExists(data) /\ VerifyLastIndex # "OK"
  /\ Refuse(c, VerifyLastIndex)
  /\ UNCHANGED <<data, index, info>>

NoFile(c) ==
  /\ ~IsOpen /\ ~FileExists(data) /\ TypeOf(c) = "Undefined"
  /\ Refuse(c, "NOFILE")
  /\ UNCHANGED <<data, index, info>>

CreateFiles(c) ==
  /\ ~IsOpen /\ ~FileExists(data) /\ TypeOf(c) # "Undefined"
  /\ data' = Put(Open(data), HeaderCell(TypeOf(c)))
  /\ index' = <<>>
  /\ info' = FilesInfo(TypeOf(c), 0, 0, 0, 0, 0)
  /\ Admit(c)

GetFilesInfo ==
  /\ call = Idle
  /\ \E c \in Calls :
       /\ c \in WriteCalls => Len(history) < MaxWrites
       /\ \/ UseOpenFiles(c) \/ OpenFiles(c) \/ OpenFilesFails(c)
          \/ NoFile(c) \/ CreateFiles(c)
  /\ UNCHANGED <<now, history>>

-----------------------------------------------------------------------------
(* writeTimeValue.                                                           *)

(* The stream once the block of the previous hour, if any, is ended.         *)
BlockEnd(startHour) == IF startHour > 0 THEN Put(data, EndLine) ELSE data

NextValue == Len(history) + 1

(* Mutant: an hour starts one second too late.                               *)
StartsLate(time) == time - info.startHour > HourSecs

StartsHour(time) == time - info.startHour > HourSecs - 1

WriteInNewHour(time) ==
  LET hour  == FromTimeT(time)
      ended == BlockEnd(info.startHour)
  IN  /\ StartsHour(time)
      /\ index' = Append(index, Entry(hour, Tellp(ended)))
      /\ data' = Put(Put(ended, HourCell(hour)), ValueCell(OffsetIn(hour, time), NextValue))
      /\ info' = FilesInfo(info.type, ToTimeT(hour, 0),
                           IF info.minHour = 0 THEN hour ELSE info.minHour, hour,
                           OffsetIn(hour, time), info.indexSize + 1)

WriteInHour(time) ==
  /\ ~StartsHour(time)
  /\ data' = Put(data, ValueCell(time - info.startHour, NextValue))
  /\ info' = FilesInfo(info.type, info.startHour, info.minHour, info.maxHour,
                       time - info.startHour, info.indexSize)
  /\ UNCHANGED index

WriteTimeValue(time) ==
  /\ WriteInNewHour(time) \/ WriteInHour(time)
  /\ history' = Append(history, [time |-> time, value |-> NextValue])
  /\ Return(TRUE, "", {})

(* Mutant: a value as recent as the last one passes.                         *)
HasOnlyLater(time) == info.maxHour > 0 /\ time < ToTimeT(info.maxHour, info.maxOffset)

HasMoreRecent(time) == info.maxHour > 0 /\ time <= ToTimeT(info.maxHour, info.maxOffset)

WriteDated(time) ==
  \/ /\ HasMoreRecent(time)
     /\ Return(FALSE, "WRITE_MRV", {})
     /\ UNCHANGED <<data, index, info, history>>
  \/ ~HasMoreRecent(time) /\ WriteTimeValue(time)

WriteNow ==
  /\ call.op = "WriteValue"
  /\ WriteTimeValue(now)
  /\ UNCHANGED now

WriteOld ==
  /\ call.op = "WriteOldValue"
  /\ WriteDated(now - call.offset)
  /\ UNCHANGED now

WriteTime ==
  /\ call.op = "WriteTimeValue"
  /\ WriteDated(call.time)
  /\ UNCHANGED now

-----------------------------------------------------------------------------
(* Reads.  A seek flushes the data stream; the loop leaves it after the cell *)
(* that stopped it, or at the end of the file.                               *)

LeaveAt(stop) ==
  data' = SeekTo(data, IF stop <= Len(Contents(data)) THEN stop ELSE Len(Contents(data)))

(* The header the index led to, and what reading it does on a mismatch:      *)
(* false is returned, no error is recorded, the stream stays there.          *)
LeadsTo(pos, hour) == HasCell(data, pos) /\ CellAt(data, pos) = HourCell(hour)

ReadMiss == Return(TRUE, "", {}) /\ UNCHANGED data

ReadMismatch(pos) == Return(FALSE, "", {}) /\ LeaveAt(pos + 1)

(* Mutant: the loop of an hour does not stop at the end of its block.        *)
HourStopMissed(c, from) == Len(c) + 1

HourStop(c, from) == FirstOf(c, {i \in from + 1 .. Len(c) : IsEnd(c, i)})

ReadHour ==
  LET pos  == FindHour(call.hour)
      c    == Contents(data)
      stop == HourStop(c, pos + 1)
  IN  /\ call.op = "ReadHour"
      /\ \/ pos = NotFound /\ ReadMiss
         \/ pos # NotFound /\ ~LeadsTo(pos, call.hour) /\ ReadMismatch(pos)
         \/ /\ pos # NotFound /\ LeadsTo(pos, call.hour)
            /\ Return(TRUE, "", {Stamped(c, i) : i \in Within(c, pos + 1, stop)})
            /\ LeaveAt(stop)
      /\ UNCHANGED <<now, index, info, history>>

(* Mutant: the range stops on its last second.                               *)
RangeStopEarly(c, from, end) ==
  FirstOf(c, {i \in Within(c, from, Len(c) + 1) : TimeAt(c, i) >= end})

RangeStop(c, from, end) ==
  FirstOf(c, {i \in Within(c, from, Len(c) + 1) : TimeAt(c, i) > end})

ReadRange ==
  LET hour == FromTimeT(call.begin)
      pos  == FindHour(hour)
      c    == Contents(data)
      stop == RangeStop(c, pos + 1, call.end)
  IN  /\ call.op = "ReadRange"
      /\ \/ pos = NotFound /\ ReadMiss
         \/ pos # NotFound /\ ~LeadsTo(pos, hour) /\ ReadMismatch(pos)
         \/ /\ pos # NotFound /\ LeadsTo(pos, hour)
            /\ Return(TRUE, "", {v \in {Stamped(c, i) : i \in Within(c, pos + 1, stop)} :
                                  v.time >= call.begin})
            /\ LeaveAt(stop)
      /\ UNCHANGED <<now, index, info, history>>

ReadLastValue ==
  LET pos == FindHour(info.maxHour)
      c   == Contents(data)
  IN  /\ call.op = "ReadLastValue"
      /\ \/ pos = NotFound /\ ReadMiss
         \/ pos # NotFound /\ ~LeadsTo(pos, info.maxHour) /\ ReadMismatch(pos)
         \/ /\ pos # NotFound /\ LeadsTo(pos, info.maxHour)
            /\ Return(TRUE, "", {[time  |-> ToTimeT(info.maxHour, c[Len(c)].offset),
                                  value |-> c[Len(c)].value]})
            /\ data' = SeekEnd(data)
      /\ UNCHANGED <<now, index, info, history>>

(* minDate and maxDate are answered as two values, of rank 0.                *)
GetSensorInfo ==
  /\ call.op = "GetSensorInfo"
  /\ Return(TRUE, "", {[time |-> ToTimeT(info.minHour, 0), value |-> 0],
                       [time |-> ToTimeT(info.maxHour, 0), value |-> 0]})
  /\ UNCHANGED <<now, data, index, info, history>>

-----------------------------------------------------------------------------
(* Close, Remove, and the clock.                                             *)

(* Close (and the destructor): both streams are flushed, the FilesInfo goes. *)
CloseSensor ==
  /\ call = Idle /\ IsOpen
  /\ data' = Close(data)
  /\ info' = NoInfo
  /\ answer' = NoAnswer
  /\ UNCHANGED <<now, index, call, history>>

Remove ==
  /\ call = Idle
  /\ data' = Absent
  /\ index' = <<>>
  /\ info' = NoInfo
  /\ history' = <<>>
  /\ answer' = Answer([op |-> "Remove"], FileExists(data),
                      IF FileExists(data) THEN "" ELSE "REMOVE_DAT", {})
  /\ UNCHANGED <<now, call>>

Tick ==
  /\ now < MaxTime
  /\ now' = now + 1
  /\ UNCHANGED <<data, index, info, call, answer, history>>

Init ==
  /\ now = HourSecs
  /\ data = Absent
  /\ index = <<>>
  /\ info = NoInfo
  /\ call = Idle
  /\ answer = NoAnswer
  /\ history = <<>>

Body == WriteNow \/ WriteOld \/ WriteTime \/ ReadHour \/ ReadRange \/ ReadLastValue
          \/ GetSensorInfo

Next == GetFilesInfo \/ Body \/ CloseSensor \/ Remove \/ Tick

Spec == Init /\ [][Next]_vars
=============================================================================
