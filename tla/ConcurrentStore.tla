--------------------------- MODULE ConcurrentStore ---------------------------
(* Class LightTSDB seen by several callers of one open sensor.  Writes hold  *)
(* writeMutex, reads hold readMutex, and both use the same two streams and   *)
(* the same FilesInfo.  A step is one method of LtsdbFile with the memory    *)
(* accesses behind it, up to the next method: inside a method no other one   *)
(* runs, which the code does not guarantee between a read and a write.       *)
(*                                                                           *)
(* Values are Float.  An entry of the index file is two cells, an hour and a *)
(* position, because it is two writes.  Reads of a range are left out: their *)
(* steps are those of the read of an hour.                                   *)
EXTENDS DataFile, FailingStream, SequencesExt

CONSTANTS
  Callers,     \* the threads
  Starts,      \* what the files may hold at the start: times of values, hour by hour
  FirstNumber, \* values are numbered, from here on those of the calls
  StartTime,   \* the clock at the start
  StrayHours,  \* what ReadHourlyTimestamp may return when it reads nothing
  Dates,       \* bound: the times of dated writes
  Hours,       \* bound: the hours that are read
  MaxTime,     \* bound: the clock
  MaxCalls     \* bound: calls begun

None == "none"

ASSUME CallersAssumption == Callers # {} /\ None \notin Callers
ASSUME StartsAssumption ==
  /\ Starts # {} /\ StartTime \in HourSecs .. MaxTime /\ FirstNumber \in Nat
  /\ \A blocks \in Starts :
       /\ blocks \in Seq(Seq(HourSecs .. StartTime) \ {<<>>})
       /\ \A b \in 1 .. Len(blocks) : \A time \in ToSet(blocks[b]) :
            FromTimeT(time) = FromTimeT(Head(blocks[b]))
       /\ Len(FlattenSeq(blocks)) < FirstNumber
ASSUME SharedAssumption == /\ StrayHours \subseteq Nat /\ StrayHours # {}
                           /\ Hours \subseteq Nat /\ MaxTime \in Nat /\ MaxCalls \in Nat
(* No date lies in the hour 0, which stands for no hour, and an offset in an *)
(* hour fits in 16 bits.                                                     *)
ASSUME DatesAssumption == Dates \subseteq Nat /\ (\A d \in Dates : HourSecs <= d) /\ HourSecs < 65534

VARIABLES
  now,      \* the clock
  data,     \* the data stream
  index,    \* the index stream
  info,     \* FilesInfo
  writer,   \* who holds writeMutex
  reader,   \* who holds readMutex
  at,       \* the operation each caller is at
  job,      \* the arguments and local variables of each caller
  answer,   \* the last call that returned, with what it returned
  history,  \* the accepted values, in the order they were written
  calls     \* calls begun of each operation

vars == <<now, data, index, info, writer, reader, at, job, answer, history, calls>>

-----------------------------------------------------------------------------
(* FilesInfo and the files at the start.                                     *)

FilesInfo(startHour, minHour, maxHour, maxOffset, indexSize) ==
  [startHour |-> startHour, minHour |-> minHour, maxHour |-> maxHour,
   maxOffset |-> maxOffset, indexSize |-> indexSize]

PositionCell(position) == [kind |-> "position", pos |-> position]

BlockHour(block) == FromTimeT(Head(block))

ValuesBefore(blocks, b) == Len(FlattenSeq(SubSeq(blocks, 1, b - 1)))

(* The cells of a block, with the end mark of the block before.              *)
BlockCells(blocks, b) ==
  LET hour == BlockHour(blocks[b])
  IN  (IF b = 1 THEN <<>> ELSE <<EndLine>>) \o <<HourCell(hour)>>
        \o [v \in 1 .. Len(blocks[b]) |->
              ValueCell(OffsetIn(hour, blocks[b][v]), ValuesBefore(blocks, b) + v)]

DataCells(blocks, n) ==
  <<HeaderCell("Float")>> \o FlattenSeq([b \in 1 .. n |-> BlockCells(blocks, b)])

(* The hour of a block follows the end mark of the block before.             *)
BlockPos(blocks, b) == Len(DataCells(blocks, b - 1)) + IF b = 1 THEN 0 ELSE 1

IndexCells(blocks) ==
  <<HeaderCell("Float")>>
    \o FlattenSeq([b \in 1 .. Len(blocks) |->
                     <<HourCell(BlockHour(blocks[b])), PositionCell(BlockPos(blocks, b))>>])

FileAtEnd(cells) == Good(Stream("present", cells, <<>>, Len(cells)))

InfoBefore(blocks) ==
  IF blocks = <<>> THEN FilesInfo(0, 0, 0, 0, 0)
  ELSE LET hour == BlockHour(Last(blocks))
       IN  FilesInfo(ToTimeT(hour, 0), BlockHour(Head(blocks)), hour,
                     OffsetIn(hour, Last(Last(blocks))), Len(blocks))

-----------------------------------------------------------------------------
(* Calls.                                                                    *)

(* Locals of a call: the time to write or the hour to read, the number of a  *)
(* value, the slot or position looked at, what was read so far.  `seen' and  *)
(* `alone' say what the call may be held to: how many values were accepted   *)
(* when it began, and whether no other call ran since.                       *)
Job(op, time, value, seek, got, seen, alone) ==
  [op |-> op, time |-> time, value |-> value, seek |-> seek, got |-> got,
   seen |-> seen, alone |-> alone]

NoJob == Job("none", 0, 0, 0, <<>>, 0, FALSE)

WithTime(j, time) == Job(j.op, time, j.value, j.seek, j.got, j.seen, j.alone)
WithSeek(j, seek) == Job(j.op, j.time, j.value, seek, j.got, j.seen, j.alone)
WithGot(j, got)   == Job(j.op, j.time, j.value, j.seek, got, j.seen, j.alone)
NotAlone(j)       == Job(j.op, j.time, j.value, j.seek, j.got, j.seen, FALSE)

Goto(c, next) == at' = [at EXCEPT ![c] = next]
Set(c, j)     == job' = [job EXCEPT ![c] = j]

Return(c, ok) ==
  /\ at' = [at EXCEPT ![c] = "idle"]
  /\ answer' = [op |-> job[c].op, time |-> job[c].time, ok |-> ok, got |-> job[c].got,
                seen |-> job[c].seen, alone |-> job[c].alone]

WriteOps == {"WriteValue", "WriteTimeValue"}
ReadOps  == {"ReadHour", "ReadLastValue"}

NoAnswer == [op |-> "none", time |-> 0, ok |-> TRUE, got |-> <<>>, seen |-> 0, alone |-> FALSE]

FirstStep(op) ==
  CASE op = "WriteValue" -> "clock" [] op = "WriteTimeValue" -> "check" [] OTHER -> "readLock"

(* The time or the hour a call is given.                                     *)
Arguments(op) ==
  CASE op = "WriteTimeValue" -> Dates
    [] op = "ReadHour"       -> Hours
    [] OTHER                 -> {0}

WritesBegun == calls["WriteValue"] + calls["WriteTimeValue"]
ReadsBegun  == calls["ReadHour"] + calls["ReadLastValue"]

Begin(c) ==
  /\ at[c] = "idle" /\ WritesBegun + ReadsBegun < MaxCalls
  /\ \E op \in WriteOps \union ReadOps : \E argument \in Arguments(op) :
       /\ LET others == \A d \in Callers \ {c} : at[d] = "idle"
              number == FirstNumber + WritesBegun
              mine   == Job(op, argument, number, 0, <<>>, Len(history), others)
          IN  job' = [d \in Callers |-> IF d = c THEN mine
                                        ELSE IF at[d] = "idle" THEN NoJob ELSE NotAlone(job[d])]
       /\ Goto(c, FirstStep(op))
       /\ calls' = [calls EXCEPT ![op] = @ + 1]
  /\ answer' = NoAnswer
  /\ UNCHANGED <<now, data, index, info, writer, reader, history>>

-----------------------------------------------------------------------------
(* Writes.                                                                   *)

(* internalWriteValue reads the clock.                                       *)
ReadClock(c) ==
  /\ at[c] = "clock"
  /\ Set(c, WithTime(job[c], now))
  /\ Goto(c, "writeLock")
  /\ UNCHANGED <<now, data, index, info, writer, reader, answer, history, calls>>

(* Mutant: a value of the same second is let through.                        *)
HasOnlyLater(time) == info.maxHour > 0 /\ time < ToTimeT(info.maxHour, info.maxOffset)

HasMoreRecent(time) == info.maxHour > 0 /\ time <= ToTimeT(info.maxHour, info.maxOffset)

(* internalWriteTimeValue compares before writeTimeValue takes the mutex.    *)
CheckMoreRecent(c) ==
  /\ at[c] = "check"
  /\ \/ HasMoreRecent(job[c].time) /\ Return(c, FALSE)
     \/ ~HasMoreRecent(job[c].time) /\ Goto(c, "writeLock") /\ UNCHANGED answer
  /\ UNCHANGED <<now, data, index, info, writer, reader, job, history, calls>>

(* Mutant: one mutex guards nothing.                                         *)
Unguarded(holder) == TRUE

Free(holder) == holder = None

StartsHour(time) == time - info.startHour > HourSecs - 1

LockWrite(c) ==
  /\ at[c] = "writeLock" /\ Free(writer)
  /\ writer' = c
  /\ Goto(c, IF ~StartsHour(job[c].time) THEN "value"
             ELSE IF info.startHour > 0 THEN "endLine" ELSE "entryHour")
  /\ UNCHANGED <<now, data, index, info, reader, job, answer, history, calls>>

WriteEndLine(c) ==
  /\ at[c] = "endLine"
  /\ data' = WriteTo(data, EndLine)
  /\ Goto(c, "entryHour")
  /\ UNCHANGED <<now, index, info, writer, reader, job, answer, history, calls>>

WriteEntryHour(c) ==
  LET hour == FromTimeT(job[c].time)
  IN  /\ at[c] = "entryHour"
      /\ info' = FilesInfo(ToTimeT(hour, 0), info.minHour, info.maxHour, info.maxOffset,
                           info.indexSize)
      /\ index' = WriteTo(index, HourCell(hour))
      /\ Goto(c, "entryTell")
      /\ UNCHANGED <<now, data, writer, reader, job, answer, history, calls>>

(* Tellp is asked of the data file before the index file is written to.      *)
TellEntry(c) ==
  /\ at[c] = "entryTell"
  /\ Set(c, WithSeek(job[c], PositionOf(data)))
  /\ Goto(c, "entryPosition")
  /\ UNCHANGED <<now, data, index, info, writer, reader, answer, history, calls>>

WriteEntryPosition(c) ==
  /\ at[c] = "entryPosition"
  /\ index' = WriteTo(index, PositionCell(job[c].seek))
  /\ info' = FilesInfo(info.startHour, info.minHour, info.maxHour, info.maxOffset,
                       info.indexSize + 1)
  /\ Goto(c, "hour")
  /\ UNCHANGED <<now, data, writer, reader, job, answer, history, calls>>

WriteHour(c) ==
  LET hour == FromTimeT(job[c].time)
  IN  /\ at[c] = "hour"
      /\ data' = WriteTo(data, HourCell(hour))
      /\ info' = FilesInfo(info.startHour, IF info.minHour = 0 THEN hour ELSE info.minHour,
                           hour, info.maxOffset, info.indexSize)
      /\ Goto(c, "value")
      /\ UNCHANGED <<now, index, writer, reader, job, answer, history, calls>>

(* The cast to 16 bits; of a negative difference it is undefined and keeps   *)
(* the low bits on the usual machines.                                       *)
OffsetOf(time) == (time - info.startHour) % 65536

(* Mutant: the early return keeps the mutex.                                 *)
ReleasedOnSuccess(c, ok) == IF ok THEN None ELSE c

Released(c, ok) == None

WriteValue(c) ==
  /\ at[c] = "value"
  /\ data' = WriteTo(data, ValueCell(OffsetOf(job[c].time), job[c].value))
  /\ IF data.bad THEN UNCHANGED <<info, history>>
     ELSE /\ info' = FilesInfo(info.startHour, info.minHour, info.maxHour,
                               OffsetOf(job[c].time), info.indexSize)
          /\ history' = Append(history, [time |-> job[c].time, value |-> job[c].value])
  /\ writer' = Released(c, ~data.bad)
  /\ Return(c, ~data.bad)
  /\ UNCHANGED <<now, index, reader, job, calls>>

-----------------------------------------------------------------------------
(* findIndex.                                                                *)

Unlock == reader' = None

FirstSlot(hour) ==
  IF info.maxHour = info.minHour THEN 0
  ELSE (info.indexSize * (hour - info.minHour)) \div (info.maxHour - info.minHour + 1)

(* Position of the entry in a slot.                                          *)
SlotPos(slot) == 1 + 2 * slot

LockRead(c) ==
  LET hour == IF job[c].op = "ReadHour" THEN job[c].time ELSE info.maxHour
  IN  /\ at[c] = "readLock" /\ Free(reader)
      /\ IF hour \notin info.minHour .. info.maxHour
         THEN Return(c, TRUE) /\ UNCHANGED <<reader, job>>
         ELSE /\ reader' = c
              /\ Set(c, WithSeek(WithTime(job[c], hour), FirstSlot(hour)))
              /\ Goto(c, "indexSeek")
              /\ UNCHANGED answer
      /\ UNCHANGED <<now, data, index, info, writer, history, calls>>

SeekIndex(c) ==
  /\ at[c] = "indexSeek"
  /\ index' = SeekIn(index, SlotPos(job[c].seek))
  /\ Goto(c, "indexRead")
  /\ UNCHANGED <<now, data, info, writer, reader, job, answer, history, calls>>

(* The hour a read returns: that of the cell, bytes that are no hour of the  *)
(* sensor, or what the variable held.                                        *)
NoHour == -1
HoursRead(s) ==
  IF ~CanRead(s) THEN StrayHours
  ELSE IF ReadCell(s).kind = "hour" THEN {ReadCell(s).hour} ELSE {NoHour}

(* Both reads of an hour of the index: the first one, and those of the loop. *)
ReadIndex(c) ==
  LET wanted == job[c].time
  IN  /\ at[c] \in {"indexRead", "walkRead"}
      /\ index' = AfterRead(index)
      /\ \E found \in HoursRead(index) :
           \/ /\ found = wanted /\ Goto(c, "indexPosition")
              /\ UNCHANGED <<reader, job, answer>>
           \/ /\ found > wanted /\ Goto(c, "walkSeek")
              /\ Set(c, WithSeek(job[c], job[c].seek - 1))
              /\ UNCHANGED <<reader, answer>>
           \/ /\ found < wanted /\ at[c] = "indexRead" /\ Goto(c, "indexEnd")
              /\ Set(c, WithSeek(job[c], 0))
              /\ UNCHANGED <<reader, answer>>
           \/ /\ found < wanted /\ at[c] = "walkRead" /\ Return(c, TRUE)
              /\ Unlock /\ UNCHANGED job
      /\ UNCHANGED <<now, data, info, writer, history, calls>>

WalkSeek(c) ==
  LET sought == SeekIn(index, SlotPos(job[c].seek))
  IN  /\ at[c] = "walkSeek"
      /\ index' = sought
      /\ IF sought.bad THEN Return(c, TRUE) /\ Unlock
         ELSE Goto(c, "walkRead") /\ UNCHANGED <<reader, answer>>
      /\ UNCHANGED <<now, data, info, writer, job, history, calls>>

(* A position that is not read stays 0.                                      *)
ReadIndexPosition(c) ==
  /\ at[c] = "indexPosition"
  /\ index' = AfterRead(index)
  /\ Set(c, WithSeek(job[c], IF CanRead(index) /\ ReadCell(index).kind = "position"
                             THEN ReadCell(index).pos ELSE 0))
  /\ Goto(c, "indexEnd")
  /\ UNCHANGED <<now, data, info, writer, reader, answer, history, calls>>

LeaveIndex(c) ==
  /\ at[c] = "indexEnd"
  /\ index' = SeekInEnd(index)
  /\ IF job[c].seek = 0 THEN Return(c, TRUE) /\ Unlock
     ELSE Goto(c, "dataSeek") /\ UNCHANGED <<reader, answer>>
  /\ UNCHANGED <<now, data, info, writer, job, history, calls>>

-----------------------------------------------------------------------------
(* ReadValues of an hour and ReadLastValue, once the position is known.      *)

SeekData(c) ==
  /\ at[c] = "dataSeek"
  /\ data' = SeekIn(data, job[c].seek)
  /\ Goto(c, "dataHour")
  /\ UNCHANGED <<now, index, info, writer, reader, job, answer, history, calls>>

ReadDataHour(c) ==
  LET wanted == IF job[c].op = "ReadHour" THEN job[c].time ELSE info.maxHour
  IN  /\ at[c] = "dataHour"
      /\ data' = AfterRead(data)
      /\ \E hour \in HoursRead(data) :
           IF hour # wanted THEN Return(c, FALSE) /\ Unlock
           ELSE /\ Goto(c, IF job[c].op = "ReadHour" THEN "dataValue" ELSE "lastSeek")
                /\ UNCHANGED <<reader, answer>>
      /\ UNCHANGED <<now, index, info, writer, job, history, calls>>

Garbage == [time |-> 0, value |-> 0]

ReadOf(hour, cell) == [time |-> ToTimeT(hour, cell.offset), value |-> cell.value]

(* What ReadValue takes for an end mark: one, or a record with its offset.   *)
EndsBlock(cell) == cell.kind = "endline" \/ (cell.kind = "value" /\ cell.offset = 65534)

IsRecord(cell) == cell.kind = "value" /\ ~EndsBlock(cell)

(* One turn of the loop of ReadValues.  An hour where a record was expected  *)
(* is read as a value, and what follows is out of step.                      *)
ReadDataValue(c) ==
  /\ at[c] = "dataValue"
  /\ \/ /\ ~CanRead(data)
        /\ data' = AfterRead(data)
        /\ Goto(c, "clear") /\ UNCHANGED <<reader, job, answer>>
     \/ /\ CanRead(data) /\ EndsBlock(ReadCell(data))
        /\ data' = AfterRead(data)
        /\ Return(c, TRUE) /\ Unlock /\ UNCHANGED job
     \/ /\ CanRead(data) /\ IsRecord(ReadCell(data))
        /\ data' = AfterRead(data)
        /\ Set(c, WithGot(job[c], Append(job[c].got, ReadOf(job[c].time, ReadCell(data)))))
        /\ UNCHANGED <<reader, at, answer>>
     \/ /\ CanRead(data) /\ ReadCell(data).kind \notin {"endline", "value"}
        /\ data' = SeekInEnd(data)
        /\ Set(c, WithGot(job[c], Append(job[c].got, Garbage)))
        /\ UNCHANGED <<reader, at, answer>>
  /\ UNCHANGED <<now, index, info, writer, history, calls>>

Clear(c) ==
  /\ at[c] = "clear"
  /\ data' = Cleared(data)
  /\ Return(c, TRUE) /\ Unlock
  /\ UNCHANGED <<now, index, info, writer, job, history, calls>>

SeekLast(c) ==
  /\ at[c] = "lastSeek"
  /\ data' = SeekInEnd(data)
  /\ Goto(c, "lastTell")
  /\ UNCHANGED <<now, index, info, writer, reader, job, answer, history, calls>>

TellLast(c) ==
  /\ at[c] = "lastTell"
  /\ Set(c, WithSeek(job[c], PositionOf(data) - 1))
  /\ Goto(c, "lastRecord")
  /\ UNCHANGED <<now, data, index, info, writer, reader, answer, history, calls>>

SeekLastRecord(c) ==
  /\ at[c] = "lastRecord"
  /\ data' = SeekIn(data, job[c].seek)
  /\ Goto(c, "lastValue")
  /\ UNCHANGED <<now, index, info, writer, reader, job, answer, history, calls>>

(* Without a record the offset is 0 and the value is not initialised.        *)
ReadLastRecord(c) ==
  /\ at[c] = "lastValue"
  /\ data' = AfterRead(data)
  /\ Set(c, WithGot(job[c],
              <<IF CanRead(data) /\ IsRecord(ReadCell(data))
                THEN ReadOf(info.maxHour, ReadCell(data)) ELSE Garbage>>))
  /\ Goto(c, "lastEnd")
  /\ UNCHANGED <<now, index, info, writer, reader, answer, history, calls>>

LeaveLast(c) ==
  /\ at[c] = "lastEnd"
  /\ data' = SeekInEnd(data)
  /\ Return(c, TRUE) /\ Unlock
  /\ UNCHANGED <<now, index, info, writer, job, history, calls>>

-----------------------------------------------------------------------------
Tick ==
  /\ now < MaxTime
  /\ now' = now + 1
  /\ UNCHANGED <<data, index, info, writer, reader, at, job, answer, history, calls>>

WriteStep(c) ==
  \/ ReadClock(c) \/ CheckMoreRecent(c) \/ LockWrite(c) \/ WriteEndLine(c)
  \/ WriteEntryHour(c) \/ TellEntry(c) \/ WriteEntryPosition(c) \/ WriteHour(c)
  \/ WriteValue(c)

ReadStep(c) ==
  \/ LockRead(c) \/ SeekIndex(c) \/ ReadIndex(c) \/ WalkSeek(c) \/ ReadIndexPosition(c)
  \/ LeaveIndex(c) \/ SeekData(c) \/ ReadDataHour(c) \/ ReadDataValue(c) \/ Clear(c)
  \/ SeekLast(c) \/ TellLast(c) \/ SeekLastRecord(c) \/ ReadLastRecord(c) \/ LeaveLast(c)

Init ==
  /\ now = StartTime
  /\ \E blocks \in Starts :
       LET times == FlattenSeq(blocks)
       IN  /\ data = FileAtEnd(DataCells(blocks, Len(blocks))) /\ index = FileAtEnd(IndexCells(blocks))
           /\ info = InfoBefore(blocks)
           /\ history = [k \in 1 .. Len(times) |-> [time |-> times[k], value |-> k]]
  /\ writer = None /\ reader = None
  /\ at = [c \in Callers |-> "idle"] /\ job = [c \in Callers |-> NoJob]
  /\ answer = NoAnswer
  /\ calls = [op \in WriteOps \union ReadOps |-> 0]

Next == Tick \/ \E c \in Callers : Begin(c) \/ WriteStep(c) \/ ReadStep(c)

(* A thread inside a call runs until the call returns.                       *)
Fairness == \A c \in Callers : WF_vars(WriteStep(c) \/ ReadStep(c))

Spec == Init /\ [][Next]_vars /\ Fairness
=============================================================================
