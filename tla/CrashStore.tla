----------------------------- MODULE CrashStore -----------------------------
(* The two files of a sensor over the life of several processes: the store   *)
(* (class LightTSDB, one caller), the tool that rebuilds an index, processes *)
(* that are killed with what they have buffered, and file operations of      *)
(* createFiles and Remove that fail half-way.                                *)
(*                                                                           *)
(* Both files are streams here.  Values are Float and dated by the caller;   *)
(* of FilesInfo there is what the writes use and what GetSensorInfo answers. *)
(* The clock is later than every date.                                       *)
EXTENDS RebuildIndex, IndexSearch, FiniteSets

CONSTANTS
  Dates,        \* the times values are dated at
  MaxWrites,    \* bound: values accepted
  MaxCrashes,   \* bound: processes killed
  MaxIndex,     \* bound: no sensor is created beside an index file of so many cells
  Cuts,         \* kinds of cell a killed process may leave at the end of a data file
  Faults,       \* operations that may fail: "createIndex", "removeIndex", "removeData"
  RepairFirst   \* TRUE: after a crash the tool is run before the sensor is opened

CellKinds == {"header", "hour", "value", "endline", "torn"}

ASSUME CutsAssumption == Cuts \subseteq CellKinds
ASSUME FaultsAssumption == Faults \subseteq {"createIndex", "removeIndex", "removeData"}
ASSUME LifeAssumption == /\ Dates \subseteq Nat /\ MaxWrites \in Nat /\ MaxCrashes \in Nat
                         /\ MaxIndex \in Nat
                         /\ \A time \in Dates : HourSecs <= time
                         /\ RepairFirst \in BOOLEAN

VARIABLES
  info,      \* FilesInfo, NoInfo when the sensor is not in m_FilesInfo
  removing,  \* Remove has dealt with the index file, not yet with the data file
  answer,    \* error of the last call, "" if it returned true, "READ_FALSE" if it
             \* returned false and told none
  history,   \* the accepted values that are not lost
  synced,    \* how many of them were flushed by a close or a read
  dirty,     \* a process was killed, and no run of the tool has ended since
  crashes,   \* processes killed so far
  failed     \* the operation of Faults that has failed so far, if any

storeVars == <<info, removing, answer, history, synced, dirty, crashes, failed>>
vars == <<toolVars, storeVars>>

FilesInfo(startHour, minHour, maxHour, maxOffset) ==
  [startHour |-> startHour, minHour |-> minHour, maxHour |-> maxHour, maxOffset |-> maxOffset]

NoInfo  == FilesInfo(-1, 0, 0, 0)
NewInfo == FilesInfo(0, 0, 0, 0)

IsOpen == info # NoInfo

(* What moves together: the tool's own state is left alone by the store.     *)
Unused == UNCHANGED <<backup, step, pos, result>>
Ready  == step = "idle" /\ ~removing

(* createFiles is part of a write, which follows.                            *)
Settled == Ready /\ info # NewInfo

Done(code) == answer' = code

(* In one life one of these operations fails, as often as it likes.          *)
Fails(operation) ==
  operation \in Faults /\ failed \subseteq {operation} /\ failed' = {operation}

-----------------------------------------------------------------------------
(* createFiles: the index file is opened in append mode, whatever is in it.  *)
CreateFiles ==
  LET created == Put(Open(data), HeaderCell("Float"))
  IN  /\ Ready /\ ~IsOpen /\ ~FileExists(data) /\ Len(Contents(index)) < MaxIndex
      /\ \/ /\ data' = created
            /\ index' = Put(Open(index), HeaderCell("Float"))
            /\ info' = NewInfo
            /\ Done("")
            /\ UNCHANGED failed
         \/ /\ Fails("createIndex")
            /\ data' = Close(created)
            /\ Done("CREATE_NDX1")
            /\ UNCHANGED <<index, info>>
      /\ Unused /\ UNCHANGED <<removing, history, synced, dirty, crashes>>

(* The offset openDataFile takes from the last record; behind anything else  *)
(* it takes bytes of values, hours or marks, of which two stand for all.     *)
TailOffsets(c) == IF IsValue(c, Len(c)) THEN {c[Len(c)].offset} ELSE {0, 65534}

LastCell(f) == CellAt(f, Len(Contents(f)) - 1)

(* ReadLastIndex and VerifyDataHourlyTimestamp: what may come of it.  Behind *)
(* the end of the data file the hour is whatever its variable holds.         *)
VerifyLastIndex(last) ==
  IF HasCell(data, last.pos)
  THEN IF CellAt(data, last.pos) = HourCell(last.hour) THEN {"OK"} ELSE {"OPEN_COR1"}
  ELSE IF last.hour \in StrayHours THEN {"OK", "OPEN_COR1"} ELSE {"OPEN_COR1"}

(* What openFiles may return.  Without an entry at the end of the index, what *)
(* is compared are bytes of a header and of an entry out of step, or none    *)
(* that were read; that they happen to be equal is left out.                 *)
OpenCodes ==
  IF ~HasHeader(data) THEN {"OPEN_DAT2"}
  ELSE IF ~HasHeader(index) THEN {"OPEN_NDX2"}
  ELSE IF LastCell(index).kind # "entry" THEN {"OPEN_COR1"}
  ELSE VerifyLastIndex(LastCell(index))

(* The hour read behind the header of the index, which may be bytes of a     *)
(* second header.                                                            *)
FirstHours == IF CellAt(index, 1).kind \in {"entry", "half"} THEN {CellAt(index, 1).hour}
              ELSE StrayHours

OpenedInfo(first, offset) ==
  FilesInfo(ToTimeT(LastCell(index).hour, 0), first, LastCell(index).hour, offset)

(* Opening creates an index file that is missing.                            *)
OpenFilesOf ==
  /\ Ready /\ ~IsOpen /\ FileExists(data) /\ (RepairFirst => ~dirty)
  /\ \E code \in OpenCodes :
       \/ /\ code = "OK"
          /\ data' = SeekEnd(Open(data)) /\ index' = SeekEnd(Open(index))
          /\ \E first \in FirstHours, offset \in TailOffsets(Contents(data)) :
               info' = OpenedInfo(first, offset)
          /\ Done("")
       \/ /\ code # "OK"
          /\ index' = IF code = "OPEN_DAT2" THEN index ELSE Close(Open(index))
          /\ Done(code)
          /\ UNCHANGED <<data, info>>
  /\ Unused /\ UNCHANGED <<removing, history, synced, dirty, crashes, failed>>

-----------------------------------------------------------------------------
(* WriteTimeValue, once the sensor is open.                                  *)

HasMoreRecent(time) == info.maxHour > 0 /\ time <= ToTimeT(info.maxHour, info.maxOffset)

StartsHour(time) == time - info.startHour > HourSecs - 1

NextValue == Len(history) + 1

(* Mutant: the index is told where the block before began.                   *)
EntryAtEnd(hour, f) == IndexEntry(hour, IF f.buf = <<>> THEN Tellp(f) ELSE f.pos)

EntryOf(hour, f) == IndexEntry(hour, Tellp(f))

WriteInNewHour(time) ==
  LET hour  == FromTimeT(time)
      ended == IF info.startHour > 0 THEN Put(data, EndLine) ELSE data
  IN  /\ StartsHour(time)
      /\ index' = Put(index, EntryOf(hour, ended))
      /\ data' = Put(Put(ended, HourCell(hour)), ValueCell(OffsetIn(hour, time), NextValue))
      /\ info' = FilesInfo(ToTimeT(hour, 0), IF info.minHour = 0 THEN hour ELSE info.minHour,
                           hour, OffsetIn(hour, time))

WriteInHour(time) ==
  /\ ~StartsHour(time)
  /\ data' = Put(data, ValueCell(time - info.startHour, NextValue))
  /\ info' = FilesInfo(info.startHour, info.minHour, info.maxHour, time - info.startHour)
  /\ UNCHANGED index

WriteTimeValue(time) ==
  /\ Ready /\ IsOpen
  /\ \/ /\ HasMoreRecent(time)
        /\ Done("WRITE_MRV")
        /\ UNCHANGED <<data, index, info, history>>
     \/ /\ ~HasMoreRecent(time) /\ Len(history) < MaxWrites
        /\ WriteInNewHour(time) \/ WriteInHour(time)
        /\ history' = Append(history, [time |-> time, value |-> NextValue])
        /\ Done("")
  /\ Unused /\ UNCHANGED <<removing, synced, dirty, crashes, failed>>

(* The entries of the index as the search meets them.  Behind a second       *)
(* header, the half of an entry or anything else they are out of step.       *)
Entries == SubSeq(Contents(index), 2, Len(Contents(index)))

InStep == \A k \in 1 .. Len(Entries) : IsEntry(Entries, k)

(* The search for the last hour meets whole entries, and no larger hour in   *)
(* the first of them.  What is left out, of an index that a failed createFiles *)
(* or Remove has spoiled, is a search that reads bytes out of step, or that  *)
(* seeks before the file, which leaves the index stream failed.              *)
MeetsEntries ==
  /\ Entries # <<>> /\ IsEntry(Entries, 1)
  /\ InStep \/ info.minHour = info.maxHour
  /\ Entries[1].hour <= info.maxHour

LastPos == FindIndex(Entries, Len(Entries), info.minHour, info.maxHour, info.maxHour)

(* The search flushes the index.  A miss ends the read, which returns true   *)
(* without a value; behind a block that begins otherwise it returns false    *)
(* and tells no error, the data stream where the four bytes read end.  Only  *)
(* the seeks in the data stream flush it.  A read of an hour at the end of   *)
(* the file, which sets the fail bit, is left out.                           *)
ReadLastValue ==
  /\ Settled /\ IsOpen /\ MeetsEntries
  /\ index' = SeekEnd(index)
  /\ \/ /\ LastPos = NotFound
        /\ Done("") /\ UNCHANGED <<data, synced>>
     \/ /\ LastPos # NotFound /\ HasCell(data, LastPos)
        /\ IF CellAt(data, LastPos) = HourCell(info.maxHour)
           THEN data' = SeekEnd(data) /\ Done("")
           ELSE data' = SeekTo(data, LastPos + 1) /\ Done("READ_FALSE")
        /\ synced' = Len(history)
  /\ Unused /\ UNCHANGED <<info, removing, history, dirty, crashes, failed>>

(* A read of an hour between two hours of an index that is in step: it seeks *)
(* the index only, and ends at the entry of a smaller hour.                  *)
ReadMissingHour ==
  /\ Settled /\ IsOpen /\ InStep
  /\ \E hour \in info.minHour + 1 .. info.maxHour - 1 :
       \A k \in 1 .. Len(Entries) : Entries[k].hour # hour
  /\ index' = SeekEnd(index)
  /\ Done("")
  /\ Unused /\ UNCHANGED <<data, info, removing, history, synced, dirty, crashes, failed>>

-----------------------------------------------------------------------------
(* Close and Remove.                                                         *)

CloseSensor ==
  /\ Settled /\ IsOpen
  /\ data' = Close(data) /\ index' = Close(index)
  /\ info' = NoInfo
  /\ synced' = Len(history)
  /\ Done("")
  /\ Unused /\ UNCHANGED <<removing, history, dirty, crashes, failed>>

RemoveIndex ==
  /\ Settled
  /\ data' = Close(data)
  /\ info' = NoInfo
  /\ synced' = Len(history)
  /\ \/ /\ index' = Absent /\ Done(IF FileExists(index) THEN "" ELSE "REMOVE_NDX")
        /\ UNCHANGED failed
     \/ Fails("removeIndex") /\ index' = Close(index) /\ Done("REMOVE_NDX")
  /\ removing' = TRUE
  /\ Unused /\ UNCHANGED <<history, dirty, crashes>>

(* Mutant: the data file alone decides what Remove returns.                  *)
RemovedCodeLast == IF FileExists(data) THEN "" ELSE "REMOVE_DAT"

(* What Remove returns once the data file is gone, or was not there.         *)
RemovedCode == IF FileExists(data) THEN answer ELSE "REMOVE_DAT"

RemoveData ==
  /\ removing
  /\ \/ /\ data' = Absent /\ history' = <<>> /\ synced' = 0
        /\ Done(RemovedCode)
        /\ UNCHANGED failed
     \/ /\ Fails("removeData") /\ Done("REMOVE_DAT")
        /\ UNCHANGED <<data, history, synced>>
  /\ removing' = FALSE
  /\ Unused /\ UNCHANGED <<index, info, dirty, crashes>>

-----------------------------------------------------------------------------
(* A process is killed between two of its file operations.                   *)

TornLost(f) ==
  {Stream(f.state, Append(Cut(f, n - 1).cells, TornCell(f.buf[n].offset)), <<>>, 0) :
     n \in {k \in 1 .. Len(f.buf) : IsValue(f.buf, k)}}

LostData(f) ==
  {g \in Lost(f) \union TornLost(f) :
     f.buf = <<>> \/ g.cells = <<>> \/ g.cells[Len(g.cells)].kind \in Cuts}

ValuesIn(c) == Cardinality({i \in 1 .. Len(c) : IsValue(c, i)})

Crash ==
  /\ step = "idle" /\ (IsOpen \/ removing) /\ crashes < MaxCrashes
  /\ data' \in LostData(data) /\ index' \in LostIndex(index)
  /\ info' = NoInfo /\ removing' = FALSE
  /\ history' = SubSeq(history, 1, ValuesIn(data'.cells))
  /\ dirty' = TRUE /\ crashes' = crashes + 1
  /\ Done("")
  /\ Unused /\ UNCHANGED <<synced, failed>>

(* The tool works on a sensor that is closed.                                *)
RunTool ==
  /\ Ready \/ step # "idle"
  /\ ~IsOpen
  /\ Rebuild
  /\ dirty' = (dirty /\ result' # "TRUE")
  /\ UNCHANGED <<info, removing, answer, history, synced, crashes, failed>>

KillTool ==
  /\ crashes < MaxCrashes
  /\ Killed
  /\ crashes' = crashes + 1 /\ dirty' = TRUE
  /\ UNCHANGED <<info, removing, answer, history, synced, failed>>

-----------------------------------------------------------------------------
Init ==
  /\ data = Absent /\ index = Absent /\ backup = Absent
  /\ step = "idle" /\ pos = 0 /\ result = ""
  /\ info = NoInfo /\ removing = FALSE /\ answer = ""
  /\ history = <<>> /\ synced = 0 /\ dirty = FALSE /\ crashes = 0 /\ failed = {}

Next ==
  \/ CreateFiles \/ OpenFilesOf
  \/ \E time \in Dates : WriteTimeValue(time)
  \/ ReadLastValue \/ ReadMissingHour
  \/ CloseSensor \/ RemoveIndex \/ RemoveData
  \/ Crash \/ RunTool \/ KillTool

Spec == Init /\ [][Next]_vars
=============================================================================
