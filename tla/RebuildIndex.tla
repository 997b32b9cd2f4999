---------------------------- MODULE RebuildIndex ----------------------------
(* Class RebuildIndex: the tool that writes the index file of a sensor anew  *)
(* from its data file.  Every file operation is a step, which may fail, and  *)
(* the tool may be killed between any two.  A run that returns early leaves  *)
(* its streams to the destructor, which closes them.                         *)
EXTENDS DataFile

CONSTANTS
  StrayHours,   \* what ReadHourlyTimestamp may return at the end of the file:
                \* its variable is not initialised
  IOErrors      \* TRUE: file operations may fail

ASSUME StrayHoursAssumption == StrayHours \subseteq Nat /\ StrayHours # {}
ASSUME IOErrorsAssumption == IOErrors \in BOOLEAN

VARIABLES
  data,     \* the data file, m_Data while the tool runs
  index,    \* the index file, m_Index while the tool runs
  backup,   \* the .bak file beside it
  step,     \* the operation the tool is at
  pos,      \* where m_Data stands
  result    \* what the last run returned: "TRUE", or the error it recorded

toolVars == <<data, index, backup, step, pos, result>>

Steps == {"idle", "backup", "rename", "open", "header", "body", "close"}

-----------------------------------------------------------------------------
(* Cells that only a crash or another program leaves in a data file: the     *)
(* offset of a record whose value was not flushed, a header that is not one. *)
TornCell(offset) == [kind |-> "torn", offset |-> offset]
ForeignHeader    == [kind |-> "foreign"]

IsTorn(c, i)   == c[i].kind = "torn"
HasHeader(f)   == HasCell(f, 0) /\ CellAt(f, 0).kind = "header"

(* Cells of the index file.  Hour and position of an entry are two writes.   *)
IndexEntry(hour, position) == [kind |-> "entry", hour |-> hour, pos |-> position]
HalfEntry(hour)            == [kind |-> "half", hour |-> hour]

IsEntry(c, i) == c[i].kind = "entry"

(* What may be on disk of a stream that is lost with its buffer: the buffer  *)
(* may have been flushed at any point of any write since.                    *)
Cut(f, n)  == Stream(f.state, f.cells \o SubSeq(f.buf, 1, n), <<>>, 0)
Lost(f)    == {Cut(f, n) : n \in 0 .. Len(f.buf)}
HalfLost(f) ==
  {Stream(f.state, Append(Cut(f, n - 1).cells, HalfEntry(f.buf[n].hour)), <<>>, 0) :
     n \in {k \in 1 .. Len(f.buf) : IsEntry(f.buf, k)}}

LostIndex(f) == Lost(f) \union HalfLost(f)

-----------------------------------------------------------------------------
(* The end of a run: true, or an error; both streams are closed.             *)
Leave(opened, built, code) ==
  /\ data' = Close(opened) /\ index' \in built
  /\ step' = "idle" /\ result' = code
  /\ UNCHANGED pos

Fail(code) == IOErrors /\ Leave(data, {Close(index)}, code)

Goto(next) == step' = next /\ UNCHANGED result

(* Mutant: an index file that exists is not put aside.                       *)
FirstStepOpen == "open"

FirstStep == IF FileExists(index) THEN "backup" ELSE "open"

(* Rebuild and the beginning of renameFileIndex.                             *)
Start ==
  /\ step = "idle"
  /\ step' = FirstStep
  /\ result' = ""
  /\ UNCHANGED <<data, index, backup, pos>>

RemoveBackup ==
  /\ step = "backup"
  /\ \/ backup' = Absent /\ Goto("rename") /\ UNCHANGED <<data, index, pos>>
     \/ FileExists(backup) /\ Fail("REMOVE_BAK") /\ UNCHANGED backup

RenameIndex ==
  /\ step = "rename"
  /\ \/ backup' = index /\ index' = Absent /\ Goto("open") /\ UNCHANGED <<data, pos>>
     \/ Fail("RENAME_BAK") /\ UNCHANGED backup

(* The open mode creates a data file that is missing.                        *)
OpenFiles ==
  /\ step = "open"
  /\ \/ /\ data' = Open(data) /\ index' = Open(index)
        /\ pos' = 0
        /\ Goto("header")
     \/ Fail("OPEN_DAT")
     \/ IOErrors /\ Leave(Open(data), {index}, "CREATE_NDX")
  /\ UNCHANGED backup

(* A foreign header, one of another version or state or one without a value  *)
(* type is refused; CHECK_SIG stands for CHECK_VER, CHECK_STA, HEADER_TYP.   *)
CreateHeader ==
  /\ step = "header"
  /\ \/ ~HasCell(data, 0) /\ Leave(data, {Close(index)}, "HEADER_REA")
     \/ /\ HasCell(data, 0) /\ ~HasHeader(data)
        /\ Leave(data, {Close(index)}, "CHECK_SIG")
     \/ /\ HasHeader(data)
        /\ index' = Put(index, CellAt(data, 0))
        /\ pos' = 1
        /\ Goto("body")
        /\ UNCHANGED data
     \/ HasHeader(data) /\ IOErrors /\ Leave(data, LostIndex(index), "HEADER_WRI")
  /\ UNCHANGED backup

(* The hour read at the head of a block.                                     *)
HoursRead(c, position) ==
  IF position < Len(c) /\ IsHour(c, position + 1)
  THEN {c[position + 1].hour} ELSE StrayHours

(* Mutant: the loop over the values of a block stops one cell late.          *)
BlockStopLate(c, position) ==
  FirstOf(c, {i \in position + 3 .. Len(c) : IsEnd(c, i - 1) \/ IsTorn(c, i - 1)})

(* The loop over the values of a block ends at its end mark, at the end of   *)
(* the file, or at a torn record, behind which the bytes are out of step     *)
(* (that they look like an end mark again is left out).                      *)
BlockStop(c, position) ==
  FirstOf(c, {i \in position + 2 .. Len(c) : IsEnd(c, i) \/ IsTorn(c, i)})

(* Mutant: the position is taken behind the hour.                            *)
BlockEntryLate(hour, position) == IndexEntry(hour, position + 1)

BlockEntry(hour, position) == IndexEntry(hour, position)

(* One turn of the loop of buildBody.                                        *)
BuildBlock ==
  LET c    == Contents(data)
      stop == BlockStop(c, pos)
      more == stop <= Len(c) /\ IsEnd(c, stop)
  IN  /\ step = "body"
      /\ \/ /\ \E hour \in HoursRead(c, pos) : index' = Put(index, BlockEntry(hour, pos))
            /\ pos' = IF more THEN stop ELSE Len(c)
            /\ Goto(IF more THEN "body" ELSE "close")
            /\ UNCHANGED data
         \/ /\ IOErrors
            /\ \E code \in {"HOUR_WRI", "OFFSET_WRI"} : Leave(data, LostIndex(index), code)
      /\ UNCHANGED backup

CloseFiles ==
  /\ step = "close"
  /\ Leave(data, {Close(index)}, "TRUE")
  /\ UNCHANGED backup

(* The process is killed: its buffers are lost.                              *)
Killed ==
  /\ step # "idle"
  /\ index' \in LostIndex(index) /\ data' = Close(data)
  /\ step' = "idle"
  /\ UNCHANGED <<backup, pos, result>>

Rebuild == Start \/ RemoveBackup \/ RenameIndex \/ OpenFiles \/ CreateHeader
             \/ BuildBlock \/ CloseFiles
-----------------------------------------------------------------------------
(* What a data file and the index of it look like.                           *)

DataCell  == Cell \union [kind : {"torn"}, offset : Nat] \union {ForeignHeader}
IndexCell == Cell \union [kind : {"entry"}, hour : Nat, pos : Nat]
               \union [kind : {"half"}, hour : Nat]

(* The form of a data file: one header, and hours exactly behind the header  *)
(* and behind end marks.                                                     *)
WellFormed(c) ==
  /\ Len(c) > 0
  /\ c[1] \in [kind : {"header"}, type : ValueTypes]
  /\ \A i \in 2 .. Len(c) :
       /\ c[i] \in Cell /\ c[i].kind # "header"
       /\ IsHour(c, i) <=> c[i - 1].kind \in {"header", "endline"}

(* It ends in a record, as every write leaves it.                            *)
EndsWhole(c) == IsValue(c, Len(c))

(* An index that has the header of the data and then, in their order, one    *)
(* entry for every hour of it up to a position.                              *)
IndexedUpTo(e, c, upTo) ==
  /\ Len(e) > 0 /\ e[1] = c[1]
  /\ \A k \in 2 .. Len(e) :
       /\ IsEntry(e, k) /\ e[k].pos \in 1 .. upTo - 1
       /\ c[e[k].pos + 1] = HourCell(e[k].hour)
  /\ \A i \in 2 .. upTo : IsHour(c, i) => \E k \in 2 .. Len(e) : e[k].pos = i - 1
  /\ \A j, k \in 2 .. Len(e) : j < k => e[j].pos < e[k].pos
=============================================================================
