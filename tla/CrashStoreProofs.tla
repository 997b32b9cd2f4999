-------------------------- MODULE CrashStoreProofs --------------------------
(* What the files of a sensor keep through kills and repairs, proved for     *)
(* every size of the stream buffer, any number of values, kills and runs of  *)
(* the tool, and any dates.                                                  *)
EXTENDS CrashStoreProps, RebuildIndexAlone, StoreLemmas, FiniteSetTheorems, FunctionTheorems

-----------------------------------------------------------------------------
(* First the tool alone: its properties proved for every data file, every    *)
(* index file it may find, every size of the buffer and any number of runs   *)
(* and kills.                                                                *)

(* Its inductive invariant.                                                  *)
Closed(f) == f.buf = <<>> /\ f.pos = 0

(* A data file from which an index can be made: what the promise is about.   *)
Whole(c) == WellFormed(c) /\ EndsWhole(c)

(* The loop of buildBody: at an hour, with all the hours before it indexed.  *)
AtBlock(e, c, position) ==
  /\ position \in 1 .. Len(c) - 1 /\ IsHour(c, position + 1)
  /\ IndexedUpTo(e, c, position)

(* The types of what the tool works on.                                      *)
ToolTyped ==
  /\ data \in StreamType(DataCell) /\ index \in StreamType(IndexCell)
  /\ backup \in StreamType(IndexCell)
  /\ step \in Steps /\ pos \in Nat /\ result \in Results
  /\ step \in {"body", "close"} => pos <= Len(Contents(data))

(* What the file operations have done so far.                                *)
FilesAt ==
  /\ Closed(data) /\ (~FileExists(data) => data = Absent)
  /\ ~FileExists(index) => index = Absent
  /\ step \in {"idle", "backup", "rename", "open"} => Closed(index)
  /\ step = "open" => ~FileExists(index)
  /\ step = "header" => Contents(index) = <<>>
  /\ step \in {"header", "body", "close"} => FileExists(index) /\ FileExists(data)

(* How far the new index has come.                                           *)
BuiltAt(e, c) ==
  /\ step # "idle" => result = ""
  /\ step \in {"body", "close"} => c # <<>>
  /\ Whole(c) /\ step = "body" => AtBlock(e, c, pos)
  /\ Whole(c) /\ step = "close" => IndexedUpTo(e, c, Len(c))

(* It holds of the tool whoever else uses the files between two runs.        *)
ToolInv == ToolTyped /\ FilesAt /\ BuiltAt(Contents(index), Contents(data))

(* What one step of the tool, or its kill, does to the two files.            *)
ToolEffect ==
  /\ Contents(data') = Contents(data) /\ (pos' # pos => pos' <= Len(Contents(data)))
  /\ FileExists(data) => FileExists(data')
  /\ FileExists(index') => FileExists(index) \/ FileExists(data')
  /\ result' = "TRUE" =>
       /\ step = "close" /\ step' = "idle"
       /\ Whole(Contents(data)) =>
            IndexedUpTo(Contents(index'), Contents(data), Len(Contents(data)))

-----------------------------------------------------------------------------
(* Cells, and files that are closed or lost.                                 *)

LEMMA CellsTyped ==
  /\ \A x \in DataCell : x.kind = "header" => x \in IndexCell
  /\ \A x \in DataCell : x.kind = "hour" => x.hour \in Nat
  /\ \A x \in IndexCell : x.kind = "entry" => x.hour \in Nat
  /\ \A h \in Nat, p \in Nat : IndexEntry(h, p) \in IndexCell
  /\ \A h \in Nat : HalfEntry(h) \in IndexCell
<1>1. \A x \in DataCell : x.kind = "header" => x \in IndexCell
  BY DEF DataCell, IndexCell, Cell, EndLine, ForeignHeader
<1>2. \A x \in DataCell : x.kind = "hour" => x.hour \in Nat
  BY DEF DataCell, Cell, EndLine, ForeignHeader
<1>3. \A x \in IndexCell : x.kind = "entry" => x.hour \in Nat
  BY DEF IndexCell, Cell, EndLine
<1>4. \A h \in Nat, p \in Nat : IndexEntry(h, p) \in IndexCell
  BY DEF IndexCell, IndexEntry
<1>5. \A h \in Nat : HalfEntry(h) \in IndexCell
  BY DEF IndexCell, HalfEntry
<1> QED
  BY <1>1, <1>2, <1>3, <1>4, <1>5

(* A closed file is closed again without effect.                             *)
LEMMA CloseClosed ==
  ASSUME NEW C, NEW f \in StreamType(C)
  PROVE  /\ Closed(Close(f))
         /\ Closed(f) => Close(f) = f
<1>1. Closed(Close(f))
  BY DEF Close, Closed, Stream
<1>2. ASSUME Closed(f) PROVE Close(f) = f
  <2>1. Contents(f) = f.cells
    BY <1>2, ContentsFacts DEF Closed
  <2>2. f = [state |-> f.state, cells |-> f.cells, buf |-> f.buf, pos |-> f.pos]
    BY DEF StreamType
  <2>3. f = Stream(f.state, f.cells, <<>>, 0)
    BY <1>2, <2>2 DEF Closed, Stream
  <2> QED
    BY <2>1, <2>3 DEF Close
<1> QED
  BY <1>1, <1>2

LEMMA CutFacts ==
  ASSUME NEW C, NEW f \in StreamType(C), NEW n \in 0 .. Len(f.buf)
  PROVE  /\ Cut(f, n) \in StreamType(C)
         /\ Closed(Cut(f, n)) /\ Cut(f, n).state = f.state
         /\ Closed(f) => Cut(f, n) = f
<1> DEFINE s == f.cells
           t == f.buf
<1>1. /\ f.state \in {"absent", "present"}
      /\ s \in Seq(C) /\ t \in Seq(C) /\ Len(t) \in Nat
  BY Fields
<1>2. SubSeq(t, 1, n) \in Seq(C)
  <2> HIDE DEF s, t
  <2>1. n \in Nat /\ n <= Len(t)
    BY <1>1 DEF t
  <2>2. \A k \in 1 .. n : t[k] \in C
    BY <1>1, <2>1
  <2> QED
    BY <1>1, <2>1, <2>2
<1>3. s \o SubSeq(t, 1, n) \in Seq(C)
  <2> HIDE DEF s, t
  <2> QED
    BY <1>1, <1>2
<1>4. Cut(f, n) \in StreamType(C)
  BY <1>1, <1>3, FlushedFacts DEF Cut
<1>5. Closed(Cut(f, n)) /\ Cut(f, n).state = f.state
  BY DEF Cut, Closed, Stream
<1>6. ASSUME Closed(f) PROVE Cut(f, n) = f
  <2>1. n = 0 /\ t = <<>>
    BY <1>6 DEF Closed
  <2>2. s \o SubSeq(<<>>, 1, 0) = s
    <3> HIDE DEF s
    <3>1. SubSeq(<<>>, 1, 0) = <<>> /\ s \o <<>> = s
      BY <1>1
    <3> QED
      BY <3>1
  <2>3. f = [state |-> f.state, cells |-> f.cells, buf |-> f.buf, pos |-> f.pos]
    BY DEF StreamType
  <2>4. f = Stream(f.state, f.cells, <<>>, 0)
    BY <1>6, <2>3 DEF Closed, Stream
  <2> QED
    BY <2>1, <2>2, <2>4 DEF Cut
<1> QED
  BY <1>4, <1>5, <1>6

(* A file that is lost with its buffer is closed, and is what it was when    *)
(* nothing was buffered.                                                     *)
LEMMA LostFacts ==
  ASSUME NEW f \in StreamType(IndexCell), NEW g \in LostIndex(f)
  PROVE  /\ g \in StreamType(IndexCell)
         /\ Closed(g) /\ g.state = f.state
         /\ Closed(f) => g = f
<1>0. Len(f.buf) \in Nat /\ f.buf \in Seq(IndexCell) /\ f.state \in {"absent", "present"}
  BY Fields
<1>1. CASE g \in Lost(f)
  <2>1. PICK n \in 0 .. Len(f.buf) : g = Cut(f, n)
    BY <1>1 DEF Lost
  <2> QED
    BY <2>1, CutFacts
<1>2. CASE g \in HalfLost(f)
  <2>1. PICK n \in 1 .. Len(f.buf) :
          /\ IsEntry(f.buf, n)
          /\ g = Stream(f.state, Append(Cut(f, n - 1).cells, HalfEntry(f.buf[n].hour)), <<>>, 0)
    BY <1>2 DEF HalfLost
  <2>2. f.buf[n] \in IndexCell /\ f.buf[n].kind = "entry"
    BY <1>0, <2>1 DEF IsEntry
  <2>3. HalfEntry(f.buf[n].hour) \in IndexCell
    BY <2>2, CellsTyped
  <2>4. n - 1 \in 0 .. Len(f.buf)
    BY <1>0
  <2>5. Cut(f, n - 1).cells \in Seq(IndexCell)
    BY <2>4, CutFacts, Fields
  <2>6. Append(Cut(f, n - 1).cells, HalfEntry(f.buf[n].hour)) \in Seq(IndexCell)
    BY <2>3, <2>5
  <2>7. g \in StreamType(IndexCell)
    BY <1>0, <2>1, <2>6, FlushedFacts
  <2>8. Closed(g) /\ g.state = f.state
    BY <2>1 DEF Closed, Stream
  <2>9. ~Closed(f)
    <3>1. Len(f.buf) # 0
      BY <1>0, <2>1
    <3> QED
      BY <3>1 DEF Closed
  <2> QED
    BY <2>7, <2>8, <2>9
<1> QED
  BY <1>1, <1>2 DEF LostIndex

-----------------------------------------------------------------------------
(* The initial states.                                                       *)

LEMMA OnDiskFacts ==
  ASSUME NEW C, NEW c \in Seq(C)
  PROVE  /\ OnDisk(c) \in StreamType(C) /\ Contents(OnDisk(c)) = c
         /\ OnDisk(c).state = "present" /\ Closed(OnDisk(c))
<1>1. Closed(OnDisk(c))
  BY DEF OnDisk, Closed, Stream
<1> QED
  BY <1>1, FlushedFacts DEF OnDisk

LEMMA AbsentClosed == Closed(Absent) /\ ~FileExists(Absent)
  BY DEF Absent, Closed, Stream, FileExists

LEMMA ToolInitial == RunsInit => ToolInv
<1> SUFFICES ASSUME RunsInit PROVE ToolInv
  OBVIOUS
<1>1. /\ step = "idle" /\ pos = 0 /\ result = ""
      /\ data \in {OnDisk(c) : c \in DataFiles} \union {Absent}
      /\ index \in {OnDisk(c) : c \in IndexFiles} \union {Absent}
      /\ backup \in {OnDisk(c) : c \in IndexFiles} \union {Absent}
  BY DEF RunsInit
<1>2. /\ data \in StreamType(DataCell) /\ Closed(data)
      /\ ~FileExists(data) => data = Absent
  BY <1>1, FilesAssumption, OnDiskFacts, AbsentFacts, AbsentClosed DEF FileExists
<1>3. /\ index \in StreamType(IndexCell) /\ Closed(index)
      /\ ~FileExists(index) => index = Absent
  BY <1>1, FilesAssumption, OnDiskFacts, AbsentFacts, AbsentClosed DEF FileExists
<1>4. backup \in StreamType(IndexCell)
  BY <1>1, FilesAssumption, OnDiskFacts, AbsentFacts
<1>5. ToolTyped
  BY <1>1, <1>2, <1>3, <1>4 DEF ToolTyped, Steps, Results
<1>6. FilesAt
  BY <1>1, <1>2, <1>3 DEF FilesAt
<1>7. BuiltAt(Contents(index), Contents(data))
  BY <1>1 DEF BuiltAt
<1> QED
  BY <1>5, <1>6, <1>7 DEF ToolInv

-----------------------------------------------------------------------------
(* The end of a run, and the files it may leave.                             *)

Left(g) == /\ g \in StreamType(IndexCell) /\ Closed(g)
           /\ ~FileExists(g) => g = Absent
           /\ FileExists(g) => FileExists(index)

LEMMA ClosedIsLeft ==
  ASSUME ToolInv
  PROVE  Left(Close(index)) /\ \A g \in LostIndex(index) : Left(g)
<1>1. index \in StreamType(IndexCell) /\ (~FileExists(index) => index = Absent)
  BY DEF ToolInv, ToolTyped, FilesAt
<1>2. Close(index) \in StreamType(IndexCell) /\ Closed(Close(index))
      /\ Close(index).state = index.state
  BY <1>1, CloseFacts, CloseClosed
<1>3. /\ ~FileExists(Close(index)) => Close(index) = Absent
      /\ FileExists(Close(index)) => FileExists(index)
  BY <1>1, <1>2, CloseClosed, AbsentClosed DEF FileExists
<1>4. ASSUME NEW g \in LostIndex(index) PROVE Left(g)
  BY <1>1, <1>4, LostFacts, AbsentClosed DEF FileExists, Left
<1> QED
  BY <1>2, <1>3, <1>4 DEF Left

LEMMA DataFacts ==
  ASSUME ToolInv
  PROVE  /\ data \in StreamType(DataCell) /\ Closed(data)
         /\ Close(data) = data /\ Close(Open(data)) = Open(data)
         /\ Contents(data) \in Seq(DataCell) /\ Len(Contents(data)) \in Nat
         /\ Open(data) \in StreamType(DataCell) /\ Closed(Open(data))
         /\ Contents(Open(data)) = Contents(data) /\ FileExists(Open(data))
         /\ ~FileExists(data) => data = Absent
<1>1. /\ data \in StreamType(DataCell) /\ Closed(data)
      /\ ~FileExists(data) => data = Absent
  BY DEF ToolInv, ToolTyped, FilesAt
<1>2. Closed(Open(data))
  BY <1>1 DEF Open, Stream, Closed
<1>3. Open(data) \in StreamType(DataCell) /\ FileExists(Open(data))
  BY <1>1, OpenFacts DEF FileExists
<1>4. Close(data) = data /\ Close(Open(data)) = Open(data)
  BY <1>1, <1>2, <1>3, CloseClosed
<1> QED
  BY <1>1, <1>2, <1>3, <1>4, ContentsFacts, OpenFacts

LEMMA LeaveKeeps ==
  ASSUME ToolInv, NEW opened \in {data, Open(data)}, NEW built, NEW code \in Results,
         \A g \in built : Left(g),
         code = "TRUE" =>
           /\ step = "close"
           /\ \A g \in built : Whole(Contents(data)) =>
                IndexedUpTo(Contents(g), Contents(data), Len(Contents(data))),
         Leave(opened, built, code), backup' \in StreamType(IndexCell)
  PROVE  ToolInv' /\ ToolEffect
<1>1. /\ data' = Close(opened) /\ index' \in built /\ step' = "idle" /\ result' = code
      /\ pos' = pos
  BY DEF Leave
<1>2. data' \in {data, Open(data)}
  BY <1>1, DataFacts
<1>3. /\ data' \in StreamType(DataCell) /\ Contents(data') = Contents(data)
      /\ Closed(data') /\ (~FileExists(data') => data' = Absent)
      /\ FileExists(data) => FileExists(data')
  BY <1>2, DataFacts
<1>4. Left(index')
  BY <1>1
<1>5. pos \in Nat
  BY DEF ToolInv, ToolTyped
<1>6. ToolTyped'
  BY <1>1, <1>3, <1>4, <1>5 DEF ToolTyped, Steps, Left
<1>7. FilesAt'
  BY <1>1, <1>3, <1>4 DEF FilesAt, Left
<1>8. BuiltAt(Contents(index), Contents(data))'
  BY <1>1 DEF BuiltAt
<1>9. ToolEffect
  BY <1>1, <1>3, <1>4 DEF ToolEffect, Left
<1> QED
  BY <1>6, <1>7, <1>8, <1>9 DEF ToolInv

LEMMA FailKeeps ==
  ASSUME ToolInv, NEW code \in Results \ {"TRUE"}, NEW opened \in {data, Open(data)},
         NEW built \in {{Close(index)}, LostIndex(index)},
         Leave(opened, built, code), UNCHANGED backup
  PROVE  ToolInv' /\ ToolEffect
<1>1. \A g \in built : Left(g)
  BY ClosedIsLeft
<1>2. backup' \in StreamType(IndexCell)
  BY DEF ToolInv, ToolTyped
<1> QED
  BY <1>1, <1>2, LeaveKeeps

-----------------------------------------------------------------------------
(* The steps before the loop.                                                *)

LEMMA NextFacts ==
  ASSUME ToolInv
  PROVE  /\ index \in StreamType(IndexCell) /\ backup \in StreamType(IndexCell)
         /\ pos \in Nat /\ (step \in {"body", "close"} => pos <= Len(Contents(data)))
         /\ ~FileExists(index) => index = Absent
         /\ step # "idle" => result = ""
         /\ step \in Steps /\ result \in Results
  BY DEF ToolInv, ToolTyped, FilesAt, BuiltAt

LEMMA StartKeeps ==
  ASSUME ToolInv, Start
  PROVE  ToolInv' /\ ToolEffect
<1>1. /\ step = "idle" /\ step' = FirstStep /\ result' = ""
      /\ UNCHANGED <<data, index, backup, pos>>
  BY DEF Start
<1>2. /\ step' \in {"backup", "open"}
      /\ step' = "open" => ~FileExists(index)
  BY <1>1 DEF FirstStep
<1>3. ToolTyped'
  BY <1>1, <1>2, NextFacts, DataFacts DEF ToolTyped, Steps, Results
<1>4. FilesAt'
  BY <1>1, <1>2 DEF ToolInv, FilesAt
<1>5. BuiltAt(Contents(index), Contents(data))'
  BY <1>1, <1>2 DEF BuiltAt
<1>6. ToolEffect
  BY <1>1 DEF ToolEffect
<1> QED
  BY <1>3, <1>4, <1>5, <1>6 DEF ToolInv

LEMMA RemoveBackupKeeps ==
  ASSUME ToolInv, RemoveBackup
  PROVE  ToolInv' /\ ToolEffect
<1>1. CASE backup' = Absent /\ Goto("rename") /\ UNCHANGED <<data, index, pos>>
  <2>1. step = "backup" /\ step' = "rename" /\ result' = result
    BY <1>1 DEF RemoveBackup, Goto
  <2>2. ToolTyped'
    BY <1>1, <2>1, NextFacts, AbsentFacts DEF ToolInv, ToolTyped, Steps
  <2>3. FilesAt'
    BY <1>1, <2>1 DEF ToolInv, FilesAt
  <2>4. BuiltAt(Contents(index), Contents(data))'
    BY <1>1, <2>1, NextFacts DEF BuiltAt
  <2>5. ToolEffect
    BY <1>1, <2>1, NextFacts DEF ToolEffect
  <2> QED
    BY <2>2, <2>3, <2>4, <2>5 DEF ToolInv
<1>2. CASE Fail("REMOVE_BAK") /\ UNCHANGED backup
  BY <1>2, FailKeeps DEF Fail, Results
<1> QED
  BY <1>1, <1>2 DEF RemoveBackup

LEMMA RenameIndexKeeps ==
  ASSUME ToolInv, RenameIndex
  PROVE  ToolInv' /\ ToolEffect
<1>1. CASE backup' = index /\ index' = Absent /\ Goto("open") /\ UNCHANGED <<data, pos>>
  <2>1. step = "rename" /\ step' = "open" /\ result' = result
    BY <1>1 DEF RenameIndex, Goto
  <2>2. ToolTyped'
    BY <1>1, <2>1, NextFacts, AbsentFacts DEF ToolInv, ToolTyped, Steps
  <2>3. FilesAt'
    BY <1>1, <2>1, AbsentClosed DEF ToolInv, FilesAt
  <2>4. BuiltAt(Contents(index), Contents(data))'
    BY <1>1, <2>1, NextFacts DEF BuiltAt
  <2>5. ToolEffect
    BY <1>1, <2>1, NextFacts, AbsentClosed DEF ToolEffect
  <2> QED
    BY <2>2, <2>3, <2>4, <2>5 DEF ToolInv
<1>2. CASE Fail("RENAME_BAK") /\ UNCHANGED backup
  BY <1>2, FailKeeps DEF Fail, Results
<1> QED
  BY <1>1, <1>2 DEF RenameIndex

LEMMA OpenFilesKeeps ==
  ASSUME ToolInv, OpenFiles
  PROVE  ToolInv' /\ ToolEffect
<1>1. CASE data' = Open(data) /\ index' = Open(index) /\ pos' = 0 /\ Goto("header")
  <2>1. step = "open" /\ step' = "header" /\ result' = result /\ backup' = backup
    BY <1>1 DEF OpenFiles, Goto
  <2>2. index = Absent
    BY <2>1 DEF ToolInv, FilesAt
  <2>3. /\ index' \in StreamType(IndexCell) /\ Contents(index') = <<>>
        /\ FileExists(index')
    BY <1>1, <2>2, AbsentFacts, OpenFacts DEF FileExists
  <2>4. pos' <= Len(Contents(data))
    BY <1>1, DataFacts
  <2>5. ToolTyped'
    BY <1>1, <2>1, <2>3, <2>4, DataFacts, NextFacts DEF ToolInv, ToolTyped, Steps
  <2>6. FilesAt'
    BY <1>1, <2>1, <2>3, DataFacts DEF FilesAt
  <2>7. BuiltAt(Contents(index), Contents(data))'
    BY <2>1, NextFacts DEF BuiltAt
  <2>8. ToolEffect
    BY <1>1, <2>1, <2>3, <2>4, NextFacts, DataFacts DEF ToolEffect
  <2> QED
    BY <2>5, <2>6, <2>7, <2>8 DEF ToolInv
<1>2. CASE Fail("OPEN_DAT") /\ UNCHANGED backup
  BY <1>2, FailKeeps DEF Fail, Results
<1>3. CASE Leave(Open(data), {index}, "CREATE_NDX") /\ UNCHANGED backup
  <2>1. step = "open"
    BY DEF OpenFiles
  <2>2. Left(index)
    BY <2>1 DEF ToolInv, ToolTyped, FilesAt, Left
  <2>3. \A g \in {index} : Left(g)
    BY <2>2
  <2>4. Open(data) \in {data, Open(data)}
    OBVIOUS
  <2>5. "CREATE_NDX" \in Results /\ "CREATE_NDX" # "TRUE"
    BY DEF Results
  <2>6. backup' \in StreamType(IndexCell)
    BY <1>3, NextFacts
  <2> QED
    BY <1>3, <2>3, <2>4, <2>5, <2>6, LeaveKeeps
<1> QED
  BY <1>1, <1>2, <1>3 DEF OpenFiles

-----------------------------------------------------------------------------
(* The header, and the loop over the blocks.                                 *)

LEMMA FirstBlock ==
  ASSUME NEW c \in Seq(DataCell), Whole(c)
  PROVE  AtBlock(<<c[1]>>, c, 1)
<1>1. Len(c) \in Nat /\ Len(c) > 0 /\ c[1].kind = "header" /\ c[Len(c)].kind = "value"
  BY DEF Whole, WellFormed, EndsWhole, IsValue
<1>2. Len(c) >= 2
  BY <1>1
<1>3. IsHour(c, 2)
  BY <1>1, <1>2 DEF Whole, WellFormed
<1>4. IndexedUpTo(<<c[1]>>, c, 1)
  BY DEF IndexedUpTo
<1> QED
  BY <1>1, <1>2, <1>3, <1>4 DEF AtBlock

(* The loop over the values of a block stops where the next hour is, or at   *)
(* the end of the file when there is none.                                   *)
LEMMA BlockFacts ==
  ASSUME NEW c \in Seq(DataCell), Whole(c), NEW position \in 1 .. Len(c) - 1,
         IsHour(c, position + 1), NEW stop, stop = BlockStop(c, position)
  PROVE  /\ stop <= Len(c) /\ IsEnd(c, stop) =>
              /\ stop \in position + 2 .. Len(c) - 1 /\ IsHour(c, stop + 1)
              /\ \A i \in position + 2 .. stop : ~IsHour(c, i)
         /\ ~(stop <= Len(c) /\ IsEnd(c, stop)) =>
              \A i \in position + 2 .. Len(c) : ~IsHour(c, i)
<1> DEFINE stops == {i \in position + 2 .. Len(c) : IsEnd(c, i) \/ IsTorn(c, i)}
<1>1. Len(c) \in Nat /\ c[Len(c)].kind = "value"
  BY DEF Whole, EndsWhole, IsValue
<1>2. stops \in SUBSET (1 .. Len(c)) /\ stop = FirstOf(c, stops)
  BY <1>1 DEF BlockStop
<1>3. \A i \in stops : i \in position + 2 .. Len(c) /\ c[i].kind = "endline"
  <2>1. ASSUME NEW i \in stops PROVE c[i].kind = "endline"
    <3>1. i \in 2 .. Len(c) /\ (IsEnd(c, i) \/ IsTorn(c, i))
      BY <1>1
    <3>2. c[i] \in Cell
      BY <3>1 DEF Whole, WellFormed
    <3>3. c[i].kind # "torn"
      BY <3>2 DEF Cell, EndLine
    <3> QED
      BY <3>1, <3>3 DEF IsEnd, IsTorn
  <2> QED
    BY <2>1
<1>4. ASSUME NEW i \in position + 2 .. Len(c), IsHour(c, i)
      PROVE  i - 1 \in stops
  <2>1. i \in 2 .. Len(c) /\ i - 1 \in position + 1 .. Len(c)
    BY <1>1
  <2>2. c[i - 1].kind \in {"header", "endline"}
    BY <1>4, <2>1 DEF Whole, WellFormed
  <2>3. c[position + 1].kind = "hour"
    BY DEF IsHour
  <2>4. i - 1 # position + 1
    BY <2>2, <2>3
  <2>5. i - 1 \in 2 .. Len(c)
    BY <2>1
  <2>6. c[i - 1].kind # "header"
    BY <2>5 DEF Whole, WellFormed
  <2> QED
    BY <2>1, <2>2, <2>4, <2>6 DEF IsEnd
<1>5. /\ stop \in 1 .. Len(c) + 1
      /\ stops # {} => stop \in stops /\ \A j \in stops : stop <= j
  <2> HIDE DEF stops
  <2>1. /\ FirstOf(c, stops) \in 1 .. Len(c) + 1
        /\ stops # {} => /\ FirstOf(c, stops) \in stops
                         /\ \A j \in stops : FirstOf(c, stops) <= j
    BY <1>1, <1>2, FirstOfInFile
  <2> QED
    BY <1>2, <2>1
<1>6. ASSUME stop <= Len(c), IsEnd(c, stop)
      PROVE  /\ stop \in position + 2 .. Len(c) - 1 /\ IsHour(c, stop + 1)
             /\ \A i \in position + 2 .. stop : ~IsHour(c, i)
  <2>1. stops # {}
    BY <1>1, <1>2, <1>6 DEF FirstOf
  <2>2. stop \in stops /\ stop \in position + 2 .. Len(c) /\ c[stop].kind = "endline"
    BY <1>3, <1>5, <2>1
  <2>3. stop # Len(c)
    BY <1>1, <2>2
  <2>4. stop + 1 \in 2 .. Len(c) /\ c[stop + 1 - 1].kind = "endline"
    BY <1>1, <2>2, <2>3
  <2>5. IsHour(c, stop + 1)
    <3>1. \A i \in 2 .. Len(c) : c[i - 1].kind = "endline" => IsHour(c, i)
      BY DEF Whole, WellFormed
    <3>2. PICK n : n = stop + 1
      OBVIOUS
    <3>3. n \in 2 .. Len(c) /\ n - 1 = stop
      BY <1>1, <2>2, <2>3, <3>2
    <3>4. IsHour(c, n)
      BY <2>2, <3>1, <3>3
    <3> QED
      BY <3>2, <3>4
  <2>6. ASSUME NEW i \in position + 2 .. stop, IsHour(c, i) PROVE FALSE
    <3>1. i \in position + 2 .. Len(c)
      BY <1>1, <2>2
    <3>2. i - 1 \in stops
      BY <1>4, <2>6, <3>1
    <3> QED
      BY <1>5, <2>1, <2>2, <3>2
  <2> QED
    BY <1>1, <2>2, <2>3, <2>5, <2>6
<1>7. ASSUME ~(stop <= Len(c) /\ IsEnd(c, stop)), NEW i \in position + 2 .. Len(c),
             IsHour(c, i)
      PROVE  FALSE
  <2>1. stop \in stops
    BY <1>4, <1>5, <1>7
  <2>2. stop <= Len(c) /\ c[stop].kind = "endline"
    BY <1>1, <1>3, <2>1
  <2> QED
    BY <1>7, <2>2 DEF IsEnd
<1> QED
  BY <1>6, <1>7

LEMMA EntryAdded ==
  ASSUME NEW c \in Seq(DataCell), Whole(c), NEW e \in Seq(IndexCell), NEW position,
         AtBlock(e, c, position), NEW upTo \in position + 1 .. Len(c),
         \A i \in position + 2 .. upTo : ~IsHour(c, i)
  PROVE  IndexedUpTo(Append(e, IndexEntry(c[position + 1].hour, position)), c, upTo)
<1> DEFINE hour == c[position + 1].hour
           g == Append(e, IndexEntry(hour, position))
<1>1. /\ position \in 1 .. Len(c) - 1 /\ IsHour(c, position + 1)
      /\ Len(c) \in Nat /\ Len(e) \in Nat /\ Len(e) > 0 /\ e[1] = c[1]
      /\ \A k \in 2 .. Len(e) :
           /\ IsEntry(e, k) /\ e[k].pos \in 1 .. position - 1
           /\ c[e[k].pos + 1] = HourCell(e[k].hour)
      /\ \A i \in 2 .. position : IsHour(c, i) => \E k \in 2 .. Len(e) : e[k].pos = i - 1
      /\ \A j, k \in 2 .. Len(e) : j < k => e[j].pos < e[k].pos
  BY DEF AtBlock, IndexedUpTo
<1>2. /\ Len(g) = Len(e) + 1
      /\ \A k \in 1 .. Len(e) : g[k] = e[k]
      /\ g[Len(e) + 1] = IndexEntry(hour, position)
  BY <1>1
<1>3. c[position + 1] = HourCell(hour)
  <2>1. position + 1 \in 2 .. Len(c)
    BY <1>1
  <2>2. c[position + 1] \in Cell /\ c[position + 1].kind = "hour"
    BY <1>1, <2>1 DEF Whole, WellFormed, IsHour
  <2> QED
    BY <2>2 DEF Cell, HourCell, EndLine
<1>4. IndexEntry(hour, position).kind = "entry" /\ IndexEntry(hour, position).pos = position
      /\ IndexEntry(hour, position).hour = hour
  BY DEF IndexEntry
<1> HIDE DEF g, hour
<1>5. Len(g) > 0 /\ g[1] = c[1]
  BY <1>1, <1>2
<1>6. ASSUME NEW k \in 2 .. Len(g)
      PROVE  /\ IsEntry(g, k) /\ g[k].pos \in 1 .. upTo - 1
             /\ c[g[k].pos + 1] = HourCell(g[k].hour)
  <2>1. CASE k \in 2 .. Len(e)
    <3>1. g[k] = e[k]
      BY <1>2, <2>1
    <3>2. e[k].pos \in 1 .. position - 1 /\ IsEntry(e, k) /\ c[e[k].pos + 1] = HourCell(e[k].hour)
      BY <1>1, <2>1
    <3>3. e[k].pos \in 1 .. upTo - 1
      BY <1>1, <3>2
    <3> QED
      BY <3>1, <3>2, <3>3 DEF IsEntry
  <2>2. CASE k = Len(e) + 1
    <3>1. g[k].kind = "entry" /\ g[k].pos = position /\ g[k].hour = hour
      BY <1>2, <1>4, <2>2
    <3>2. position \in 1 .. upTo - 1
      BY <1>1
    <3> QED
      BY <1>3, <3>1, <3>2 DEF IsEntry
  <2> QED
    BY <1>1, <1>2, <2>1, <2>2
<1>7. ASSUME NEW i \in 2 .. upTo, IsHour(c, i)
      PROVE  \E k \in 2 .. Len(g) : g[k].pos = i - 1
  <2>1. CASE i \in 2 .. position
    <3>1. PICK k \in 2 .. Len(e) : e[k].pos = i - 1
      BY <1>1, <1>7, <2>1
    <3>2. k \in 2 .. Len(g) /\ g[k] = e[k]
      BY <1>1, <1>2
    <3> QED
      BY <3>1, <3>2
  <2>2. CASE i = position + 1
    <3>1. Len(e) + 1 \in 2 .. Len(g) /\ g[Len(e) + 1].pos = i - 1
      BY <1>1, <1>2, <1>4, <2>2
    <3> QED
      BY <3>1
  <2>3. CASE i \in position + 2 .. upTo
    BY <1>7, <2>3
  <2> QED
    BY <1>1, <2>1, <2>2, <2>3
<1>8. ASSUME NEW j \in 2 .. Len(g), NEW k \in 2 .. Len(g), j < k
      PROVE  g[j].pos < g[k].pos
  <2>1. j \in 2 .. Len(e) /\ g[j] = e[j] /\ e[j].pos \in 1 .. position - 1
    BY SMTT(30), <1>1, <1>2, <1>8
  <2>2. CASE k \in 2 .. Len(e)
    BY SMTT(30), <1>1, <1>2, <1>8, <2>1, <2>2
  <2>3. CASE k = Len(e) + 1
    BY <1>1, <1>2, <1>4, <2>1, <2>3
  <2> QED
    BY <1>1, <1>2, <2>2, <2>3
<1>9. IndexedUpTo(g, c, upTo)
  BY <1>5, <1>6, <1>7, <1>8 DEF IndexedUpTo
<1> QED
  BY <1>9 DEF g, hour

LEMMA CreateHeaderKeeps ==
  ASSUME ToolInv, CreateHeader
  PROVE  ToolInv' /\ ToolEffect
<1>0. step = "header" /\ backup' = backup
  BY DEF CreateHeader
<1>1. CASE Leave(data, {Close(index)}, "HEADER_REA")
  BY <1>0, <1>1, FailKeeps DEF Results
<1>2. CASE Leave(data, {Close(index)}, "CHECK_SIG")
  BY <1>0, <1>2, FailKeeps DEF Results
<1>3. CASE Leave(data, LostIndex(index), "HEADER_WRI")
  BY <1>0, <1>3, FailKeeps DEF Results
<1>4. CASE /\ HasHeader(data) /\ index' = Put(index, CellAt(data, 0))
           /\ pos' = 1 /\ Goto("body") /\ UNCHANGED data
  <2> DEFINE c == Contents(data)
  <2>1. step' = "body" /\ result' = result /\ result = ""
    BY <1>0, <1>4, NextFacts DEF Goto
  <2>2. c \in Seq(DataCell) /\ Len(c) \in Nat /\ Len(c) >= 1 /\ c[1].kind = "header"
    BY <1>4, DataFacts DEF HasHeader, HasCell, CellAt
  <2>3. CellAt(data, 0) = c[1] /\ c[1] \in IndexCell
    <3>1. c[1] \in DataCell
      BY <2>2
    <3> QED
      BY <2>2, <3>1, CellsTyped DEF CellAt
  <2>4. Contents(index) = <<>>
    BY <1>0 DEF ToolInv, FilesAt
  <2>5. /\ index' \in StreamType(IndexCell) /\ index'.state = index.state
        /\ Contents(index') = Append(<<>>, c[1])
    <3>1. index' = Put(index, c[1])
      BY <1>4, <2>3
    <3>2. c[1] \in IndexCell
      BY <2>3
    <3> HIDE DEF c
    <3> QED
      BY <2>4, <3>1, <3>2, NextFacts, PutFacts
  <2>6. ToolTyped'
    <3>1. pos' \in Nat /\ pos' <= Len(Contents(data'))
      BY <1>4, <2>2
    <3>2. step' \in Steps /\ step' # "idle" /\ result' \in Results
      BY <2>1 DEF Steps, Results
    <3> QED
      BY <1>0, <1>4, <2>5, <3>1, <3>2, NextFacts, DataFacts DEF ToolTyped
  <2>7. FilesAt'
    <3>1. FileExists(index) /\ FileExists(data)
      BY <1>0 DEF ToolInv, FilesAt
    <3> QED
      BY <1>4, <2>1, <2>5, <3>1, DataFacts DEF FilesAt, FileExists
  <2>8. BuiltAt(Contents(index), Contents(data))'
    <3>1. Append(<<>>, c[1]) = <<c[1]>>
      OBVIOUS
    <3>2. Whole(c) => AtBlock(Contents(index'), c, pos')
      BY <1>4, <2>2, <2>5, <3>1, FirstBlock
    <3>3. Contents(data') = c
      BY <1>4
    <3>4. c # <<>>
      BY <2>2
    <3> QED
      BY <2>1, <3>2, <3>3, <3>4 DEF BuiltAt
  <2>9. ToolEffect
    <3>1. result' # "TRUE" /\ pos' <= Len(c) /\ data' = data /\ FileExists(data)
      BY <1>0, <1>4, <2>1, <2>2 DEF ToolInv, FilesAt
    <3> QED
      BY <3>1 DEF ToolEffect
  <2> QED
    BY <2>6, <2>7, <2>8, <2>9 DEF ToolInv
<1> QED
  BY <1>1, <1>2, <1>3, <1>4 DEF CreateHeader

LEMMA BuildBlockKeeps ==
  ASSUME ToolInv, BuildBlock
  PROVE  ToolInv' /\ ToolEffect
<1> DEFINE c == Contents(data)
           stop == BlockStop(c, pos)
           more == stop <= Len(c) /\ IsEnd(c, stop)
<1>0. step = "body" /\ backup' = backup
  BY DEF BuildBlock
<1>1. CASE \E code \in {"HOUR_WRI", "OFFSET_WRI"} : Leave(data, LostIndex(index), code)
  <2>1. PICK code \in {"HOUR_WRI", "OFFSET_WRI"} : Leave(data, LostIndex(index), code)
    BY <1>1
  <2>2. code \in Results \ {"TRUE"}
    BY DEF Results
  <2> QED
    BY <1>0, <2>1, <2>2, FailKeeps
<1>2. CASE /\ \E hour \in HoursRead(c, pos) : index' = Put(index, BlockEntry(hour, pos))
           /\ pos' = IF more THEN stop ELSE Len(c)
           /\ Goto(IF more THEN "body" ELSE "close")
           /\ UNCHANGED data
  <2>1. PICK hour \in HoursRead(c, pos) : index' = Put(index, IndexEntry(hour, pos))
    BY <1>2 DEF BlockEntry
  <2>2. c \in Seq(DataCell) /\ Len(c) \in Nat /\ pos \in Nat /\ pos <= Len(c)
    BY <1>0, DataFacts, NextFacts
  <2>3. /\ hour \in Nat
        /\ pos < Len(c) /\ IsHour(c, pos + 1) => hour = c[pos + 1].hour
    <3>1. CASE pos < Len(c) /\ IsHour(c, pos + 1)
      <4>1. hour = c[pos + 1].hour
        BY <2>1, <3>1 DEF HoursRead
      <4>2. c[pos + 1] \in DataCell
        BY <2>2, <3>1
      <4> QED
        BY <3>1, <4>1, <4>2, CellsTyped DEF IsHour
    <3>2. CASE ~(pos < Len(c) /\ IsHour(c, pos + 1))
      BY <2>1, <3>2, StrayHoursAssumption DEF HoursRead
    <3> QED
      BY <3>1, <3>2
  <2>4. IndexEntry(hour, pos) \in IndexCell
    BY <2>2, <2>3, CellsTyped
  <2>5. /\ index' \in StreamType(IndexCell) /\ index'.state = index.state
        /\ Contents(index') = Append(Contents(index), IndexEntry(hour, pos))
    BY <2>1, <2>4, NextFacts, PutFacts
  <2>6. stop \in 1 .. Len(c) + 1
    <3>1. {i \in pos + 2 .. Len(c) : IsEnd(c, i) \/ IsTorn(c, i)} \in SUBSET (1 .. Len(c))
      BY <2>2
    <3> QED
      BY <2>2, <3>1, FirstOfInFile DEF BlockStop
  <2>7. /\ step' = IF more THEN "body" ELSE "close"
        /\ result' = result /\ result = "" /\ data' = data
    BY <1>0, <1>2, NextFacts DEF Goto
  <2>8. ToolTyped'
    <3>1. pos' \in Nat /\ pos' <= Len(Contents(data'))
      BY <1>2, <2>2, <2>6
    <3>2. step' \in Steps /\ step' # "idle" /\ result' \in Results
      BY <2>7 DEF Steps, Results
    <3> QED
      BY <1>0, <2>5, <2>7, <3>1, <3>2, NextFacts, DataFacts DEF ToolTyped
  <2>9. FilesAt'
    <3>1. (~FileExists(index) => index = Absent) /\ step' \in {"body", "close"}
      BY <2>7, NextFacts
    <3>2. FileExists(index) => FileExists(index')
      BY <2>5 DEF FileExists
    <3>3. FileExists(index) /\ FileExists(data)
      BY <1>0 DEF ToolInv, FilesAt
    <3> QED
      BY <2>7, <3>1, <3>2, <3>3, DataFacts DEF FilesAt
  <2>10. ASSUME Whole(c)
         PROVE  /\ more => AtBlock(Contents(index'), c, stop)
                /\ ~more => IndexedUpTo(Contents(index'), c, Len(c))
    <3>1. AtBlock(Contents(index), c, pos)
      BY <1>0, <2>10 DEF ToolInv, BuiltAt
    <3>2. pos \in 1 .. Len(c) - 1 /\ IsHour(c, pos + 1) /\ hour = c[pos + 1].hour
      BY <2>2, <2>3, <3>1 DEF AtBlock
    <3>3. Contents(index) \in Seq(IndexCell)
      BY NextFacts, ContentsFacts
    <3> HIDE DEF stop
    <3>4. /\ stop <= Len(c) /\ IsEnd(c, stop) =>
               /\ stop \in pos + 2 .. Len(c) - 1 /\ IsHour(c, stop + 1)
               /\ \A i \in pos + 2 .. stop : ~IsHour(c, i)
          /\ ~(stop <= Len(c) /\ IsEnd(c, stop)) =>
               \A i \in pos + 2 .. Len(c) : ~IsHour(c, i)
      <4>1. stop = BlockStop(c, pos)
        BY DEF stop
      <4> HIDE DEF c
      <4> QED
        BY <2>2, <2>10, <3>2, <4>1, BlockFacts
    <3> HIDE DEF c
    <3>5. CASE more
      <4>1. stop \in pos + 1 .. Len(c) /\ stop \in 1 .. Len(c) - 1 /\ IsHour(c, stop + 1)
        BY <2>2, <3>2, <3>4, <3>5
      <4>2. IndexedUpTo(Contents(index'), c, stop)
        BY <2>2, <2>5, <2>10, <3>1, <3>2, <3>3, <3>4, <3>5, <4>1, EntryAdded
      <4> QED
        BY <3>5, <4>1, <4>2 DEF AtBlock
    <3>6. CASE ~more
      <4>1. Len(c) \in pos + 1 .. Len(c)
        BY <2>2, <3>2
      <4> QED
        BY <2>2, <2>5, <2>10, <3>1, <3>2, <3>3, <3>4, <3>6, <4>1, EntryAdded
    <3> QED
      BY <3>5, <3>6
  <2>11. BuiltAt(Contents(index), Contents(data))'
    <3>1. Contents(data') = c /\ (more => pos' = stop)
      BY <1>2, <2>7
    <3> HIDE DEF more, stop
    <3>2. /\ Whole(c) /\ step' = "body" => AtBlock(Contents(index'), c, pos')
          /\ Whole(c) /\ step' = "close" => IndexedUpTo(Contents(index'), c, Len(c))
      BY <2>7, <2>10, <3>1
    <3>3. step' \in {"body", "close"}
      BY <2>7
    <3>4. c # <<>>
      BY <1>0 DEF ToolInv, BuiltAt, c
    <3> QED
      BY <2>7, <3>1, <3>2, <3>3, <3>4 DEF BuiltAt
  <2>12. ToolEffect
    <3>1. result' # "TRUE" /\ data' = data /\ FileExists(data)
      BY <1>0, <2>7 DEF ToolInv, FilesAt
    <3>2. pos' <= Len(c)
      BY <1>2, <2>2, <2>6
    <3> QED
      BY <3>1, <3>2 DEF ToolEffect
  <2> QED
    BY <2>8, <2>9, <2>11, <2>12 DEF ToolInv
<1> QED
  BY <1>1, <1>2 DEF BuildBlock

LEMMA CloseFilesKeeps ==
  ASSUME ToolInv, CloseFiles
  PROVE  ToolInv' /\ ToolEffect
<1>1. /\ step = "close" /\ Leave(data, {Close(index)}, "TRUE") /\ backup' = backup
  BY DEF CloseFiles
<1>2. \A g \in {Close(index)} : Left(g)
  BY ClosedIsLeft
<1>3. Contents(Close(index)) = Contents(index)
  BY NextFacts, CloseFacts
<1>4. Whole(Contents(data)) =>
        IndexedUpTo(Contents(Close(index)), Contents(data), Len(Contents(data)))
  BY <1>1, <1>3 DEF ToolInv, BuiltAt
<1>5. backup' \in StreamType(IndexCell)
  BY <1>1, NextFacts
<1>6. "TRUE" \in Results /\ data \in {data, Open(data)}
  BY DEF Results
<1> QED
  BY <1>1, <1>2, <1>4, <1>5, <1>6, LeaveKeeps

LEMMA KilledKeeps ==
  ASSUME ToolInv, Killed
  PROVE  ToolInv' /\ ToolEffect
<1>1. /\ step # "idle" /\ index' \in LostIndex(index) /\ data' = Close(data)
      /\ step' = "idle" /\ UNCHANGED <<backup, pos, result>>
  BY DEF Killed
<1>2. result = ""
  BY <1>1, NextFacts
<1>4. Left(index')
  BY <1>1, ClosedIsLeft
<1>5. data' = data
  BY <1>1, DataFacts
<1>6. ToolTyped'
  <2>1. step' \in Steps /\ result' \in Results
    BY <1>1, <1>2 DEF Steps, Results
  <2> QED
    BY <1>1, <1>4, <1>5, <2>1, NextFacts, DataFacts DEF ToolTyped, Left
<1>7. FilesAt'
  BY <1>1, <1>4, <1>5, DataFacts DEF FilesAt, Left
<1>8. BuiltAt(Contents(index), Contents(data))'
  BY <1>1, <1>2 DEF BuiltAt
<1>9. ToolEffect
  BY <1>1, <1>2, <1>4, <1>5 DEF ToolEffect, Left
<1> QED
  BY <1>6, <1>7, <1>8, <1>9 DEF ToolInv

(* Any step of the tool, and its kill.                                       *)
LEMMA ToolStep ==
  ASSUME ToolInv, Rebuild \/ Killed
  PROVE  ToolInv' /\ ToolEffect
  BY StartKeeps, RemoveBackupKeeps, RenameIndexKeeps, OpenFilesKeeps, CreateHeaderKeeps,
     BuildBlockKeeps, CloseFilesKeeps, KilledKeeps DEF Rebuild

(* When no file operation fails, the tool gives up on no whole data file.    *)
LEMMA ToolReturns ==
  ASSUME ToolInv, Rebuild, ~IOErrors, Whole(Contents(data)), step' = "idle"
  PROVE  result' = "TRUE"
<1>1. HasHeader(data)
  <2>1. Contents(data)[1].kind = "header" /\ Len(Contents(data)) \in Nat \ {0}
    BY DataFacts DEF Whole, WellFormed
  <2> QED
    BY <2>1 DEF HasHeader, HasCell, CellAt
<1>2. HasCell(data, 0)
  BY <1>1 DEF HasHeader
<1>3. CASE Start
  BY <1>3 DEF Start, FirstStep
<1>4. CASE RemoveBackup \/ RenameIndex \/ OpenFiles
  BY <1>4 DEF RemoveBackup, RenameIndex, OpenFiles, Goto, Fail
<1>5. CASE CreateHeader
  BY <1>1, <1>2, <1>5 DEF CreateHeader, Goto
<1>6. CASE BuildBlock
  BY <1>6 DEF BuildBlock, Goto
<1>7. CASE CloseFiles
  BY <1>7 DEF CloseFiles, Leave
<1> QED
  BY <1>3, <1>4, <1>5, <1>6, <1>7 DEF Rebuild

-----------------------------------------------------------------------------
(* What the last run found.                                                  *)

FoundAt ==
  FileExists(found) =>
    /\ step \in {"backup", "rename"} => index = found
    /\ step \in {"open", "header", "body", "close"} => backup = found
    /\ step = "idle" => found \in {index, backup}

LEMMA FoundKept ==
  ASSUME ToolInv, FoundAt, RunsNext
  PROVE  FoundAt'
<1>0. index \in StreamType(IndexCell)
  BY NextFacts
<1>1. CASE StartRun
  <2>1. step' = FirstStep /\ found' = index /\ index' = index
    BY <1>1 DEF StartRun, Start
  <2>2. FileExists(index) => step' = "backup"
    BY <2>1 DEF FirstStep
  <2> QED
    BY <2>1, <2>2 DEF FoundAt
<1>2. CASE RemoveBackup /\ UNCHANGED <<found, runs>>
  <2>1. step = "backup" /\ Closed(index)
    BY <1>2 DEF RemoveBackup, ToolInv, FilesAt
  <2>2. CASE Goto("rename") /\ UNCHANGED <<data, index, pos>>
    BY <1>2, <2>1, <2>2 DEF FoundAt, Goto
  <2>3. CASE Fail("REMOVE_BAK")
    <3>1. index' = Close(index) /\ step' = "idle"
      BY <2>3 DEF Fail, Leave
    <3>2. index' = index
      BY <1>0, <2>1, <3>1, CloseClosed
    <3> QED
      BY <1>2, <2>1, <3>1, <3>2 DEF FoundAt
  <2> QED
    BY <1>2, <2>2, <2>3 DEF RemoveBackup
<1>3. CASE RenameIndex /\ UNCHANGED <<found, runs>>
  <2>1. step = "rename" /\ Closed(index)
    BY <1>3 DEF RenameIndex, ToolInv, FilesAt
  <2>2. CASE backup' = index /\ Goto("open")
    BY <1>3, <2>1, <2>2 DEF FoundAt, Goto
  <2>3. CASE Fail("RENAME_BAK")
    <3>1. index' = Close(index) /\ step' = "idle"
      BY <2>3 DEF Fail, Leave
    <3>2. index' = index
      BY <1>0, <2>1, <3>1, CloseClosed
    <3> QED
      BY <1>3, <2>1, <3>1, <3>2 DEF FoundAt
  <2> QED
    BY <1>3, <2>2, <2>3 DEF RenameIndex
<1>4. CASE (OpenFiles \/ CreateHeader \/ BuildBlock \/ CloseFiles) /\ UNCHANGED <<found, runs>>
  <2>1. step \in {"open", "header", "body", "close"} /\ backup' = backup
    BY <1>4 DEF OpenFiles, CreateHeader, BuildBlock, CloseFiles
  <2>2. step' \in {"header", "body", "close", "idle"}
    BY <1>4 DEF OpenFiles, CreateHeader, BuildBlock, CloseFiles, Goto, Leave, Fail
  <2> QED
    BY <1>4, <2>1, <2>2 DEF FoundAt
<1>5. CASE Killed /\ UNCHANGED <<found, runs>>
  <2>1. step \in Steps \ {"idle"} /\ step' = "idle" /\ backup' = backup
        /\ index' \in LostIndex(index)
    BY <1>5 DEF Killed, ToolInv, ToolTyped
  <2>2. step \in {"backup", "rename"} => index' = index
    <3>1. step \in {"backup", "rename"} => Closed(index)
      BY DEF ToolInv, FilesAt
    <3> QED
      BY <1>0, <2>1, <3>1, LostFacts
  <2> QED
    BY <1>5, <2>1, <2>2 DEF FoundAt, Steps
<1> QED
  BY <1>1, <1>2, <1>3, <1>4, <1>5 DEF RunsNext, Continue

-----------------------------------------------------------------------------
(* The theorems.                                                             *)

(* What the runs themselves count, and the index the last of them left.      *)
RunsInv ==
  /\ found \in StreamType(IndexCell) /\ runs \in Nat /\ pos <= Len(Contents(data))
  /\ FoundAt
  /\ Whole(Contents(data)) /\ step = "idle" /\ result = "TRUE" =>
       IndexedUpTo(Contents(index), Contents(data), Len(Contents(data)))

LEMMA RunsInductive ==
  ASSUME ToolInv, RunsInv, [RunsNext]_runsVars
  PROVE  ToolInv' /\ RunsInv'
<1>1. CASE RunsNext
  <2>1. Rebuild \/ Killed
    BY <1>1 DEF RunsNext, StartRun, Continue, Rebuild
  <2>2. ToolInv' /\ ToolEffect
    BY <2>1, ToolStep
  <2>3. FoundAt'
    BY <1>1, FoundKept DEF RunsInv
  <2>4. found' \in StreamType(IndexCell) /\ runs' \in Nat
    <3>1. /\ index \in StreamType(IndexCell) /\ found \in StreamType(IndexCell)
          /\ runs \in Nat
      BY NextFacts DEF RunsInv
    <3>2. found' \in {found, index} /\ runs' \in {runs, runs + 1}
      BY <1>1 DEF RunsNext, StartRun
    <3> QED
      BY <3>1, <3>2
  <2>5. pos' <= Len(Contents(data'))
    BY <2>2 DEF ToolEffect, RunsInv
  <2> QED
    BY <2>2, <2>3, <2>4, <2>5 DEF RunsInv, ToolEffect
<1>2. CASE UNCHANGED runsVars
  <2>1. UNCHANGED <<data, index, backup, step, pos, result, found, runs>>
    BY <1>2 DEF runsVars, toolVars
  <2>2. ToolInv'
    BY <2>1 DEF ToolInv, ToolTyped, FilesAt, BuiltAt
  <2>3. RunsInv'
    BY <2>1 DEF RunsInv, FoundAt
  <2> QED
    BY <2>2, <2>3
<1> QED
  BY <1>1, <1>2

LEMMA ToolInvariant == RunsSpec => [](ToolInv /\ RunsInv)
<1>1. RunsInit => ToolInv /\ RunsInv
  <2> SUFFICES ASSUME RunsInit PROVE ToolInv /\ RunsInv
    OBVIOUS
  <2>1. ToolInv
    BY ToolInitial
  <2>2. found = Absent /\ runs = 0 /\ pos = 0 /\ result = ""
    BY DEF RunsInit
  <2>3. Len(Contents(data)) \in Nat /\ Absent \in StreamType(IndexCell) /\ ~FileExists(Absent)
    BY <2>1, DataFacts, AbsentFacts, AbsentClosed
  <2>4. pos <= Len(Contents(data)) /\ runs \in Nat
    <3>1. Len(Contents(data)) \in Nat /\ pos = 0 /\ runs = 0
      BY <2>2, <2>3
    <3> QED
      BY <3>1
  <2> QED
    BY <2>1, <2>2, <2>3, <2>4 DEF RunsInv, FoundAt
<1>2. ToolInv /\ RunsInv /\ [RunsNext]_runsVars => (ToolInv /\ RunsInv)'
  BY RunsInductive
<1> QED
  BY <1>1, <1>2, PTL DEF RunsSpec

(* Every variable of the tool keeps its type, whatever files it finds.       *)
THEOREM ToolTypeCorrect == RunsSpec => []ToolTypeOK
<1>1. ToolInv /\ RunsInv => ToolTypeOK
  BY DEF ToolInv, ToolTyped, FilesAt, Closed, RunsInv, ToolTypeOK
<1> QED
  BY <1>1, ToolInvariant, PTL

(* buildBody: a run that returns true on a data file that ends in a record   *)
(* leaves exactly the index of that file, however large the file, whatever   *)
(* index it found and however often it was killed before.                    *)
THEOREM RebuildIsExact == RunsSpec => []RebuiltExactly
<1>1. RunsInv => RebuiltExactly
  BY DEF RunsInv, RebuiltExactly, Whole
<1> QED
  BY <1>1, ToolInvariant, PTL

(* renameFileIndex: the index file that a run found survives every failure   *)
(* and every kill, as the index file or as the backup.                       *)
THEOREM OldIndexSurvives == RunsSpec => []OldIndexKept
<1>1. ToolInv /\ RunsInv => OldIndexKept
  <2> SUFFICES ASSUME ToolInv, RunsInv, FileExists(found) PROVE found \in {index, backup}
    BY DEF OldIndexKept
  <2>1. step \in Steps
    BY NextFacts
  <2> QED
    BY <2>1 DEF FoundAt, RunsInv, Steps
<1> QED
  BY <1>1, ToolInvariant, PTL

-----------------------------------------------------------------------------
(* Now the store, the tool and kills over one pair of files.                 *)

(* What it rests on: a killed process leaves a data file that ends in a      *)
(* record, the tool is run before the sensor is opened again and is not      *)
(* itself met by failing file operations, and a buffer holds two cells.      *)
RepairedLife == Cuts \subseteq {"value"} /\ RepairFirst /\ ~IOErrors /\ BufCap > 1

-----------------------------------------------------------------------------
(* The log: value k of the data file is value k of the history.              *)

ValueRecord == [time : Nat, value : Nat]

LogOf(c, h) ==
  /\ \A i \in 1 .. Len(c) : IsValue(c, i) =>
       c[i].value \in 1 .. Len(h) /\ Stamped(c, i) = h[c[i].value]
  /\ \A k \in 1 .. Len(h) : \E i \in 1 .. Len(c) : IsValue(c, i) /\ c[i].value = k
  /\ \A i, j \in 1 .. Len(c) :
       i < j /\ IsValue(c, i) /\ IsValue(c, j) => c[i].value < c[j].value
  /\ \A i \in 1 .. Len(c) : IsHour(c, i) => c[i].hour > 0

Growing(h) == \A j, k \in 1 .. Len(h) : j < k => h[j].time < h[k].time

(* The last entry of the index leads to the last hour of the data.           *)
Leads(e, c) ==
  LET last == e[Len(e)]
  IN  /\ Len(e) > 0 /\ IsEntry(e, Len(e)) /\ last.pos \in 1 .. Len(c) - 1
      /\ c[last.pos + 1] = HourCell(last.hour)
      /\ \A i \in last.pos + 2 .. Len(c) : ~IsHour(c, i)

-----------------------------------------------------------------------------
(* Cells behind a data file.                                                 *)

LEMMA CellFacts ==
  /\ \A x \in DataCell : x.kind = "value" => x \in Cell /\ x.offset \in Nat /\ x.value \in Nat
  /\ \A x \in DataCell : x.kind = "hour" => x.hour \in Nat
  /\ \A off \in Nat, v \in Nat : ValueCell(off, v) \in Cell /\ ValueCell(off, v).kind = "value"
  /\ \A hour \in Nat : HourCell(hour) \in Cell /\ HourCell(hour).kind = "hour"
  /\ EndLine \in Cell /\ EndLine.kind = "endline"
  /\ HeaderCell("Float") \in Cell /\ HeaderCell("Float").kind = "header"
  /\ \A x \in Cell : x \in DataCell
<1>1. \A x \in DataCell : x.kind = "value" => x \in Cell /\ x.offset \in Nat /\ x.value \in Nat
  BY DEF DataCell, Cell, EndLine, ForeignHeader
<1>2. \A x \in DataCell : x.kind = "hour" => x.hour \in Nat
  BY CellsTyped
<1>3. \A off \in Nat, v \in Nat :
        ValueCell(off, v) \in Cell /\ ValueCell(off, v).kind = "value"
  BY DEF ValueCell, Cell
<1>4. \A hour \in Nat : HourCell(hour) \in Cell /\ HourCell(hour).kind = "hour"
  BY DEF HourCell, Cell
<1>5. /\ EndLine \in Cell /\ EndLine.kind = "endline"
      /\ HeaderCell("Float") \in Cell /\ HeaderCell("Float").kind = "header"
  BY DEF EndLine, HeaderCell, Cell, ValueTypes
<1> QED
  BY <1>1, <1>2, <1>3, <1>4, <1>5 DEF DataCell

(* One cell more.                                                            *)
LEMMA OneMore ==
  ASSUME NEW C, NEW c \in Seq(C), NEW cell \in C
  PROVE  /\ Append(c, cell) \in Seq(C) /\ Len(Append(c, cell)) = Len(c) + 1
         /\ Len(c) \in Nat
         /\ \A i \in 1 .. Len(c) : Append(c, cell)[i] = c[i]
         /\ Append(c, cell)[Len(c) + 1] = cell
  OBVIOUS

LEMMA WellAppend ==
  ASSUME NEW c \in Seq(DataCell), WellFormed(c), NEW cell \in Cell, cell.kind # "header",
         cell.kind = "hour" <=> c[Len(c)].kind \in {"header", "endline"}
  PROVE  WellFormed(Append(c, cell))
<1> DEFINE d == Append(c, cell)
<1>1. cell \in DataCell
  BY CellFacts
<1>2. /\ Len(d) = Len(c) + 1 /\ Len(c) \in Nat
      /\ \A i \in 1 .. Len(c) : d[i] = c[i]
      /\ d[Len(c) + 1] = cell
  BY <1>1, OneMore
<1> HIDE DEF d
<1>3. Len(c) > 0 /\ d[1] \in [kind : {"header"}, type : ValueTypes]
  BY <1>2 DEF WellFormed
<1>4. ASSUME NEW i \in 2 .. Len(d)
      PROVE  /\ d[i] \in Cell /\ d[i].kind # "header"
             /\ IsHour(d, i) <=> d[i - 1].kind \in {"header", "endline"}
  <2>1. CASE i <= Len(c)
    <3>1. i \in 2 .. Len(c) /\ d[i] = c[i] /\ d[i - 1] = c[i - 1]
      BY <1>2, <1>4, <2>1
    <3> QED
      BY <3>1 DEF WellFormed, IsHour
  <2>2. CASE i = Len(c) + 1
    <3>1. d[i] = cell /\ d[i - 1] = c[Len(c)]
      BY <1>2, <1>3, <2>2
    <3> QED
      BY <3>1 DEF IsHour
  <2> QED
    BY <1>2, <1>4, <2>1, <2>2
<1>5. WellFormed(d)
  BY <1>2, <1>3, <1>4 DEF WellFormed
<1> QED
  BY <1>5 DEF d

(* Every value has an hour before it.                                        *)
LEMMA HourBefore ==
  ASSUME NEW c \in Seq(DataCell), WellFormed(c), NEW i \in 1 .. Len(c), IsValue(c, i)
  PROVE  2 \in 1 .. i /\ IsHour(c, 2)
<1>1. c[1].kind = "header" /\ c[i].kind = "value" /\ Len(c) \in Nat
  BY DEF WellFormed, IsValue
<1>2. i >= 2 /\ 2 \in 2 .. Len(c)
  BY <1>1
<1>3. IsHour(c, 2)
  BY <1>1, <1>2 DEF WellFormed
<1> QED
  BY <1>2, <1>3

(* What is appended to a file leaves the time of a value as it was.          *)
LEMMA StampedAgrees ==
  ASSUME NEW c \in Seq(DataCell), WellFormed(c), NEW d, NEW i \in 1 .. Len(c), IsValue(c, i),
         \A k \in 1 .. i : d[k] = c[k]
  PROVE  Stamped(d, i) = Stamped(c, i)
<1>1. 2 \in 1 .. i /\ IsHour(c, 2) /\ i \in Nat
  BY HourBefore
<1>2. HourAt(d, i) = HourAt(c, i)
  BY <1>1, HourAgrees
<1>3. d[i] = c[i]
  BY <1>1
<1> QED
  BY <1>2, <1>3 DEF Stamped, TimeAt

(* An hour or an end mark more: the log is the same.                         *)
LEMMA MarkLogged ==
  ASSUME NEW c \in Seq(DataCell), WellFormed(c), NEW h \in Seq(ValueRecord), LogOf(c, h),
         NEW cell \in DataCell, cell.kind # "value", cell.kind = "hour" => cell.hour > 0
  PROVE  LogOf(Append(c, cell), h)
<1> DEFINE d == Append(c, cell)
<1>1. /\ Len(d) = Len(c) + 1 /\ Len(c) \in Nat
      /\ \A i \in 1 .. Len(c) : d[i] = c[i]
      /\ d[Len(c) + 1] = cell
  BY OneMore
<1> HIDE DEF d
<1>2. ASSUME NEW i \in 1 .. Len(d), IsValue(d, i)
      PROVE  i \in 1 .. Len(c) /\ IsValue(c, i) /\ d[i] = c[i] /\ Stamped(d, i) = Stamped(c, i)
  <2>1. i # Len(c) + 1
    BY <1>1, <1>2 DEF IsValue
  <2>2. i \in 1 .. Len(c)
    BY <1>1, <2>1
  <2>3. IsValue(c, i) /\ d[i] = c[i]
    BY <1>1, <1>2, <2>2 DEF IsValue
  <2>4. \A k \in 1 .. i : d[k] = c[k]
    BY <1>1, <2>2
  <2>5. Stamped(d, i) = Stamped(c, i)
    BY <2>2, <2>3, <2>4, StampedAgrees
  <2> QED
    BY <2>2, <2>3, <2>5
<1>3. ASSUME NEW i \in 1 .. Len(d), IsValue(d, i)
      PROVE  d[i].value \in 1 .. Len(h) /\ Stamped(d, i) = h[d[i].value]
  BY <1>2, <1>3 DEF LogOf
<1>4. ASSUME NEW k \in 1 .. Len(h)
      PROVE  \E i \in 1 .. Len(d) : IsValue(d, i) /\ d[i].value = k
  <2>1. PICK i \in 1 .. Len(c) : IsValue(c, i) /\ c[i].value = k
    BY <1>4 DEF LogOf
  <2>2. i \in 1 .. Len(d) /\ d[i] = c[i]
    BY <1>1
  <2> QED
    BY <2>1, <2>2 DEF IsValue
<1>5. ASSUME NEW i \in 1 .. Len(d), NEW j \in 1 .. Len(d), i < j, IsValue(d, i), IsValue(d, j)
      PROVE  d[i].value < d[j].value
  <2>1. /\ i \in 1 .. Len(c) /\ IsValue(c, i) /\ d[i] = c[i]
        /\ j \in 1 .. Len(c) /\ IsValue(c, j) /\ d[j] = c[j]
    BY <1>2, <1>5
  <2> QED
    BY <1>5, <2>1 DEF LogOf
<1>6. ASSUME NEW i \in 1 .. Len(d), IsHour(d, i) PROVE d[i].hour > 0
  <2>1. CASE i = Len(c) + 1
    BY <1>1, <1>6, <2>1 DEF IsHour
  <2>2. CASE i # Len(c) + 1
    <3>1. i \in 1 .. Len(c) /\ d[i] = c[i]
      BY <1>1, <2>2
    <3> QED
      BY <1>6, <3>1 DEF LogOf, IsHour
  <2> QED
    BY <2>1, <2>2
<1>7. LogOf(d, h)
  BY <1>3, <1>4, <1>5, <1>6 DEF LogOf
<1> QED
  BY <1>7 DEF d

(* One value more, in the hour of the cell before it.                        *)
LEMMA ValueLogged ==
  ASSUME NEW c \in Seq(DataCell), WellFormed(c), NEW h \in Seq(ValueRecord), LogOf(c, h),
         NEW offset \in Nat, NEW time \in Nat,
         NEW j \in Latest(c, Len(c)), time = ToTimeT(c[j].hour, offset)
  PROVE  LogOf(Append(c, ValueCell(offset, Len(h) + 1)),
               Append(h, [time |-> time, value |-> Len(h) + 1]))
<1> DEFINE cell   == ValueCell(offset, Len(h) + 1)
           record == [time |-> time, value |-> Len(h) + 1]
           d      == Append(c, cell)
           g      == Append(h, record)
<1>0. Len(h) \in Nat /\ record \in ValueRecord
  BY DEF ValueRecord
<1>1. cell \in DataCell /\ cell.kind = "value" /\ cell.offset = offset
      /\ cell.value = Len(h) + 1
  BY <1>0, CellFacts DEF ValueCell
<1>2. /\ Len(d) = Len(c) + 1 /\ Len(c) \in Nat
      /\ \A i \in 1 .. Len(c) : d[i] = c[i]
      /\ d[Len(c) + 1] = cell
  BY <1>1, OneMore
<1>3. /\ Len(g) = Len(h) + 1 /\ \A k \in 1 .. Len(h) : g[k] = h[k]
      /\ g[Len(h) + 1] = record
  BY <1>0, OneMore
<1>r. record.time = time /\ record.value = Len(h) + 1
  OBVIOUS
<1> HIDE DEF d, g, cell
<1>4. Stamped(d, Len(c) + 1) = record
  <2>1. /\ j \in 1 .. Len(c) /\ IsHour(c, j)
        /\ \A k \in j + 1 .. Len(c) : ~IsHour(c, k)
    BY DEF Latest
  <2>2. d[j] = c[j] /\ IsHour(d, j) /\ j \in 1 .. Len(c) + 1
    BY <1>2, <2>1 DEF IsHour
  <2>3. ASSUME NEW k \in j + 1 .. Len(c) + 1 PROVE ~IsHour(d, k)
    <3>1. CASE k = Len(c) + 1
      BY <1>1, <1>2, <3>1 DEF IsHour
    <3>2. CASE k # Len(c) + 1
      <4>1. k \in 1 .. Len(c) /\ k \in j + 1 .. Len(c)
        BY <1>2, <2>1, <3>2
      <4> QED
        BY <1>2, <2>1, <4>1 DEF IsHour
    <3> QED
      BY <3>1, <3>2
  <2>4. j \in Latest(d, Len(c) + 1)
    BY <2>2, <2>3 DEF Latest
  <2>5. Len(c) + 1 \in Nat
    BY <1>2
  <2>6. HourAt(d, Len(c) + 1) = c[j].hour
    BY <2>2, <2>4, <2>5, HourOfLatest
  <2> QED
    BY <1>1, <1>2, <2>6 DEF Stamped, TimeAt
<1>5. ASSUME NEW i \in 1 .. Len(d), i # Len(c) + 1
      PROVE  i \in 1 .. Len(c) /\ d[i] = c[i]
  BY <1>2, <1>5
<1>6. ASSUME NEW i \in 1 .. Len(c), IsValue(c, i)
      PROVE  /\ c[i].value \in 1 .. Len(h) /\ c[i].value <= Len(h)
             /\ Stamped(d, i) = h[c[i].value]
  <2>1. \A k \in 1 .. i : d[k] = c[k]
    BY <1>2
  <2>2. Stamped(d, i) = Stamped(c, i)
    BY <1>6, <2>1, StampedAgrees
  <2>3. c[i].value \in 1 .. Len(h) /\ Stamped(c, i) = h[c[i].value]
    BY <1>6 DEF LogOf
  <2> QED
    BY <1>0, <2>2, <2>3
<1>7. ASSUME NEW i \in 1 .. Len(d), IsValue(d, i)
      PROVE  d[i].value \in 1 .. Len(g) /\ Stamped(d, i) = g[d[i].value]
  <2>1. CASE i = Len(c) + 1
    <3>1. d[i].value = Len(h) + 1
      BY <1>1, <1>2, <2>1
    <3>2. Len(h) + 1 \in 1 .. Len(g)
      BY <1>0, <1>3
    <3> QED
      BY <1>3, <1>4, <2>1, <3>1, <3>2
  <2>2. CASE i # Len(c) + 1
    <3>1. i \in 1 .. Len(c) /\ d[i] = c[i]
      BY <1>5, <2>2
    <3>2. IsValue(c, i)
      BY <1>7, <3>1 DEF IsValue
    <3>3. c[i].value \in 1 .. Len(h) /\ Stamped(d, i) = h[c[i].value]
      BY <1>6, <3>1, <3>2
    <3>4. c[i].value \in 1 .. Len(g)
      BY <1>0, <1>3, <3>3
    <3> QED
      BY <1>3, <3>1, <3>3, <3>4
  <2> QED
    BY <2>1, <2>2
<1>8. ASSUME NEW k \in 1 .. Len(g)
      PROVE  \E i \in 1 .. Len(d) : IsValue(d, i) /\ d[i].value = k
  <2>1. CASE k = Len(h) + 1
    <3>1. Len(c) + 1 \in 1 .. Len(d)
      BY <1>2
    <3>2. IsValue(d, Len(c) + 1) /\ d[Len(c) + 1].value = k
      BY <1>1, <1>2, <2>1 DEF IsValue
    <3> QED
      BY <3>1, <3>2
  <2>2. CASE k # Len(h) + 1
    <3>1. k \in 1 .. Len(h)
      BY <1>0, <1>3, <2>2
    <3>2. PICK i \in 1 .. Len(c) : IsValue(c, i) /\ c[i].value = k
      BY <3>1 DEF LogOf
    <3>3. i \in 1 .. Len(d) /\ d[i] = c[i]
      BY <1>2
    <3> QED
      BY <3>2, <3>3 DEF IsValue
  <2> QED
    BY <2>1, <2>2
<1>9. ASSUME NEW i \in 1 .. Len(d), NEW k \in 1 .. Len(d), i < k, IsValue(d, i), IsValue(d, k)
      PROVE  d[i].value < d[k].value
  <2>1. i # Len(c) + 1
    BY <1>2, <1>9
  <2>2. i \in 1 .. Len(c) /\ d[i] = c[i]
    BY <1>5, <2>1
  <2>3. IsValue(c, i)
    BY <1>9, <2>2 DEF IsValue
  <2>4. CASE k = Len(c) + 1
    <3>1. d[k].value = Len(h) + 1
      BY <1>1, <1>2, <2>4
    <3>2. d[i].value \in Nat /\ d[i].value <= Len(h)
      BY <1>6, <2>2, <2>3
    <3> QED
      BY <1>0, <3>1, <3>2
  <2>5. CASE k # Len(c) + 1
    <3>1. k \in 1 .. Len(c) /\ d[k] = c[k]
      BY <1>5, <2>5
    <3>2. IsValue(c, k)
      BY <1>9, <3>1 DEF IsValue
    <3> QED
      BY <1>9, <2>2, <2>3, <3>1, <3>2 DEF LogOf
  <2> QED
    BY <2>4, <2>5
<1>10. ASSUME NEW i \in 1 .. Len(d), IsHour(d, i) PROVE d[i].hour > 0
  <2>1. i # Len(c) + 1
    BY <1>1, <1>2, <1>10 DEF IsHour
  <2>2. i \in 1 .. Len(c) /\ d[i] = c[i]
    BY <1>5, <2>1
  <2> QED
    BY <1>10, <2>2 DEF LogOf, IsHour
<1>11. LogOf(d, g)
  BY <1>7, <1>8, <1>9, <1>10 DEF LogOf
<1> QED
  BY <1>11 DEF d, g, cell

LEMMA GrowingAppend ==
  ASSUME NEW h \in Seq(ValueRecord), Growing(h), NEW record \in ValueRecord,
         \A k \in 1 .. Len(h) : h[k].time < record.time
  PROVE  Growing(Append(h, record))
<1> DEFINE g == Append(h, record)
<1>1. /\ Len(g) = Len(h) + 1 /\ Len(h) \in Nat
      /\ \A k \in 1 .. Len(h) : g[k] = h[k]
      /\ g[Len(h) + 1] = record
  BY OneMore
<1> HIDE DEF g
<1>2. ASSUME NEW j \in 1 .. Len(g), NEW k \in 1 .. Len(g), j < k
      PROVE  g[j].time < g[k].time
  <2>1. j \in 1 .. Len(h) /\ g[j] = h[j]
    BY <1>1, <1>2
  <2>2. CASE k = Len(h) + 1
    BY <1>1, <2>1, <2>2
  <2>3. CASE k # Len(h) + 1
    <3>1. k \in 1 .. Len(h) /\ g[k] = h[k]
      BY <1>1, <2>3
    <3> QED
      BY <1>2, <2>1, <3>1 DEF Growing
  <2> QED
    BY <2>2, <2>3
<1> QED
  BY <1>2 DEF Growing, g

-----------------------------------------------------------------------------
(* The beginning of a log.                                                   *)

LEMMA Beginning ==
  ASSUME NEW C, NEW c \in Seq(C), NEW m \in 0 .. Len(c)
  PROVE  /\ SubSeq(c, 1, m) \in Seq(C) /\ Len(SubSeq(c, 1, m)) = m
         /\ \A i \in 1 .. m : SubSeq(c, 1, m)[i] = c[i]
<1>1. m \in Nat /\ m <= Len(c) /\ Len(c) \in Nat
  OBVIOUS
<1>2. Len(SubSeq(c, 1, m)) = m /\ \A i \in 1 .. m : SubSeq(c, 1, m)[i] = c[i]
  BY <1>1
<1>3. \A i \in 1 .. m : c[i] \in C
  BY <1>1
<1> QED
  BY <1>1, <1>2, <1>3

LEMMA GrowingCut ==
  ASSUME NEW h \in Seq(ValueRecord), Growing(h), NEW v \in 0 .. Len(h)
  PROVE  Growing(SubSeq(h, 1, v))
<1>1. /\ Len(SubSeq(h, 1, v)) = v /\ \A i \in 1 .. v : SubSeq(h, 1, v)[i] = h[i]
  BY Beginning
<1>2. ASSUME NEW j \in 1 .. v, NEW k \in 1 .. v, j < k PROVE h[j].time < h[k].time
  <2>1. j \in 1 .. Len(h) /\ k \in 1 .. Len(h)
    OBVIOUS
  <2> QED
    BY <1>2, <2>1 DEF Growing
<1> QED
  BY <1>1, <1>2 DEF Growing

(* Cut behind a value, a data file is whole, and it has the values up to it. *)
LEMMA LogCut ==
  ASSUME NEW c \in Seq(DataCell), WellFormed(c), NEW h \in Seq(ValueRecord), LogOf(c, h),
         NEW m \in 1 .. Len(c), IsValue(c, m)
  PROVE  /\ Whole(SubSeq(c, 1, m)) /\ c[m].value \in 1 .. Len(h)
         /\ LogOf(SubSeq(c, 1, m), SubSeq(h, 1, c[m].value))
<1> DEFINE d == SubSeq(c, 1, m)
           v == c[m].value
           g == SubSeq(h, 1, v)
<1>0. v \in 1 .. Len(h) /\ Len(h) \in Nat /\ Len(c) \in Nat
  BY DEF LogOf
<1>1. Len(d) = m /\ \A i \in 1 .. m : d[i] = c[i]
  BY Beginning
<1>2. Len(g) = v /\ \A k \in 1 .. v : g[k] = h[k]
  BY <1>0, Beginning
<1> HIDE DEF d, g
<1>3. WellFormed(d)
  <2>1. Len(d) > 0 /\ d[1] \in [kind : {"header"}, type : ValueTypes]
    BY <1>1 DEF WellFormed
  <2>2. ASSUME NEW i \in 2 .. Len(d)
        PROVE  /\ d[i] \in Cell /\ d[i].kind # "header"
               /\ IsHour(d, i) <=> d[i - 1].kind \in {"header", "endline"}
    <3>1. i \in 2 .. Len(c) /\ d[i] = c[i] /\ d[i - 1] = c[i - 1]
      BY <1>0, <1>1, <2>2
    <3> QED
      BY <3>1 DEF WellFormed, IsHour
  <2> QED
    BY <2>1, <2>2 DEF WellFormed
<1>4. EndsWhole(d)
  BY <1>1 DEF EndsWhole, IsValue
<1>5. ASSUME NEW i \in 1 .. Len(d), IsValue(d, i)
      PROVE  /\ i \in 1 .. Len(c) /\ IsValue(c, i) /\ d[i] = c[i] /\ c[i].value \in 1 .. v
             /\ Stamped(d, i) = h[c[i].value]
  <2>1. i \in 1 .. Len(c) /\ d[i] = c[i] /\ i <= m
    BY <1>0, <1>1
  <2>2. IsValue(c, i)
    BY <1>5, <2>1 DEF IsValue
  <2>3. c[i].value \in 1 .. Len(h) /\ Stamped(c, i) = h[c[i].value]
    BY <2>1, <2>2 DEF LogOf
  <2>4. i < m => c[i].value < v
    BY <2>1, <2>2 DEF LogOf
  <2>5. i = m => c[i].value = v
    OBVIOUS
  <2>6. c[i].value \in 1 .. v
    BY <1>0, <2>1, <2>3, <2>4, <2>5
  <2>7. \A k \in 1 .. i : d[k] = c[k]
    BY <1>0, <1>1, <2>1
  <2>8. Stamped(d, i) = Stamped(c, i)
    BY <2>1, <2>2, <2>7, StampedAgrees
  <2> QED
    BY <2>1, <2>2, <2>3, <2>6, <2>8
<1>6. ASSUME NEW i \in 1 .. Len(d), IsValue(d, i)
      PROVE  d[i].value \in 1 .. Len(g) /\ Stamped(d, i) = g[d[i].value]
  BY <1>2, <1>5, <1>6
<1>7. ASSUME NEW k \in 1 .. Len(g)
      PROVE  \E i \in 1 .. Len(d) : IsValue(d, i) /\ d[i].value = k
  <2>1. k \in 1 .. Len(h) /\ k <= v
    BY <1>0, <1>2
  <2>2. PICK i \in 1 .. Len(c) : IsValue(c, i) /\ c[i].value = k
    BY <2>1 DEF LogOf
  <2>3. ~(m < i)
    <3>1. m < i => v < k
      BY <2>2 DEF LogOf
    <3> QED
      BY <1>0, <2>1, <3>1
  <2>4. i \in 1 .. Len(d) /\ d[i] = c[i]
    BY <1>0, <1>1, <2>3
  <2> QED
    BY <2>2, <2>4 DEF IsValue
<1>8. ASSUME NEW i \in 1 .. Len(d), NEW j \in 1 .. Len(d), i < j, IsValue(d, i), IsValue(d, j)
      PROVE  d[i].value < d[j].value
  <2>1. /\ i \in 1 .. Len(c) /\ IsValue(c, i) /\ d[i] = c[i]
        /\ j \in 1 .. Len(c) /\ IsValue(c, j) /\ d[j] = c[j]
    BY <1>5, <1>8
  <2> QED
    BY <1>8, <2>1 DEF LogOf
<1>9. ASSUME NEW i \in 1 .. Len(d), IsHour(d, i) PROVE d[i].hour > 0
  <2>1. i \in 1 .. Len(c) /\ d[i] = c[i]
    BY <1>0, <1>1
  <2> QED
    BY <1>9, <2>1 DEF LogOf, IsHour
<1>10. LogOf(d, g)
  BY <1>6, <1>7, <1>8, <1>9 DEF LogOf
<1> QED
  BY <1>0, <1>3, <1>4, <1>10 DEF Whole, d, g

-----------------------------------------------------------------------------
(* What the data file decodes to.                                            *)

(* A log of so many values has so many up to each.                           *)
LEMMA ValueCount ==
  ASSUME NEW c \in Seq(DataCell), NEW h \in Seq(ValueRecord), LogOf(c, h), NEW v \in 0 .. Len(h)
  PROVE  Cardinality({i \in 1 .. Len(c) : IsValue(c, i) /\ c[i].value <= v}) = v
<1> DEFINE S == {i \in 1 .. Len(c) : IsValue(c, i) /\ c[i].value <= v}
           f == [i \in S |-> c[i].value]
<1>1. v \in Nat /\ v <= Len(h) /\ Len(c) \in Nat /\ Len(h) \in Nat
  OBVIOUS
<1>2. \A i \in S : c[i].value \in 1 .. v
  <2> TAKE i \in S
  <2>1. c[i].value \in 1 .. Len(h) /\ c[i].value <= v
    BY DEF LogOf
  <2> QED
    BY <1>1, <2>1
<1>3. f \in [S -> 1 .. v]
  BY <1>2
<1>4. \A i, j \in S : f[i] = f[j] => i = j
  <2>1. ASSUME NEW i \in S, NEW j \in S, i < j PROVE c[i].value # c[j].value
    <3>1. c[i].value < c[j].value
      BY <2>1 DEF LogOf
    <3> QED
      BY <1>2, <3>1
  <2>2. \A i \in S : f[i] = c[i].value /\ i \in Nat
    OBVIOUS
  <2> HIDE DEF f, S
  <2>3. ASSUME NEW i \in S, NEW j \in S, f[i] = f[j] PROVE i = j
    BY <2>1, <2>2, <2>3
  <2> QED
    BY <2>3
<1>5. \A k \in 1 .. v : \E i \in S : f[i] = k
  <2> TAKE k \in 1 .. v
  <2>0. k \in 1 .. Len(h)
    BY <1>1
  <2>1. PICK i \in 1 .. Len(c) : IsValue(c, i) /\ c[i].value = k
    BY <2>0 DEF LogOf
  <2> QED
    BY <2>1
<1>6. f \in Bijection(S, 1 .. v)
  BY <1>3, <1>4, <1>5, Fun_IsBij
<1>7. IsFiniteSet(S)
  <2>1. 1 \in Int /\ Len(c) \in Int
    BY <1>1
  <2>2. IsFiniteSet(1 .. Len(c))
    BY <2>1, FS_Interval
  <2>3. S \in SUBSET (1 .. Len(c))
    OBVIOUS
  <2> QED
    BY <2>2, <2>3, FS_Subset
<1>8. Cardinality(1 .. v) = Cardinality(S)
  BY <1>6, <1>7, FS_Bijection, Fun_ExistsBij
<1>9. Cardinality(1 .. v) = v
  BY <1>1, FS_Interval
<1> QED
  BY <1>8, <1>9

ValueCells(c) == {i \in 1 .. Len(c) : IsValue(c, i)}

LEMMA AllReadable ==
  ASSUME NEW c \in Seq(DataCell), c = <<>> \/ WellFormed(c)
  PROVE  Readable(c) = ValueCells(c)
<1>1. Len(c) \in Nat /\ \A i \in 1 .. Len(c) : ~IsTorn(c, i)
  <2>1. CASE c = <<>>
    BY <2>1
  <2>2. CASE WellFormed(c)
    <3>1. Len(c) \in Nat /\ c[1].kind # "torn"
      BY <2>2 DEF WellFormed
    <3>2. \A x \in Cell : x.kind # "torn"
      BY DEF Cell, EndLine
    <3>3. \A i \in 2 .. Len(c) : c[i].kind # "torn"
      BY <2>2, <3>2 DEF WellFormed
    <3>4. ASSUME NEW i \in 1 .. Len(c) PROVE c[i].kind # "torn"
      <4>1. i = 1 \/ i \in 2 .. Len(c)
        BY <3>1
      <4> QED
        BY <3>1, <3>3, <4>1
    <3> QED
      BY <3>1, <3>4 DEF IsTorn
  <2> QED
    BY <2>1, <2>2
<1>2. {i \in 1 .. Len(c) : IsTorn(c, i)} = {}
  BY <1>1
<1>3. FirstOf(c, {i \in 1 .. Len(c) : IsTorn(c, i)}) = Len(c) + 1
  BY <1>2 DEF FirstOf
<1>4. Within(c, 0, Len(c) + 1) = ValueCells(c)
  <2>1. 0 + 1 = 1 /\ Len(c) + 1 - 1 = Len(c)
    BY <1>1
  <2> QED
    BY <2>1 DEF Within, ValueCells
<1>5. Readable(c) = Within(c, 0, FirstOf(c, {i \in 1 .. Len(c) : IsTorn(c, i)}))
  BY DEF Readable
<1> QED
  BY <1>3, <1>4, <1>5

LEMMA LogCounted ==
  ASSUME NEW c \in Seq(DataCell), NEW h \in Seq(ValueRecord), LogOf(c, h)
  PROVE  ValuesIn(c) = Len(h) /\ Cardinality(ValueCells(c)) = Len(h)
<1>1. Len(h) \in 0 .. Len(h)
  OBVIOUS
<1>2. ASSUME NEW i \in 1 .. Len(c) PROVE IsValue(c, i) /\ c[i].value <= Len(h) <=> IsValue(c, i)
  <2>1. IsValue(c, i) => c[i].value \in 1 .. Len(h)
    BY DEF LogOf
  <2> QED
    BY <1>1, <2>1
<1>3. ValueCells(c) = {i \in 1 .. Len(c) : IsValue(c, i) /\ c[i].value <= Len(h)}
  BY <1>2 DEF ValueCells
<1>4. Cardinality(ValueCells(c)) = Len(h)
  BY <1>1, <1>3, ValueCount
<1> QED
  BY <1>4 DEF ValuesIn, ValueCells

LEMMA LogHasHistory ==
  ASSUME NEW c \in Seq(DataCell), c = <<>> \/ WellFormed(c),
         NEW h \in Seq(ValueRecord), LogOf(c, h)
  PROVE  {Stamped(c, i) : i \in Readable(c)} = ToSet(h)
<1>1. Readable(c) = ValueCells(c)
  BY AllReadable
<1>2. ASSUME NEW i \in ValueCells(c) PROVE Stamped(c, i) \in ToSet(h)
  <2>1. c[i].value \in DOMAIN h /\ Stamped(c, i) = h[c[i].value]
    BY DEF LogOf, ValueCells
  <2> QED
    BY <2>1 DEF ToSet
<1>3. ASSUME NEW x \in ToSet(h) PROVE \E i \in ValueCells(c) : x = Stamped(c, i)
  <2>1. PICK k \in 1 .. Len(h) : x = h[k]
    BY <1>3 DEF ToSet
  <2>2. PICK i \in 1 .. Len(c) : IsValue(c, i) /\ c[i].value = k
    BY DEF LogOf
  <2>3. Stamped(c, i) = h[k]
    BY <2>2 DEF LogOf
  <2> QED
    BY <2>1, <2>2, <2>3 DEF ValueCells
<1> QED
  BY <1>1, <1>2, <1>3

LEMMA LogDecodes ==
  ASSUME NEW c \in Seq(DataCell), c = <<>> \/ WellFormed(c),
         NEW h \in Seq(ValueRecord), LogOf(c, h)
  PROVE  Decode(c) = h
<1> DEFINE V   == ValueCells(c)
           nth == [i \in V |-> Cardinality({j \in V : j <= i})]
<1>0. Len(c) \in Nat /\ Len(h) \in Nat
  OBVIOUS
<1>1. Readable(c) = V /\ Cardinality(V) = Len(h)
  BY AllReadable, LogCounted
<1>2. Decode(c) = [k \in 1 .. Len(h) |-> Stamped(c, CHOOSE i \in V : nth[i] = k)]
  BY <1>1 DEF Decode
<1>3. ASSUME NEW i \in V PROVE nth[i] = c[i].value /\ c[i].value \in 1 .. Len(h)
  <2>1. i \in 1 .. Len(c) /\ IsValue(c, i)
    BY DEF ValueCells
  <2>2. c[i].value \in 1 .. Len(h)
    BY <2>1 DEF LogOf
  <2>3. ASSUME NEW j \in 1 .. Len(c)
        PROVE  IsValue(c, j) /\ j <= i <=> IsValue(c, j) /\ c[j].value <= c[i].value
    <3>1. CASE IsValue(c, j)
      <4>1. c[j].value \in 1 .. Len(h)
        BY <3>1 DEF LogOf
      <4>2. j < i => c[j].value < c[i].value
        BY <2>1, <3>1 DEF LogOf
      <4>3. i < j => c[i].value < c[j].value
        BY <2>1, <3>1 DEF LogOf
      <4>4. j < i \/ i < j \/ i = j
        BY <1>0, <2>1
      <4>5. CASE j < i
        BY <1>0, <2>1, <2>2, <4>1, <4>2, <4>5
      <4>6. CASE i < j
        BY <1>0, <2>1, <2>2, <4>1, <4>3, <4>6
      <4>7. CASE i = j
        BY <1>0, <2>1, <2>2, <4>7
      <4> QED
        BY <4>4, <4>5, <4>6, <4>7
    <3>2. CASE ~IsValue(c, j)
      BY <3>2
    <3> QED
      BY <3>1, <3>2
  <2>4. {j \in V : j <= i} = {j \in 1 .. Len(c) : IsValue(c, j) /\ c[j].value <= c[i].value}
    BY <2>3 DEF ValueCells
  <2>5. c[i].value \in 0 .. Len(h)
    BY <1>0, <2>2
  <2>6. Cardinality({j \in V : j <= i}) = c[i].value
    BY <2>4, <2>5, ValueCount
  <2> QED
    BY <2>2, <2>6
<1> HIDE DEF nth
<1>4. ASSUME NEW k \in 1 .. Len(h)
      PROVE  Stamped(c, CHOOSE i \in V : nth[i] = k) = h[k]
  <2> DEFINE i == CHOOSE m \in V : nth[m] = k
  <2>1. PICK m \in 1 .. Len(c) : IsValue(c, m) /\ c[m].value = k
    BY DEF LogOf
  <2>2. m \in V /\ nth[m] = k
    BY <1>3, <2>1 DEF ValueCells
  <2>3. i \in V /\ nth[i] = k
    BY <2>2
  <2> HIDE DEF i
  <2>4. i \in 1 .. Len(c) /\ IsValue(c, i) /\ c[i].value = k
    BY <1>3, <2>3 DEF ValueCells
  <2>5. Stamped(c, i) = h[k]
    BY <2>4 DEF LogOf
  <2> QED
    BY <2>5 DEF i
<1>5. Decode(c) = [k \in 1 .. Len(h) |-> h[k]]
  BY <1>2, <1>4, Zenon
<1>6. [k \in 1 .. Len(h) |-> h[k]] = h
  <2>1. DOMAIN h = 1 .. Len(h) /\ h = [k \in DOMAIN h |-> h[k]]
    OBVIOUS
  <2> QED
    BY <2>1
<1> QED
  BY <1>5, <1>6

-----------------------------------------------------------------------------
(* The index beside it.                                                      *)

(* Cells behind the last block that are no hours leave an index exact; so do *)
(* the end mark and the hour of a block of which the entry is still to come. *)
LEMMA StillIndexed ==
  ASSUME NEW c \in Seq(DataCell), NEW d, NEW e \in Seq(IndexCell),
         IndexedUpTo(e, c, Len(c)), Len(c) > 0,
         \A i \in 1 .. Len(c) : d[i] = c[i],
         NEW upTo \in Nat, Len(c) <= upTo,
         \A i \in Len(c) + 1 .. upTo : ~IsHour(d, i)
  PROVE  IndexedUpTo(e, d, upTo)
<1>1. /\ Len(c) \in Nat /\ Len(e) \in Nat /\ Len(e) > 0 /\ e[1] = c[1]
      /\ \A k \in 2 .. Len(e) :
           /\ IsEntry(e, k) /\ e[k].pos \in 1 .. Len(c) - 1
           /\ c[e[k].pos + 1] = HourCell(e[k].hour)
      /\ \A i \in 2 .. Len(c) : IsHour(c, i) => \E k \in 2 .. Len(e) : e[k].pos = i - 1
      /\ \A j, k \in 2 .. Len(e) : j < k => e[j].pos < e[k].pos
  BY DEF IndexedUpTo
<1>2. e[1] = d[1]
  BY <1>1
<1>3. ASSUME NEW k \in 2 .. Len(e)
      PROVE  /\ IsEntry(e, k) /\ e[k].pos \in 1 .. upTo - 1
             /\ d[e[k].pos + 1] = HourCell(e[k].hour)
  <2>1. /\ IsEntry(e, k) /\ e[k].pos \in 1 .. Len(c) - 1
        /\ c[e[k].pos + 1] = HourCell(e[k].hour)
    BY <1>1
  <2>2. e[k].pos + 1 \in 1 .. Len(c) /\ e[k].pos \in 1 .. upTo - 1
    BY <1>1, <2>1
  <2> QED
    BY <2>1, <2>2
<1>4. ASSUME NEW i \in 2 .. upTo, IsHour(d, i)
      PROVE  \E k \in 2 .. Len(e) : e[k].pos = i - 1
  <2>1. ~(i \in Len(c) + 1 .. upTo)
    BY <1>4
  <2>2. i \in 2 .. Len(c) /\ i \in 1 .. Len(c)
    BY <1>1, <2>1
  <2>3. IsHour(c, i)
    BY <1>4, <2>2 DEF IsHour
  <2> QED
    BY <1>1, <2>2, <2>3
<1> QED
  BY <1>1, <1>2, <1>3, <1>4 DEF IndexedUpTo

LEMMA StillLeads ==
  ASSUME NEW c \in Seq(DataCell), NEW d, NEW e, Leads(e, c), Len(d) \in Nat, Len(c) <= Len(d),
         \A i \in 1 .. Len(c) : d[i] = c[i],
         \A i \in Len(c) + 1 .. Len(d) : ~IsHour(d, i)
  PROVE  Leads(e, d)
<1> DEFINE last == e[Len(e)]
<1>1. /\ Len(e) > 0 /\ IsEntry(e, Len(e)) /\ last.pos \in 1 .. Len(c) - 1
      /\ c[last.pos + 1] = HourCell(last.hour)
      /\ \A i \in last.pos + 2 .. Len(c) : ~IsHour(c, i)
      /\ Len(c) \in Nat
  BY DEF Leads
<1> HIDE DEF last
<1>2. last.pos \in 1 .. Len(d) - 1 /\ last.pos + 1 \in 1 .. Len(c)
  BY <1>1
<1>3. d[last.pos + 1] = HourCell(last.hour)
  BY <1>1, <1>2
<1>4. ASSUME NEW i \in last.pos + 2 .. Len(d) PROVE ~IsHour(d, i)
  <2>1. CASE i <= Len(c)
    <3>1. i \in last.pos + 2 .. Len(c) /\ i \in 1 .. Len(c)
      BY <1>1, <2>1
    <3> QED
      BY <1>1, <3>1 DEF IsHour
  <2>2. CASE ~(i <= Len(c))
    <3>1. i \in Len(c) + 1 .. Len(d)
      BY <1>1, <2>2
    <3> QED
      BY <3>1
  <2> QED
    BY <2>1, <2>2
<1> QED
  BY <1>1, <1>2, <1>3, <1>4 DEF Leads, last

(* An exact index of a file with a value leads to its last hour.             *)
LEMMA ExactLeads ==
  ASSUME NEW c \in Seq(DataCell), Whole(c), NEW e \in Seq(IndexCell),
         IndexedUpTo(e, c, Len(c))
  PROVE  Leads(e, c)
<1>0. Len(c) \in Nat /\ Len(c) \in 1 .. Len(c) /\ IsValue(c, Len(c)) /\ WellFormed(c)
  <2>1. WellFormed(c) /\ Len(c) > 0 /\ IsValue(c, Len(c)) /\ Len(c) \in Nat
    BY DEF Whole, WellFormed, EndsWhole
  <2> QED
    BY <2>1
<1>1. 2 \in 2 .. Len(c) /\ IsHour(c, 2)
  BY <1>0, HourBefore
<1>2. /\ Len(e) \in Nat /\ Len(e) > 0
      /\ \A k \in 2 .. Len(e) :
           /\ IsEntry(e, k) /\ e[k].pos \in 1 .. Len(c) - 1
           /\ c[e[k].pos + 1] = HourCell(e[k].hour)
      /\ \A i \in 2 .. Len(c) : IsHour(c, i) => \E k \in 2 .. Len(e) : e[k].pos = i - 1
      /\ \A j, k \in 2 .. Len(e) : j < k => e[j].pos < e[k].pos
  BY DEF IndexedUpTo
<1>3. \E k \in 2 .. Len(e) : e[k].pos = 2 - 1
  BY <1>1, <1>2
<1>4. Len(e) \in 2 .. Len(e)
  BY <1>2, <1>3
<1> DEFINE n == Len(e)
<1>5. ASSUME NEW i \in e[n].pos + 2 .. Len(c) PROVE ~IsHour(c, i)
  <2>1. SUFFICES ASSUME IsHour(c, i) PROVE FALSE
    OBVIOUS
  <2>2. e[n].pos \in 1 .. Len(c) - 1
    BY <1>2, <1>4
  <2>3. i \in 2 .. Len(c) /\ i - 1 > e[n].pos
    BY <1>0, <2>2
  <2>4. PICK k \in 2 .. Len(e) : e[k].pos = i - 1
    BY <1>2, <2>1, <2>3
  <2>5. k < n \/ k = n
    BY <1>2
  <2>6. k < n => e[k].pos < e[n].pos
    BY <1>2, <1>4
  <2> QED
    BY <2>2, <2>3, <2>4, <2>5, <2>6
<1> QED
  BY <1>2, <1>4, <1>5 DEF Leads

(* The cell that the last entry leads to is the hour in force at the end.    *)
LEMMA LastHour ==
  ASSUME NEW c \in Seq(DataCell), NEW e \in Seq(IndexCell), Leads(e, c)
  PROVE  /\ e[Len(e)].hour \in Nat
         /\ e[Len(e)].pos + 1 \in Latest(c, Len(c))
         /\ c[e[Len(e)].pos + 1].hour = e[Len(e)].hour
<1> DEFINE last == e[Len(e)]
<1>1. /\ Len(e) \in Nat /\ Len(e) > 0 /\ IsEntry(e, Len(e)) /\ last.pos \in 1 .. Len(c) - 1
      /\ c[last.pos + 1] = HourCell(last.hour)
      /\ \A i \in last.pos + 2 .. Len(c) : ~IsHour(c, i)
      /\ Len(c) \in Nat
  BY DEF Leads
<1>2. last \in IndexCell /\ last.kind = "entry"
  BY <1>1 DEF IsEntry
<1>3. last.hour \in Nat
  BY <1>2, CellsTyped
<1> HIDE DEF last
<1>4. last.pos + 1 \in 1 .. Len(c) /\ last.pos + 1 + 1 = last.pos + 2
  BY <1>1
<1>5. IsHour(c, last.pos + 1) /\ c[last.pos + 1].hour = last.hour
  BY <1>1 DEF IsHour, HourCell
<1>6. last.pos + 1 \in Latest(c, Len(c))
  BY <1>1, <1>4, <1>5 DEF Latest
<1> QED
  BY <1>3, <1>5, <1>6 DEF last

(* The time of the last value, from the last entry and the last record.      *)
LEMMA LastTime ==
  ASSUME NEW c \in Seq(DataCell), Whole(c), NEW e \in Seq(IndexCell), Leads(e, c),
         NEW h \in Seq(ValueRecord), LogOf(c, h)
  PROVE  /\ Len(h) > 0 /\ c[Len(c)].offset \in Nat /\ e[Len(e)].hour > 0
         /\ h[Len(h)].time = ToTimeT(e[Len(e)].hour, c[Len(c)].offset)
<1> DEFINE n == Len(c)
<1>1. Len(h) \in Nat /\ n \in Nat /\ n > 0 /\ IsValue(c, n)
  BY DEF Whole, WellFormed, EndsWhole
<1>2. n \in 1 .. Len(c)
  BY <1>1
<1>3. c[n].value \in 1 .. Len(h) /\ Stamped(c, n) = h[c[n].value]
  BY <1>1, <1>2 DEF LogOf
<1>4. Len(h) > 0 /\ Len(h) \in 1 .. Len(h)
  BY <1>1, <1>3
<1>5. PICK i \in 1 .. Len(c) : IsValue(c, i) /\ c[i].value = Len(h)
  BY <1>4 DEF LogOf
<1>6. i < n => c[i].value < c[n].value
  BY <1>1, <1>2, <1>5 DEF LogOf
<1>7. c[n].value = Len(h)
  BY <1>1, <1>3, <1>5, <1>6
<1>8. HourAt(c, n) = e[Len(e)].hour
  BY <1>1, LastHour, HourOfLatest
<1>9. c[n] \in DataCell
  BY <1>2
<1>10. c[n].offset \in Nat
  BY <1>1, <1>9, CellFacts DEF IsValue
<1>11. h[Len(h)].time = ToTimeT(e[Len(e)].hour, c[n].offset)
  BY <1>3, <1>7, <1>8 DEF Stamped, TimeAt
<1>12. e[Len(e)].hour > 0
  <2>1. /\ e[Len(e)].pos + 1 \in 1 .. Len(c) /\ IsHour(c, e[Len(e)].pos + 1)
        /\ c[e[Len(e)].pos + 1].hour = e[Len(e)].hour
    BY LastHour DEF Latest
  <2> QED
    BY <2>1 DEF LogOf
<1> QED
  BY <1>4, <1>10, <1>11, <1>12

-----------------------------------------------------------------------------
(* What a write adds to the two files.                                       *)

LEMMA TimeOfOffset ==
  ASSUME NEW hour \in Nat, NEW time \in Nat, ToTimeT(hour, 0) <= time
  PROVE  /\ time - ToTimeT(hour, 0) \in Nat
         /\ ToTimeT(hour, time - ToTimeT(hour, 0)) = time
<1> DEFINE start == hour * HourSecs
<1>1. start \in Nat
  BY HourSecsAssumption
<1>2. ToTimeT(hour, 0) = start + 0 /\ ToTimeT(hour, time - (start + 0)) = start + (time - (start + 0))
  BY DEF ToTimeT
<1> HIDE DEF start
<1> QED
  BY <1>1, <1>2

(* A block that a value later than all can begin, and what is then written.  *)
BlockFor(b, h, time) ==
  /\ WellFormed(b) /\ b[Len(b)].kind \in {"header", "endline"}
  /\ LogOf(b, h) /\ Growing(h)
  /\ HourSecs <= time /\ \A k \in 1 .. Len(h) : h[k].time < time

NewBlock(b, h, e, time, hour, d, g, f) ==
  /\ hour = FromTimeT(time)
  /\ d = Append(Append(b, HourCell(hour)), ValueCell(OffsetIn(hour, time), Len(h) + 1))
  /\ g = Append(h, [time |-> time, value |-> Len(h) + 1])
  /\ f = Append(e, IndexEntry(hour, Len(b)))

BlockAdded(b, h, e, time, hour, d, g, f) ==
  /\ hour \in Nat /\ hour > 0 /\ OffsetIn(hour, time) \in Nat
  /\ d \in Seq(DataCell) /\ f \in Seq(IndexCell) /\ g \in Seq(ValueRecord)
  /\ Whole(d) /\ LogOf(d, g) /\ Growing(g) /\ Leads(f, d)
  /\ d[Len(d)] = ValueCell(OffsetIn(hour, time), Len(h) + 1)
  /\ f[Len(f)] = IndexEntry(hour, Len(b))
  /\ Len(d) = Len(b) + 2 /\ \A i \in 1 .. Len(b) : d[i] = b[i]
  /\ IndexedUpTo(e, b, Len(b)) => IndexedUpTo(f, d, Len(d))

(* Where a value later than all goes on with the last hour, and what is then *)
(* written.                                                                  *)
HourFor(c, h, e, time, start) ==
  /\ Whole(c) /\ LogOf(c, h) /\ Growing(h) /\ Leads(e, c)
  /\ \A k \in 1 .. Len(h) : h[k].time < time
  /\ start = ToTimeT(e[Len(e)].hour, 0) /\ start <= time

NewRecord(c, h, time, start, d, g) ==
  /\ d = Append(c, ValueCell(time - start, Len(h) + 1))
  /\ g = Append(h, [time |-> time, value |-> Len(h) + 1])

RecordAdded(c, h, e, time, start, d, g) ==
  /\ time - start \in Nat
  /\ d \in Seq(DataCell) /\ g \in Seq(ValueRecord)
  /\ Whole(d) /\ LogOf(d, g) /\ Growing(g) /\ Leads(e, d)
  /\ d[Len(d)] = ValueCell(time - start, Len(h) + 1)
  /\ Len(d) = Len(c) + 1 /\ \A i \in 1 .. Len(c) : d[i] = c[i]
  /\ IndexedUpTo(e, c, Len(c)) => IndexedUpTo(e, d, Len(d))

(* A new block, behind the header or an end mark, and its entry.             *)
LEMMA BlockWritten ==
  ASSUME NEW b \in Seq(DataCell), NEW h \in Seq(ValueRecord), NEW e \in Seq(IndexCell),
         NEW time \in Nat, NEW hour, NEW d, NEW g, NEW f,
         BlockFor(b, h, time), NewBlock(b, h, e, time, hour, d, g, f)
  PROVE  BlockAdded(b, h, e, time, hour, d, g, f)
<1> DEFINE offset == OffsetIn(hour, time)
           cell   == ValueCell(offset, Len(h) + 1)
           a      == Append(b, HourCell(hour))
           record == [time |-> time, value |-> Len(h) + 1]
<1> USE DEF BlockFor, NewBlock
<1>0. Len(b) \in Nat /\ Len(h) \in Nat /\ Len(h) + 1 \in Nat /\ Len(e) \in Nat /\ Len(b) > 0
  BY DEF WellFormed
<1>1. /\ hour \in Nat /\ offset \in Nat /\ hour > 0 /\ ToTimeT(hour, 0) <= time
      /\ ToTimeT(hour, offset) = time
  <2>1. hour \in Nat /\ hour # 0 /\ ToTimeT(hour, 0) <= time
    BY HourOfTime
  <2> QED
    BY <2>1, TimeOfOffset DEF OffsetIn
<1>2. /\ HourCell(hour) \in Cell /\ HourCell(hour).kind = "hour" /\ HourCell(hour).hour = hour
      /\ HourCell(hour) \in DataCell
  BY <1>1, CellFacts DEF HourCell
<1>3. cell \in Cell /\ cell.kind = "value" /\ cell \in DataCell
  BY <1>0, <1>1, CellFacts
<1>4. record \in ValueRecord /\ record.time = time
  BY <1>0 DEF ValueRecord
<1>5. /\ a \in Seq(DataCell) /\ Len(a) = Len(b) + 1 /\ a[Len(a)] = HourCell(hour)
      /\ \A i \in 1 .. Len(b) : a[i] = b[i]
  BY <1>2, OneMore
<1>6. WellFormed(a)
  BY <1>2, WellAppend
<1>7. LogOf(a, h)
  BY <1>1, <1>2, MarkLogged
<1> HIDE DEF cell, a, offset
<1>8. d = Append(a, cell)
  BY DEF cell, a, offset
<1>9. /\ d \in Seq(DataCell) /\ Len(d) = Len(a) + 1 /\ d[Len(a) + 1] = cell
      /\ \A i \in 1 .. Len(a) : d[i] = a[i]
  BY <1>3, <1>5, <1>8, OneMore
<1>10. Whole(d)
  <2>1. WellFormed(d)
    BY <1>2, <1>3, <1>5, <1>6, <1>8, WellAppend
  <2> QED
    BY <1>3, <1>9, <2>1 DEF Whole, EndsWhole, IsValue
<1>11. Len(d) = Len(b) + 2 /\ d[Len(d)] = cell /\ \A i \in 1 .. Len(b) : d[i] = b[i]
  BY <1>0, <1>5, <1>9
<1>12. d[Len(b) + 1] = HourCell(hour)
  BY <1>0, <1>5, <1>9
<1>13. LogOf(d, g)
  <2>1. Len(a) \in 1 .. Len(a) /\ IsHour(a, Len(a)) /\ a[Len(a)].hour = hour
    BY <1>0, <1>2, <1>5 DEF IsHour
  <2>2. Len(a) \in Latest(a, Len(a))
    BY <2>1 DEF Latest
  <2> QED
    BY <1>1, <1>5, <1>6, <1>7, <1>8, <2>1, <2>2, ValueLogged DEF cell
<1>14. g \in Seq(ValueRecord) /\ Growing(g)
  BY <1>4, OneMore, GrowingAppend
<1>15. /\ f \in Seq(IndexCell) /\ Len(f) = Len(e) + 1 /\ f[Len(f)] = IndexEntry(hour, Len(b))
  BY <1>0, <1>1, CellsTyped, OneMore
<1>16. Leads(f, d)
  <2>1. /\ Len(f) > 0 /\ IsEntry(f, Len(f)) /\ f[Len(f)].pos = Len(b) /\ f[Len(f)].hour = hour
    BY <1>0, <1>15 DEF IsEntry, IndexEntry
  <2>2. Len(b) \in 1 .. Len(d) - 1
    BY <1>0, <1>11
  <2>3. ASSUME NEW i \in Len(b) + 2 .. Len(d) PROVE ~IsHour(d, i)
    <3>1. i = Len(d)
      BY <1>0, <1>11
    <3> QED
      BY <1>3, <1>11, <3>1 DEF IsHour
  <2> QED
    BY <1>12, <2>1, <2>2, <2>3 DEF Leads
<1>17. ASSUME IndexedUpTo(e, b, Len(b)) PROVE IndexedUpTo(f, d, Len(d))
  <2>1. \A i \in Len(b) + 1 .. Len(b) : ~IsHour(d, i)
    BY <1>0
  <2>0. Len(b) \in Nat /\ Len(b) > 0 /\ Len(b) <= Len(b)
    BY <1>0
  <2>2. IndexedUpTo(e, d, Len(b))
    BY <1>11, <1>17, <2>0, <2>1, StillIndexed
  <2>3. Len(b) \in 1 .. Len(d) - 1 /\ Len(d) \in Len(b) + 1 .. Len(d)
    BY <1>0, <1>11
  <2>4. IsHour(d, Len(b) + 1) /\ d[Len(b) + 1].hour = hour
    BY <1>2, <1>12 DEF IsHour
  <2>5. AtBlock(e, d, Len(b))
    BY <2>2, <2>3, <2>4 DEF AtBlock
  <2>6. \A i \in Len(b) + 2 .. Len(d) : ~IsHour(d, i)
    <3> TAKE i \in Len(b) + 2 .. Len(d)
    <3>1. i = Len(d)
      BY <1>0, <1>11
    <3> QED
      BY <1>3, <1>11, <3>1 DEF IsHour
  <2> QED
    BY <1>9, <1>10, <2>3, <2>4, <2>5, <2>6, EntryAdded
<1> QED
  BY <1>1, <1>9, <1>10, <1>11, <1>13, <1>14, <1>15, <1>16, <1>17
     DEF BlockAdded, cell, offset

(* One value more in the last hour.                                          *)
LEMMA ValueWritten ==
  ASSUME NEW c \in Seq(DataCell), NEW h \in Seq(ValueRecord), NEW e \in Seq(IndexCell),
         NEW time \in Nat, NEW start, NEW d, NEW g,
         HourFor(c, h, e, time, start), NewRecord(c, h, time, start, d, g)
  PROVE  RecordAdded(c, h, e, time, start, d, g)
<1> DEFINE offset == time - start
           hour   == e[Len(e)].hour
           last   == e[Len(e)].pos + 1
           cell   == ValueCell(offset, Len(h) + 1)
           record == [time |-> time, value |-> Len(h) + 1]
<1> USE DEF HourFor, NewRecord
<1>0. /\ Len(c) \in Nat /\ Len(h) \in Nat /\ Len(h) + 1 \in Nat /\ Len(c) > 0
      /\ WellFormed(c) /\ IsValue(c, Len(c))
  BY DEF Whole, WellFormed, EndsWhole
<1>1. /\ hour \in Nat /\ last \in Latest(c, Len(c)) /\ c[last].hour = hour
  BY LastHour
<1>2. offset \in Nat /\ ToTimeT(hour, offset) = time
  BY <1>1, TimeOfOffset
<1>3. cell \in Cell /\ cell.kind = "value" /\ cell \in DataCell
  BY <1>0, <1>2, CellFacts
<1>4. record \in ValueRecord /\ record.time = time
  BY <1>0 DEF ValueRecord
<1>5. /\ d \in Seq(DataCell) /\ Len(d) = Len(c) + 1 /\ d[Len(d)] = cell
      /\ \A i \in 1 .. Len(c) : d[i] = c[i]
  BY <1>3, OneMore
<1>6. WellFormed(d)
  BY <1>0, <1>3, WellAppend DEF IsValue
<1>7. Whole(d)
  BY <1>3, <1>5, <1>6 DEF Whole, EndsWhole, IsValue
<1>8. LogOf(d, g)
  BY <1>0, <1>1, <1>2, ValueLogged
<1>9. g \in Seq(ValueRecord) /\ Growing(g)
  BY <1>4, OneMore, GrowingAppend
<1>10. \A i \in Len(c) + 1 .. Len(d) : ~IsHour(d, i)
  <2> TAKE i \in Len(c) + 1 .. Len(d)
  <2>1. i = Len(d)
    BY <1>0, <1>5
  <2> QED
    BY <1>3, <1>5, <2>1 DEF IsHour
<1>11. Len(d) \in Nat /\ Len(c) <= Len(d)
  BY <1>0, <1>5
<1>12. Leads(e, d)
  BY <1>5, <1>10, <1>11, StillLeads
<1>13. ASSUME IndexedUpTo(e, c, Len(c)) PROVE IndexedUpTo(e, d, Len(d))
  BY <1>0, <1>5, <1>10, <1>11, <1>13, StillIndexed
<1> QED
  BY <1>2, <1>5, <1>7, <1>8, <1>9, <1>12, <1>13 DEF RecordAdded

-----------------------------------------------------------------------------
(* What is on disk of a stream, and what is left of it when it is lost.      *)

LEMMA CellsFit ==
  ASSUME NEW C, NEW f \in StreamType(C)
  PROVE  Len(f.cells) <= Len(Contents(f))
<1> DEFINE k == Len(f.cells)
           m == Len(f.buf)
           l == Len(Contents(f))
<1>1. k \in Nat /\ m \in Nat /\ l = k + m
  BY Fields, ContentsFacts
<1> HIDE DEF k, m, l
<1>2. k <= l
  BY <1>1
<1> QED
  BY <1>2 DEF k, l

LEMMA PutOnDisk ==
  ASSUME NEW C, NEW f \in StreamType(C), NEW cell \in C
  PROVE  Len(f.cells) <= Len(Put(f, cell).cells)
<1> DEFINE g == Stream(f.state, f.cells, Append(f.buf, cell), f.pos)
<1>1. /\ f.state \in {"absent", "present"} /\ f.pos \in Nat
      /\ f.cells \in Seq(C) /\ f.buf \in Seq(C) /\ Len(f.cells) \in Nat
  BY Fields
<1>2. Append(f.buf, cell) \in Seq(C)
  BY <1>1
<1>3. g \in StreamType(C) /\ g.cells = f.cells
  BY <1>1, <1>2, StreamTyped DEF Stream
<1>4. /\ Len(g.buf) \in Nat /\ Len(Contents(g)) = Len(g.cells) + Len(g.buf)
      /\ Flush(g) = g \/ Flush(g).cells = Contents(g)
  BY <1>3, ContentsFacts, Fields DEF Flush, Stream
<1>5. Put(f, cell) \in {g, Flush(g)}
  BY DEF Put
<1> DEFINE m == Len(f.cells)
           n == Len(g.buf)
<1>6. Len(Put(f, cell).cells) = m \/ Len(Put(f, cell).cells) = m + n
  <2> HIDE DEF g
  <2> QED
    BY <1>3, <1>4, <1>5
<1>7. m \in Nat /\ n \in Nat
  BY <1>1, <1>4
<1> DEFINE k == Len(Put(f, cell).cells)
<1> HIDE DEF m, n, k
<1>8. k = m \/ k = m + n
  BY <1>6 DEF k
<1>9. m <= k
  BY <1>7, <1>8
<1> QED
  BY <1>9 DEF k, m

LEMMA SameSequence ==
  ASSUME NEW C, NEW x \in Seq(C), NEW y \in Seq(C), Len(x) = Len(y),
         \A i \in 1 .. Len(x) : x[i] = y[i]
  PROVE  x = y
  OBVIOUS

(* A data file cut at a value is the beginning of what it was.               *)
LEMMA CutIsBeginning ==
  ASSUME NEW C, NEW f \in StreamType(C), NEW n \in 0 .. Len(f.buf)
  PROVE  /\ Contents(Cut(f, n)) = SubSeq(Contents(f), 1, Len(f.cells) + n)
         /\ Len(f.cells) + n \in 0 .. Len(Contents(f))
         /\ Cut(f, n).cells = Contents(Cut(f, n))
<1> DEFINE s == f.cells
           t == f.buf
<1>1. /\ s \in Seq(C) /\ t \in Seq(C) /\ Len(s) \in Nat /\ Len(t) \in Nat
      /\ f.state \in {"absent", "present"} /\ n \in Nat /\ n <= Len(t)
  BY Fields
<1>2. Len(Contents(f)) = Len(s) + Len(t) /\ Len(Contents(f)) \in Nat
  BY ContentsFacts
<1>3. Len(s) + n \in 0 .. Len(Contents(f))
  <2> DEFINE k == Len(s)
             m == Len(t)
             l == Len(Contents(f))
  <2>1. k \in Nat /\ m \in Nat /\ n \in Nat /\ n <= m /\ l = k + m
    BY <1>1, <1>2
  <2> HIDE DEF k, m, l
  <2>2. k + n \in 0 .. l
    BY <2>1
  <2> QED
    BY <2>2 DEF k, l
<1>4. s \o SubSeq(t, 1, n) = SubSeq(s \o t, 1, Len(s) + n)
  <2> HIDE DEF s, t
  <2>0. n \in 0 .. Len(t)
    BY <1>1
  <2>1. /\ SubSeq(t, 1, n) \in Seq(C) /\ Len(SubSeq(t, 1, n)) = n
        /\ \A i \in 1 .. n : SubSeq(t, 1, n)[i] = t[i]
    BY <1>1, <2>0, Beginning
  <2>2. s \o t \in Seq(C) /\ Len(s \o t) = Len(s) + Len(t)
    BY <1>1
  <2>3. Len(s) + n \in 0 .. Len(s \o t)
    BY <1>1, <2>2
  <2>4. /\ SubSeq(s \o t, 1, Len(s) + n) \in Seq(C)
        /\ Len(SubSeq(s \o t, 1, Len(s) + n)) = Len(s) + n
        /\ \A i \in 1 .. Len(s) + n : SubSeq(s \o t, 1, Len(s) + n)[i] = (s \o t)[i]
    BY <2>2, <2>3, Beginning
  <2> DEFINE u == SubSeq(t, 1, n)
             w == SubSeq(s \o t, 1, Len(s) + n)
  <2> HIDE DEF u, w
  <2>5. s \o u \in Seq(C) /\ Len(s \o u) = Len(s) + n
    BY <1>1, <2>1 DEF u
  <2>6. ASSUME NEW i \in 1 .. Len(s) + n PROVE (s \o u)[i] = w[i]
    <3>1. CASE i <= Len(s)
      <4>1. (s \o u)[i] = s[i] /\ (s \o t)[i] = s[i]
        BY <1>1, <2>1, <3>1 DEF u
      <4> QED
        BY <2>4, <4>1 DEF w
    <3>2. CASE ~(i <= Len(s))
      <4>1. i - Len(s) \in 1 .. n /\ i - Len(s) \in 1 .. Len(t)
        BY <1>1, <3>2
      <4>2. (s \o u)[i] = u[i - Len(s)] /\ (s \o t)[i] = t[i - Len(s)]
        BY <1>1, <2>1, <3>2, <4>1 DEF u
      <4>3. u[i - Len(s)] = t[i - Len(s)]
        BY <2>1, <4>1 DEF u
      <4> QED
        BY <2>4, <4>2, <4>3 DEF w
    <3> QED
      BY <3>1, <3>2
  <2>7. w \in Seq(C) /\ Len(w) = Len(s) + n
    BY <2>4 DEF w
  <2>8. s \o u = w
    BY <2>5, <2>6, <2>7, SameSequence
  <2> QED
    BY <2>8 DEF u, w
<1>5. s \o SubSeq(t, 1, n) \in Seq(C)
  <2>0. n \in 0 .. Len(t)
    BY <1>1
  <2> HIDE DEF s, t
  <2>1. SubSeq(t, 1, n) \in Seq(C)
    BY <1>1, <2>0, Beginning
  <2> QED
    BY <1>1, <2>1
<1>6. Cut(f, n) = Stream(f.state, s \o SubSeq(t, 1, n), <<>>, 0)
  BY DEF Cut
<1>7. /\ Contents(Cut(f, n)) = s \o SubSeq(t, 1, n)
      /\ Cut(f, n).cells = s \o SubSeq(t, 1, n)
  <2> DEFINE y == s \o SubSeq(t, 1, n)
  <2>1. y \in Seq(C) /\ Cut(f, n) = Stream(f.state, y, <<>>, 0) /\ 0 \in Nat
    BY <1>5, <1>6
  <2> HIDE DEF y
  <2>2. Stream(f.state, y, <<>>, 0).cells = y
    BY DEF Stream
  <2>3. Contents(Stream(f.state, y, <<>>, 0)) = y
    BY <1>1, <2>1, FlushedFacts
  <2>4. Contents(Cut(f, n)) = y /\ Cut(f, n).cells = y
    BY <2>1, <2>2, <2>3
  <2> QED
    BY <2>4 DEF y
<1>8. Contents(f) = s \o t
  BY DEF Contents
<1>9. s \o SubSeq(t, 1, n) = SubSeq(Contents(f), 1, Len(f.cells) + n)
  BY <1>4, <1>8
<1> QED
  BY <1>3, <1>7, <1>9, Zenon

LEMMA LostDataFacts ==
  ASSUME Cuts \subseteq {"value"}, NEW f \in StreamType(DataCell), NEW g \in LostData(f)
  PROVE  /\ g \in StreamType(DataCell) /\ Closed(g) /\ g.state = f.state
         /\ \E m \in Len(f.cells) .. Len(Contents(f)) :
              /\ g.cells = SubSeq(Contents(f), 1, m) /\ Contents(g) = g.cells
              /\ IF f.buf = <<>> THEN m = Len(Contents(f))
                                 ELSE m = 0 \/ IsValue(Contents(f), m)
<1> DEFINE c == Contents(f)
<1>0. /\ c \in Seq(DataCell) /\ Len(c) \in Nat /\ Len(f.cells) \in Nat /\ Len(f.buf) \in Nat
      /\ Len(c) = Len(f.cells) + Len(f.buf)
  BY ContentsFacts, Fields
<1>1. /\ g \in Lost(f) \union TornLost(f)
      /\ f.buf = <<>> \/ g.cells = <<>> \/ g.cells[Len(g.cells)].kind \in Cuts
  BY DEF LostData
<1>2. g \in Lost(f)
  <2> SUFFICES ASSUME g \in TornLost(f) PROVE FALSE
    BY <1>1
  <2>1. PICK n \in 1 .. Len(f.buf) :
          g = Stream(f.state, Append(Cut(f, n - 1).cells, TornCell(f.buf[n].offset)), <<>>, 0)
    BY DEF TornLost
  <2>2. f.buf # <<>>
    BY <2>1
  <2>3. n - 1 \in 0 .. Len(f.buf)
    BY <1>0
  <2>4. Cut(f, n - 1).cells \in Seq(DataCell)
    BY <2>3, CutFacts, Fields
  <2> DEFINE s == Cut(f, n - 1).cells
             x == TornCell(f.buf[n].offset)
  <2>5. g.cells = Append(s, x) /\ x.kind = "torn"
    BY <2>1 DEF Stream, TornCell
  <2> HIDE DEF s, x
  <2>6. s \in Seq(DataCell \union {x})
    BY <2>4 DEF s
  <2>7. Append(s, x) # <<>> /\ Append(s, x)[Len(Append(s, x))] = x
    BY <2>6
  <2>8. g.cells # <<>> /\ g.cells[Len(g.cells)].kind = "torn"
    BY <2>5, <2>7
  <2> QED
    BY <1>1, <2>2, <2>8
<1>3. PICK n \in 0 .. Len(f.buf) : g = Cut(f, n)
  BY <1>2 DEF Lost
<1>4. g \in StreamType(DataCell) /\ Closed(g) /\ g.state = f.state
  BY <1>3, CutFacts
<1> DEFINE m == Len(f.cells) + n
<1>5. Contents(g) = SubSeq(c, 1, m) /\ m \in 0 .. Len(c) /\ g.cells = Contents(g)
  BY <1>3, CutIsBeginning
<1>6. m \in Len(f.cells) .. Len(c)
  <2> DEFINE k == Len(f.cells)
             l == Len(c)
  <2>0. k + n \in 0 .. l
    BY <1>5, Zenon
  <2>1. k \in Nat /\ l \in Nat
    BY <1>0, Zenon
  <2>2. n \in Nat
    BY <1>0
  <2> HIDE DEF k, l
  <2>3. k + n \in k .. l
    BY <2>0, <2>1, <2>2
  <2> QED
    BY <2>3, Zenon DEF k, l
<1>7. CASE f.buf = <<>>
  <2>1. m = Len(c)
    BY <1>0, <1>7
  <2> QED
    BY <1>4, <1>5, <1>6, <1>7, <2>1
<1>8. CASE f.buf # <<>>
  <2>1. CASE g.cells = <<>>
    <3>1. Len(SubSeq(c, 1, m)) = m
      BY <1>0, <1>5, Beginning
    <3>2. m = 0
      BY <1>5, <2>1, <3>1
    <3> QED
      BY <1>4, <1>5, <1>6, <1>8, <3>2
  <2>2. CASE g.cells # <<>>
    <3>1. /\ Len(SubSeq(c, 1, m)) = m /\ SubSeq(c, 1, m) \in Seq(DataCell)
          /\ \A i \in 1 .. m : SubSeq(c, 1, m)[i] = c[i]
      BY <1>0, <1>5, Beginning
    <3>2. m # 0
      <4> HIDE DEF m
      <4> QED
        BY <1>5, <2>2, <3>1
    <3>3. m \in 1 .. m
      BY <1>5, <3>2
    <3>4. g.cells[Len(g.cells)] = c[m]
      BY <1>5, <3>1, <3>3
    <3>5. IsValue(c, m)
      BY <1>1, <1>8, <2>2, <3>4 DEF IsValue
    <3> QED
      BY <1>4, <1>5, <1>6, <1>8, <3>5
  <2> QED
    BY <2>1, <2>2
<1> QED
  BY <1>7, <1>8

-----------------------------------------------------------------------------
(* The inductive invariant, of a life in which neither createFiles nor the   *)
(* removal of an index failed half-way.                                      *)

(* FilesInfo of a sensor that is open: createFiles has just made it, or it   *)
(* is that of the last hour.                                                 *)
InfoAt(i, e, c, h) ==
  \/ i = NewInfo /\ c = <<HeaderCell("Float")>> /\ h = <<>>
  \/ /\ Whole(c) /\ Leads(e, c)
     /\ i.minHour \in Nat /\ i.maxHour = e[Len(e)].hour
     /\ i.startHour = ToTimeT(i.maxHour, 0)
     /\ i.maxOffset = c[Len(c)].offset

OpenAt ==
  IsOpen => /\ Ready /\ FileExists(data) /\ FileExists(index) /\ AtEnd(data)
            /\ InfoAt(info, Contents(index), Contents(data), history)
            /\ info = NewInfo => data.cells = <<>>

(* Between two openings the files are the tool's.                            *)
ClosedAt ==
  ~IsOpen => /\ FilesAt /\ BuiltAt(Contents(index), Contents(data))
             /\ Contents(data) = <<>> \/ Whole(Contents(data))

LogAt == /\ LogOf(Contents(data), history) /\ Growing(history)
         /\ ~FileExists(data) => data = Absent

(* So many values are among the first cells, those that are on disk.         *)
SyncedIn(n, c, cells, h) ==
  /\ n <= Len(h)
  /\ n = 0 \/ \E i \in 1 .. cells : IsValue(c, i) /\ n <= c[i].value

SyncedAt == SyncedIn(synced, Contents(data), Len(data.cells), history)

Exact == IndexedUpTo(Contents(index), Contents(data), Len(Contents(data)))

PairedAt == FilesPaired => /\ IsOpen => Exact
                           /\ ~FileExists(data) => ~FileExists(index)

(* With a data file that no kill has touched since the tool ran there is an  *)
(* index that openFiles takes, or none, of which a call has complained.      *)
CleanAt ==
  Ready /\ ~IsOpen /\ ~dirty /\ Whole(Contents(data)) =>
    \/ Contents(index) = <<>> /\ answer # ""
    \/ Leads(Contents(index), Contents(data)) /\ (FilesPaired => Exact)

EmptyAt == FileExists(data) /\ Contents(data) = <<>> => dirty \/ result # "TRUE"

LifeTyped == ToolTyped /\ history \in Seq(ValueRecord) /\ synced \in Nat

LifeInv == /\ LifeTyped /\ OpenAt /\ ClosedAt /\ LogAt /\ SyncedAt
           /\ PairedAt /\ CleanAt /\ EmptyAt

(* While the data file is still to be removed, the index is gone, or its     *)
(* removal has failed and been told.                                         *)
RemovingAt ==
  removing => /\ step = "idle" /\ ~IsOpen
              /\ index = Absent \/ failed = {"removeIndex"}
              /\ answer = "" => index = Absent

CrashInv == RemovingAt /\ (FilesPaired => LifeInv)

-----------------------------------------------------------------------------
LEMMA LifeFacts ==
  ASSUME LifeInv
  PROVE  /\ data \in StreamType(DataCell) /\ index \in StreamType(IndexCell)
         /\ backup \in StreamType(IndexCell)
         /\ Contents(data) \in Seq(DataCell) /\ Contents(index) \in Seq(IndexCell)
         /\ Len(Contents(data)) \in Nat /\ Len(Contents(index)) \in Nat
         /\ history \in Seq(ValueRecord) /\ Len(history) \in Nat /\ synced \in Nat
         /\ step \in Steps /\ pos \in Nat /\ result \in Results
         /\ ~IsOpen => ToolInv
<1>1. /\ data \in StreamType(DataCell) /\ index \in StreamType(IndexCell)
      /\ backup \in StreamType(IndexCell) /\ history \in Seq(ValueRecord) /\ synced \in Nat
      /\ step \in Steps /\ pos \in Nat /\ result \in Results
  BY DEF LifeInv, LifeTyped, ToolTyped
<1>2. ~IsOpen => ToolInv
  BY DEF LifeInv, LifeTyped, ClosedAt, ToolInv
<1>3. /\ Contents(data) \in Seq(DataCell) /\ Len(Contents(data)) \in Nat
      /\ Contents(index) \in Seq(IndexCell) /\ Len(Contents(index)) \in Nat
  BY <1>1, ContentsFacts
<1>4. Len(history) \in Nat
  BY <1>1
<1> QED
  BY <1>1, <1>2, <1>3, <1>4

(* A data file without cells has no history.                                 *)
LEMMA EmptyLog ==
  /\ LogOf(<<>>, <<>>) /\ Growing(<<>>) /\ <<>> \in Seq(ValueRecord)
  /\ \A h \in Seq(ValueRecord) : LogOf(<<>>, h) => h = <<>>
  /\ ~Whole(<<>>)
<1>1. LogOf(<<>>, <<>>) /\ Growing(<<>>) /\ <<>> \in Seq(ValueRecord)
  BY DEF LogOf, Growing
<1>2. ASSUME NEW h \in Seq(ValueRecord), LogOf(<<>>, h) PROVE h = <<>>
  <2>1. ~(\E i \in 1 .. Len(<<>>) : TRUE)
    OBVIOUS
  <2>2. \A k \in 1 .. Len(h) : FALSE
    BY <1>2, <2>1 DEF LogOf
  <2>3. Len(h) = 0
    BY <2>2
  <2> QED
    BY <2>3
<1>3. ~Whole(<<>>)
  BY DEF Whole, WellFormed
<1> QED
  BY <1>1, <1>2, <1>3

LEMMA SyncedAll ==
  ASSUME NEW c \in Seq(DataCell), NEW h \in Seq(ValueRecord), LogOf(c, h)
  PROVE  SyncedIn(Len(h), c, Len(c), h)
<1>1. Len(h) \in Nat
  OBVIOUS
<1>2. ASSUME Len(h) # 0 PROVE \E i \in 1 .. Len(c) : IsValue(c, i) /\ Len(h) <= c[i].value
  <2>1. Len(h) \in 1 .. Len(h)
    BY <1>1, <1>2
  <2>2. PICK i \in 1 .. Len(c) : IsValue(c, i) /\ c[i].value = Len(h)
    BY <2>1 DEF LogOf
  <2> QED
    BY <1>1, <2>2
<1> QED
  BY <1>1, <1>2 DEF SyncedIn

LEMMA SyncedStill ==
  ASSUME NEW n \in Nat, NEW c, NEW d, NEW h, NEW g, NEW k \in Nat, NEW m \in Nat,
         SyncedIn(n, c, k, h), k <= m, Len(h) \in Nat, Len(g) \in Nat, Len(h) <= Len(g),
         \A i \in 1 .. k : d[i] = c[i]
  PROVE  SyncedIn(n, d, m, g)
<1>1. n <= Len(g)
  BY DEF SyncedIn
<1>2. ASSUME n # 0 PROVE \E i \in 1 .. m : IsValue(d, i) /\ n <= d[i].value
  <2>1. PICK i \in 1 .. k : IsValue(c, i) /\ n <= c[i].value
    BY <1>2 DEF SyncedIn
  <2>2. i \in 1 .. m /\ d[i] = c[i]
    OBVIOUS
  <2> QED
    BY <2>1, <2>2 DEF IsValue
<1> QED
  BY <1>1, <1>2 DEF SyncedIn

(* What fails once has failed for good.                                      *)
LEMMA FailedStays ==
  ASSUME failed' = failed \/ (\E operation \in Faults : Fails(operation))
  PROVE  FilesPaired' => FilesPaired
  BY DEF Fails, FilesPaired, NoHalfCreated

-----------------------------------------------------------------------------
(* Every action preserves it: reads, Close and Remove.                       *)

(* A file that is flushed holds what it held, all of it on disk.             *)
LEMMA FlushedByCall ==
  ASSUME NEW C, NEW f \in StreamType(C), NEW g \in {SeekEnd(f), Close(f)}
  PROVE  /\ g \in StreamType(C) /\ Contents(g) = Contents(f) /\ g.cells = Contents(f)
         /\ FileExists(g) = FileExists(f)
<1>1. g \in StreamType(C) /\ Contents(g) = Contents(f) /\ g.state = f.state
  BY SeekEndFacts, CloseFacts
<1>2. g.cells = Contents(f)
  BY DEF SeekEnd, SeekTo, Close, Stream
<1> QED
  BY <1>1, <1>2 DEF FileExists

(* Both files may be flushed, and then so many values are on disk.           *)
LEMMA FlushKeeps ==
  ASSUME LifeInv, Settled, IsOpen,
         data' \in {data, SeekEnd(data)}, index' \in {index, SeekEnd(index)},
         synced' = synced \/ (data' = SeekEnd(data) /\ synced' = Len(history)),
         Unused, UNCHANGED <<info, removing, history, dirty, failed>>
  PROVE  LifeInv'
<1> DEFINE c == Contents(data)
           e == Contents(index)
<1>1. /\ step' = step /\ pos' = pos /\ result' = result /\ backup' = backup
      /\ Ready /\ Ready' /\ info # NewInfo /\ IsOpen'
      /\ FilesPaired' = FilesPaired
  BY DEF Unused, Settled, Ready, IsOpen, FilesPaired, NoHalfCreated
<1>2. /\ data' \in StreamType(DataCell) /\ Contents(data') = c
      /\ FileExists(data') = FileExists(data)
      /\ data' = data \/ data'.cells = c
  BY LifeFacts, FlushedByCall
<1>3. /\ index' \in StreamType(IndexCell) /\ Contents(index') = e
      /\ FileExists(index') = FileExists(index)
  BY LifeFacts, FlushedByCall
<1>4. AtEnd(data')
  BY LifeFacts, SeekEndFacts DEF LifeInv, OpenAt
<1>5. LifeTyped'
  BY <1>1, <1>2, <1>3, LifeFacts DEF Settled, Ready, LifeTyped, ToolTyped
<1>6. OpenAt'
  <2>1. /\ FileExists(data) /\ FileExists(index) /\ InfoAt(info, e, c, history)
    BY DEF LifeInv, OpenAt
  <2> QED
    BY <1>1, <1>2, <1>3, <1>4, <2>1 DEF OpenAt
<1>7. ClosedAt'
  BY <1>1 DEF ClosedAt
<1>8. LogAt'
  BY <1>2, <1>1 DEF LifeInv, LogAt, OpenAt
<1>9. SyncedAt'
  <2>1. SyncedIn(synced, c, Len(data.cells), history)
    BY DEF LifeInv, SyncedAt
  <2>2. CASE synced' = Len(history) /\ data' = SeekEnd(data)
    <3>1. data'.cells = c
      BY <2>2, LifeFacts, FlushedByCall
    <3>2. SyncedIn(Len(history), c, Len(c), history)
      BY LifeFacts, SyncedAll DEF LifeInv, LogAt
    <3> QED
      BY <1>2, <2>2, <3>1, <3>2 DEF SyncedAt
  <2>3. CASE synced' = synced
    <3>1. /\ Len(data.cells) \in Nat /\ Len(data'.cells) \in Nat
          /\ Len(data.cells) <= Len(data'.cells)
      <4>1. Len(data.cells) \in Nat /\ Len(data'.cells) \in Nat
        BY <1>2, LifeFacts, Fields
      <4>2. Len(data.cells) <= Len(data.cells)
        BY <4>1
      <4>3. Len(data.cells) <= Len(c)
        BY LifeFacts, CellsFit
      <4> QED
        BY <1>2, <4>1, <4>2, <4>3
    <3>2. Len(history) \in Nat /\ Len(history) <= Len(history) /\ synced \in Nat
      BY LifeFacts
    <3>3. SyncedIn(synced, c, Len(data'.cells), history)
      BY <2>1, <3>1, <3>2, SyncedStill
    <3> QED
      BY <1>1, <1>2, <2>3, <3>3 DEF SyncedAt
  <2> QED
    BY <2>2, <2>3
<1>10. PairedAt'
  BY <1>1, <1>2, <1>3 DEF LifeInv, PairedAt, Exact
<1>11. CleanAt'
  BY <1>1 DEF CleanAt
<1>12. EmptyAt'
  BY <1>1, <1>2 DEF LifeInv, EmptyAt
<1> QED
  BY <1>5, <1>6, <1>7, <1>8, <1>9, <1>10, <1>11, <1>12 DEF LifeInv

(* The position that the search answers is that of an entry of the hour.     *)
LEMMA FoundInEntries ==
  ASSUME NEW e \in Seq(IndexCell), e # <<>>, NEW lo \in Nat, NEW hi \in Nat,
         FindIndex(e, Len(e), lo, hi, hi) # NotFound
  PROVE  \E k \in 1 .. Len(e) : e[k].hour = hi /\ e[k].pos = FindIndex(e, Len(e), lo, hi, hi)
<1> DEFINE slot == Slot(Len(e), lo, hi, hi) + 1
<1>1. hi \in lo .. hi
  BY DEF FindIndex
<1>2. Len(e) \in Nat \ {0}
  OBVIOUS
<1>3. slot \in 1 .. Len(e)
  <2>1. Slot(Len(e), lo, hi, hi) \in 0 .. Len(e) - 1
    BY <1>1, <1>2, SlotInIndex
  <2> QED
    BY <1>2, <2>1
<1>4. CASE e[slot].hour = hi
  BY <1>1, <1>3, <1>4 DEF FindIndex
<1>5. CASE e[slot].hour # hi
  <2>1. FindIndex(e, Len(e), lo, hi, hi) = WalkBack(e, slot - 1, hi)
    BY <1>1, <1>5 DEF FindIndex
  <2>2. PICK k \in 1 .. slot - 1 : e[k].hour = hi /\ e[k].pos = WalkBack(e, slot - 1, hi)
    BY <2>1 DEF WalkBack
  <2> QED
    BY <1>2, <1>3, <2>1, <2>2
<1> QED
  BY <1>4, <1>5

LEMMA Behind ==
  ASSUME NEW C, NEW s \in Seq(C), NEW t, t = SubSeq(s, 2, Len(s)), Len(s) > 0
  PROVE  /\ t \in Seq(C) /\ Len(t) = Len(s) - 1
         /\ \A k \in 1 .. Len(t) : t[k] = s[k + 1]
<1> SUFFICES ASSUME NEW n \in Nat, n = Len(s), n > 0, t = SubSeq(s, 2, n)
             PROVE  /\ t \in Seq(C) /\ Len(t) = n - 1
                    /\ \A k \in 1 .. Len(t) : t[k] = s[k + 1]
  <2>1. Len(s) \in Nat
    OBVIOUS
  <2> QED
    BY <2>1, Zenon
<1>1. /\ t \in Seq(C) /\ Len(t) = IF 2 <= n THEN n - 2 + 1 ELSE 0
      /\ \A k \in 1 .. n - 2 + 1 : t[k] = s[2 + k - 1]
  OBVIOUS
<1>2. Len(t) = n - 1
  <2>1. CASE 2 <= n
    BY <1>1, <2>1
  <2>2. CASE n = 1
    BY <1>1, <2>2
  <2> QED
    BY <2>1, <2>2
<1> QED
  BY <1>1, <1>2

(* With the index of the data, the position found is that of the hour.       *)
LEMMA HourThere ==
  ASSUME LifeInv, FilesPaired, IsOpen, info # NewInfo, MeetsEntries, LastPos # NotFound
  PROVE  CellAt(data, LastPos) = HourCell(info.maxHour)
<1> DEFINE c == Contents(data)
           e == Contents(index)
<1>1. /\ Exact /\ info.minHour \in Nat /\ info.maxHour = e[Len(e)].hour
      /\ e \in Seq(IndexCell) /\ Len(e) \in Nat /\ Len(e) > 0 /\ Leads(e, c)
  BY LifeFacts DEF LifeInv, PairedAt, OpenAt, InfoAt, Leads
<1>2. \A k \in 2 .. Len(e) : c[e[k].pos + 1] = HourCell(e[k].hour)
  BY <1>1 DEF Exact, IndexedUpTo
<1>3. info.maxHour \in Nat
  BY <1>1, LifeFacts, LastHour
<1>4. /\ Entries \in Seq(IndexCell) /\ Len(Entries) = Len(e) - 1
      /\ \A k \in 1 .. Len(Entries) : Entries[k] = e[k + 1]
  BY <1>1, Behind DEF Entries
<1>5. PICK k \in 1 .. Len(Entries) : Entries[k].hour = info.maxHour /\ Entries[k].pos = LastPos
  BY <1>1, <1>3, <1>4, FoundInEntries DEF LastPos, MeetsEntries
<1>6. c[e[k + 1].pos + 1] = HourCell(e[k + 1].hour)
  BY <1>1, <1>2, <1>4
<1> QED
  BY <1>4, <1>5, <1>6 DEF CellAt

LEMMA ReadKeeps ==
  ASSUME LifeInv, FilesPaired, ReadLastValue \/ ReadMissingHour
  PROVE  LifeInv'
<1>1. CASE ReadMissingHour
  BY <1>1, FlushKeeps DEF ReadMissingHour
<1>2. CASE ReadLastValue
  <2>1. LastPos # NotFound => CellAt(data, LastPos) = HourCell(info.maxHour)
    BY <1>2, HourThere DEF ReadLastValue, Settled
  <2> QED
    BY <1>2, <2>1, FlushKeeps DEF ReadLastValue
<1> QED
  BY <1>1, <1>2

(* Both files are closed, and the index file may be gone.                    *)
LEMMA ShutKeeps ==
  ASSUME LifeInv, Settled, data' = Close(data), info' = NoInfo, synced' = Len(history),
         Unused, UNCHANGED <<history, dirty>>,
         FilesPaired' => FilesPaired,
         \/ index' = Close(index) /\ removing' = removing /\ IsOpen
         \/ index' = Close(index) /\ removing' /\ ~FilesPaired'
         \/ index' = Absent /\ removing'
  PROVE  LifeInv'
<1> DEFINE c == Contents(data)
           e == Contents(index)
<1>1. /\ step' = step /\ step = "idle" /\ pos' = pos /\ result' = result /\ backup' = backup
      /\ info # NewInfo /\ ~IsOpen' /\ ~removing
  BY DEF Unused, Settled, Ready, IsOpen
<1>2. /\ data' \in StreamType(DataCell) /\ Contents(data') = c /\ data'.cells = c
      /\ FileExists(data') = FileExists(data) /\ Closed(data')
  BY LifeFacts, FlushedByCall, CloseClosed
<1>3. /\ index' \in StreamType(IndexCell) /\ Closed(index')
      /\ FileExists(index') => FileExists(index)
      /\ index' = Close(index) => Contents(index') = e /\ FileExists(index') = FileExists(index)
      /\ index' = Absent => ~FileExists(index')
  BY LifeFacts, FlushedByCall, CloseClosed, AbsentFacts, AbsentClosed
<1>4. IsOpen => FileExists(data) /\ FileExists(index) /\ Whole(c) /\ Leads(e, c)
  BY <1>1 DEF LifeInv, OpenAt, InfoAt
<1>5. ~FileExists(data') => data' = Absent
  BY <1>2, LifeFacts, CloseClosed, AbsentFacts, AbsentClosed DEF LifeInv, LogAt
<1>6. ~FileExists(index') => index' = Absent
  <2>1. CASE IsOpen
    BY <1>3, <1>4, <2>1
  <2>2. CASE ~IsOpen /\ index' = Close(index)
    <3>1. ~FileExists(index) => index = Absent
      BY <2>2 DEF LifeInv, ClosedAt, FilesAt
    <3>2. Close(Absent) = Absent
      BY AbsentFacts, AbsentClosed, CloseClosed
    <3> QED
      BY <1>3, <2>2, <3>1, <3>2
  <2> QED
    BY <2>1, <2>2
<1>7. c = <<>> \/ Whole(c)
  BY <1>4 DEF LifeInv, ClosedAt
<1>8. LifeTyped'
  BY <1>1, <1>2, <1>3, LifeFacts DEF LifeTyped, ToolTyped
<1>9. OpenAt'
  BY <1>1 DEF OpenAt
<1>10. ClosedAt'
  <2>1. FilesAt'
    BY <1>1, <1>2, <1>3, <1>5, <1>6 DEF FilesAt
  <2>2. BuiltAt(Contents(index), Contents(data))'
    BY <1>1 DEF BuiltAt
  <2> QED
    BY <1>2, <1>7, <2>1, <2>2 DEF ClosedAt
<1>11. LogAt'
  BY <1>2, <1>5 DEF LifeInv, LogAt
<1>12. SyncedAt'
  <2>1. SyncedIn(Len(history), c, Len(c), history)
    BY LifeFacts, SyncedAll DEF LifeInv, LogAt
  <2> QED
    BY <1>2, <2>1 DEF SyncedAt
<1>13. PairedAt'
  BY <1>1, <1>2, <1>3, <1>4 DEF LifeInv, PairedAt
<1>14. CleanAt'
  BY <1>1, <1>2, <1>3, <1>4 DEF LifeInv, PairedAt, CleanAt, Ready, Exact
<1>15. EmptyAt'
  BY <1>1, <1>2 DEF LifeInv, EmptyAt
<1> QED
  BY <1>8, <1>9, <1>10, <1>11, <1>12, <1>13, <1>14, <1>15 DEF LifeInv

LEMMA CloseSensorKeeps ==
  ASSUME LifeInv, CloseSensor
  PROVE  LifeInv'
<1>1. FilesPaired' => FilesPaired
  BY DEF CloseSensor, FilesPaired, NoHalfCreated
<1> QED
  BY <1>1, ShutKeeps DEF CloseSensor

LEMMA RemoveIndexKeeps ==
  ASSUME LifeInv, RemoveIndex
  PROVE  LifeInv'
<1>1. \/ index' = Absent /\ failed' = failed
      \/ Fails("removeIndex") /\ index' = Close(index)
  BY DEF RemoveIndex
<1>2. FilesPaired' => FilesPaired
  BY <1>1 DEF Fails, FilesPaired, NoHalfCreated
<1>3. Fails("removeIndex") => ~FilesPaired'
  BY DEF Fails, FilesPaired, NoHalfCreated
<1> QED
  BY <1>1, <1>2, <1>3, ShutKeeps DEF RemoveIndex

LEMMA RemoveDataKeeps ==
  ASSUME LifeInv, RemovingAt, RemoveData
  PROVE  LifeInv'
<1> DEFINE c == Contents(data)
           e == Contents(index)
<1>1. /\ step' = step /\ step = "idle" /\ pos' = pos /\ result' = result /\ backup' = backup
      /\ info' = info /\ ~IsOpen /\ ~IsOpen' /\ index' = index /\ dirty' = dirty
      /\ index = Absent \/ failed = {"removeIndex"}
  BY DEF RemoveData, RemovingAt, Unused, IsOpen
<1>2. /\ index \in StreamType(IndexCell) /\ FilesAt /\ BuiltAt(e, c)
      /\ c = <<>> \/ Whole(c)
  BY <1>1, LifeFacts DEF LifeInv, ClosedAt
<1>3. BuiltAt(Contents(index), Contents(data))'
  BY <1>1 DEF BuiltAt
<1>4. OpenAt'
  BY <1>1 DEF OpenAt
<1>5. CASE data' = Absent /\ history' = <<>> /\ synced' = 0 /\ UNCHANGED failed
  <2>1. /\ data' \in StreamType(DataCell) /\ Contents(data') = <<>> /\ Closed(data')
        /\ ~FileExists(data')
    BY <1>5, AbsentFacts, AbsentClosed
  <2>2. LifeTyped'
    BY <1>1, <1>5, <2>1, EmptyLog, LifeFacts DEF LifeTyped, ToolTyped
  <2>3. FilesAt'
    BY <1>1, <1>2, <1>5, <2>1 DEF FilesAt
  <2>4. ClosedAt'
    BY <1>3, <2>1, <2>3 DEF ClosedAt
  <2>5. LogAt'
    BY <1>5, <2>1, EmptyLog DEF LogAt
  <2>6. SyncedAt'
    <3>1. Len(<<>>) = 0
      OBVIOUS
    <3> QED
      BY <1>5, <3>1 DEF SyncedAt, SyncedIn
  <2>7. PairedAt'
    BY <1>1, <1>5, AbsentClosed DEF PairedAt, FilesPaired, NoHalfCreated
  <2>8. CleanAt'
    BY <2>1, EmptyLog DEF CleanAt
  <2>9. EmptyAt'
    BY <2>1 DEF EmptyAt
  <2> QED
    BY <1>4, <2>2, <2>4, <2>5, <2>6, <2>7, <2>8, <2>9 DEF LifeInv
<1>6. CASE Fails("removeData") /\ Done("REMOVE_DAT") /\ UNCHANGED <<data, history, synced>>
  <2>1. /\ index = Absent /\ (FilesPaired' => FilesPaired)
        /\ answer' # "" /\ e = <<>>
    BY <1>1, <1>6, AbsentFacts DEF Fails, FilesPaired, NoHalfCreated, Done
  <2>2. LifeTyped'
    BY <1>1, <1>6, LifeFacts DEF LifeTyped, ToolTyped
  <2>3. ClosedAt'
    BY <1>1, <1>2, <1>3, <1>6 DEF ClosedAt, FilesAt
  <2>4. LogAt' /\ SyncedAt' /\ EmptyAt'
    BY <1>1, <1>6 DEF LifeInv, LogAt, SyncedAt, EmptyAt
  <2>5. PairedAt'
    BY <1>1, <1>6, <2>1, AbsentClosed DEF PairedAt
  <2>6. CleanAt'
    BY <1>1, <2>1 DEF CleanAt
  <2> QED
    BY <1>4, <2>2, <2>3, <2>4, <2>5, <2>6 DEF LifeInv
<1> QED
  BY <1>5, <1>6 DEF RemoveData

-----------------------------------------------------------------------------
(* The tool, and its kills.                                                  *)

(* A step of the tool makes no part of what holds between two openings false.*)
LEMMA ToolKeeps ==
  ASSUME LifeInv, ~IsOpen, Rebuild \/ Killed,
         UNCHANGED <<info, history, synced, failed>>,
         dirty' \/ (dirty' = (dirty /\ result' # "TRUE") /\ Rebuild /\ ~IOErrors)
  PROVE  LifeInv'
<1> DEFINE c == Contents(data)
<1>1. /\ ToolInv' /\ ToolEffect /\ ToolInv
  BY ToolStep, LifeFacts
<1>2. /\ Contents(data') = c /\ ~IsOpen'
      /\ FilesPaired' = FilesPaired
  BY <1>1 DEF ToolEffect, IsOpen, FilesPaired, NoHalfCreated
<1>3. /\ c = <<>> \/ Whole(c)
      /\ ~FileExists(data') => data' = Absent
      /\ data'.buf = <<>> /\ data.buf = <<>>
  BY <1>1 DEF LifeInv, ClosedAt, ToolInv, FilesAt, Closed
<1>4. data'.cells = c /\ data.cells = c
  <2>1. data' \in StreamType(DataCell)
    BY <1>1 DEF ToolInv, ToolTyped
  <2> QED
    BY <1>2, <1>3, <2>1, LifeFacts, ContentsFacts
<1>5. LifeTyped'
  BY <1>1, LifeFacts DEF LifeTyped, ToolInv
<1>6. OpenAt'
  BY <1>2 DEF OpenAt
<1>7. ClosedAt'
  BY <1>1, <1>2, <1>3 DEF ClosedAt, ToolInv
<1>8. LogAt'
  BY <1>2, <1>3 DEF LifeInv, LogAt
<1>9. SyncedAt'
  BY <1>2, <1>4 DEF LifeInv, SyncedAt
<1>10. PairedAt'
  BY <1>1, <1>2 DEF LifeInv, PairedAt, ToolEffect
<1>11. CleanAt'
  <2> SUFFICES ASSUME step' = "idle", ~dirty', Whole(c)
               PROVE  Leads(Contents(index'), c) /\ IndexedUpTo(Contents(index'), c, Len(c))
    BY <1>2 DEF CleanAt, Ready, Exact
  <2>1. result' = "TRUE"
    BY <1>1, ToolReturns
  <2>2. IndexedUpTo(Contents(index'), c, Len(c))
    BY <1>1, <2>1 DEF ToolEffect
  <2>3. Contents(index') \in Seq(IndexCell)
    <3>1. index' \in StreamType(IndexCell)
      BY <1>1 DEF ToolInv, ToolTyped
    <3> QED
      BY <3>1, ContentsFacts
  <2> QED
    BY <2>2, <2>3, LifeFacts, ExactLeads
<1>12. EmptyAt'
  <2> SUFFICES ASSUME c = <<>>, result' = "TRUE" PROVE FALSE
    BY <1>2 DEF EmptyAt
  <2>1. step = "close"
    BY <1>1 DEF ToolEffect
  <2> QED
    BY <1>1, <2>1 DEF ToolInv, BuiltAt
<1> QED
  BY <1>5, <1>6, <1>7, <1>8, <1>9, <1>10, <1>11, <1>12 DEF LifeInv

LEMMA RunToolKeeps ==
  ASSUME LifeInv, ~IOErrors, RunTool
  PROVE  LifeInv'
  BY ToolKeeps DEF RunTool

LEMMA KillToolKeeps ==
  ASSUME LifeInv, KillTool
  PROVE  LifeInv'
<1>1. step # "idle" /\ Killed
  BY DEF KillTool, Killed
<1>2. ~IsOpen
  BY <1>1 DEF LifeInv, OpenAt, Ready
<1> QED
  BY <1>1, <1>2, ToolKeeps DEF KillTool

-----------------------------------------------------------------------------
(* The store is killed.                                                      *)

LEMMA LostLog ==
  ASSUME Cuts \subseteq {"value"}, LifeInv, NEW g \in LostData(data), IsOpen \/ Closed(data)
  PROVE  /\ g \in StreamType(DataCell) /\ Closed(g) /\ g.state = data.state
         /\ g.cells = Contents(g) /\ (Closed(data) => g = data)
         /\ \/ Contents(g) = <<>> /\ ValuesIn(g.cells) = 0 /\ synced = 0
            \/ /\ Whole(Contents(g)) /\ ValuesIn(g.cells) \in 0 .. Len(history)
               /\ LogOf(Contents(g), SubSeq(history, 1, ValuesIn(g.cells)))
               /\ SyncedIn(synced, Contents(g), Len(g.cells),
                           SubSeq(history, 1, ValuesIn(g.cells)))

<1> DEFINE c == Contents(data)
           d == Contents(g)
           h == history
<1>0. /\ data \in StreamType(DataCell) /\ c \in Seq(DataCell) /\ Len(c) \in Nat
      /\ h \in Seq(ValueRecord) /\ Len(h) \in Nat /\ LogOf(c, h) /\ synced \in Nat
      /\ SyncedIn(synced, c, Len(data.cells), h) /\ Len(data.cells) \in Nat
  BY LifeFacts, Fields DEF LifeInv, LogAt, SyncedAt
<1>1. g \in StreamType(DataCell) /\ Closed(g) /\ g.state = data.state
  BY <1>0, LostDataFacts
<1>2. PICK m \in Len(data.cells) .. Len(c) :
        /\ g.cells = SubSeq(c, 1, m) /\ Contents(g) = g.cells
        /\ IF data.buf = <<>> THEN m = Len(c) ELSE m = 0 \/ IsValue(c, m)
  BY <1>0, LostDataFacts
<1>3. m \in 0 .. Len(c) /\ m \in Nat
  BY <1>0, <1>2
<1>4. ASSUME Closed(data) PROVE g = data
  <2>1. m = Len(c)
    BY <1>2, <1>4 DEF Closed
  <2>2. SubSeq(c, 1, Len(c)) = c
    BY <1>0
  <2>3. Contents(g) = c
    BY <1>2, <2>1, <2>2
  <2>4. Close(g) = Close(data)
    BY <1>1, <2>3 DEF Close
  <2> QED
    BY <1>0, <1>1, <1>4, <2>4, CloseClosed
<1>5. m = 0 \/ (m \in 1 .. Len(c) /\ IsValue(c, m) /\ Whole(c))
  <2>1. CASE Whole(c) /\ data.buf = <<>>
    BY <1>2, <1>3, <2>1 DEF Whole, WellFormed, EndsWhole
  <2>2. CASE Whole(c) /\ data.buf # <<>>
    BY <1>2, <1>3, <2>2
  <2>3. CASE c = <<>>
    BY <1>3, <2>3
  <2>4. CASE c = <<HeaderCell("Float")>> /\ data.cells = <<>>
    <3>1. data.buf # <<>>
      <4>1. data.buf = <<>> => c = data.cells
        BY <1>0, ContentsFacts
      <4>2. Len(c) = 1
        BY <2>4
      <4>3. c # data.cells
        BY <2>4, <4>2
      <4> QED
        BY <4>1, <4>3
    <3>2. m \in {0, 1} /\ ~IsValue(c, 1)
      BY <1>3, <2>4, CellFacts DEF IsValue
    <3> QED
      BY <1>2, <3>1, <3>2
  <2>5. IsOpen => Whole(c) \/ (c = <<HeaderCell("Float")>> /\ data.cells = <<>>)
    BY DEF LifeInv, OpenAt, InfoAt
  <2>6. ~IsOpen => c = <<>> \/ Whole(c)
    BY DEF LifeInv, ClosedAt
  <2> QED
    BY <2>1, <2>2, <2>3, <2>4, <2>5, <2>6
<1>6. CASE m = 0
  <2>1. g.cells = <<>>
    <3>1. Len(SubSeq(c, 1, 0)) = 0 /\ SubSeq(c, 1, 0) \in Seq(DataCell)
      BY <1>0, <1>3, Beginning
    <3> QED
      BY <1>2, <1>6, <3>1
  <2>2. ValuesIn(<<>>) = 0
    <3>1. {i \in 1 .. Len(<<>>) : IsValue(<<>>, i)} = {}
      OBVIOUS
    <3> QED
      BY <3>1, FS_EmptySet DEF ValuesIn
  <2>3. Len(data.cells) = 0
    BY <1>0, <1>2, <1>6
  <2>4. synced = 0
    BY <1>0, <2>3 DEF SyncedIn
  <2> QED
    BY <1>1, <1>2, <1>4, <2>1, <2>2, <2>4
<1>7. CASE m \in 1 .. Len(c) /\ IsValue(c, m) /\ Whole(c)
  <2> DEFINE v == c[m].value
  <2>0. WellFormed(c)
    BY <1>7 DEF Whole
  <2>1. /\ Whole(d) /\ v \in 1 .. Len(h) /\ LogOf(d, SubSeq(h, 1, v))
    BY <1>0, <1>2, <1>7, <2>0, LogCut
  <2>2. /\ SubSeq(h, 1, v) \in Seq(ValueRecord) /\ Len(SubSeq(h, 1, v)) = v
        /\ v \in 0 .. Len(h)
    BY <1>0, <2>1, Beginning
  <2>3. /\ d \in Seq(DataCell) /\ Len(d) = m /\ \A i \in 1 .. m : d[i] = c[i]
    BY <1>0, <1>2, <1>3, Beginning
  <2>4. ValuesIn(d) = v
    BY <2>1, <2>2, <2>3, LogCounted
  <2>5. SyncedIn(synced, d, m, SubSeq(h, 1, v))
    <3>1. ASSUME NEW i \in 1 .. Len(data.cells), IsValue(c, i), synced <= c[i].value
          PROVE  synced <= v /\ i \in 1 .. m /\ IsValue(d, i) /\ synced <= d[i].value
      <4>1. i \in 1 .. Len(c) /\ i \in 1 .. m /\ i <= m
        BY <1>0, <1>2
      <4>2. i < m => c[i].value < v
        BY <1>0, <1>7, <3>1, <4>1 DEF LogOf
      <4>3. c[i].value \in 1 .. Len(h)
        BY <1>0, <3>1, <4>1 DEF LogOf
      <4>4. i < m \/ i = m
        BY <4>1
      <4>5. c[i].value <= v
        BY <1>0, <2>1, <4>2, <4>3, <4>4
      <4>6. synced <= v
        <5>1. c[i].value \in Nat /\ v \in Nat /\ synced \in Nat
          BY <1>0, <2>1, <4>3
        <5> QED
          BY <3>1, <4>5, <5>1
      <4> QED
        BY <2>3, <3>1, <4>1, <4>6 DEF IsValue
    <3>2. synced = 0 \/ \E i \in 1 .. Len(data.cells) : IsValue(c, i) /\ synced <= c[i].value
      BY <1>0 DEF SyncedIn
    <3>3. synced = 0 => synced <= v
      BY <2>2
    <3>4. synced <= v /\ (synced = 0 \/ \E i \in 1 .. m : IsValue(d, i) /\ synced <= d[i].value)
      BY <3>1, <3>2, <3>3
    <3> QED
      BY <2>2, <3>4 DEF SyncedIn
  <2>6. ValuesIn(g.cells) = v /\ Len(g.cells) = m
    BY <1>2, <2>3, <2>4
  <2> QED
    BY <1>1, <1>2, <1>4, <2>1, <2>2, <2>5, <2>6
<1> QED
  BY <1>5, <1>6, <1>7

LEMMA CrashKeeps ==
  ASSUME Cuts \subseteq {"value"}, LifeInv, RemovingAt, Crash
  PROVE  LifeInv'
<1> DEFINE c == Contents(data)
           n == ValuesIn(data'.cells)
<1>1. /\ step' = step /\ step = "idle" /\ pos' = pos /\ result' = result /\ backup' = backup
      /\ ~IsOpen' /\ ~removing' /\ dirty' /\ synced' = synced
      /\ data' \in LostData(data) /\ index' \in LostIndex(index)
      /\ history' = SubSeq(history, 1, n)
      /\ FilesPaired' = FilesPaired
      /\ IsOpen \/ removing
  BY DEF Crash, Unused, IsOpen, FilesPaired, NoHalfCreated
<1>2. IsOpen \/ Closed(data)
  BY <1>1 DEF LifeInv, ClosedAt, FilesAt
<1>3. /\ data' \in StreamType(DataCell) /\ Closed(data') /\ data'.state = data.state
      /\ data'.cells = Contents(data') /\ (Closed(data) => data' = data)
      /\ \/ Contents(data') = <<>> /\ n = 0 /\ synced = 0
         \/ /\ Whole(Contents(data')) /\ n \in 0 .. Len(history)
            /\ LogOf(Contents(data'), SubSeq(history, 1, n))
            /\ SyncedIn(synced, Contents(data'), Len(data'.cells), SubSeq(history, 1, n))
  BY <1>1, <1>2, LostLog
<1>4. /\ index' \in StreamType(IndexCell) /\ Closed(index') /\ index'.state = index.state
      /\ Closed(index) => index' = index
  BY <1>1, LifeFacts, LostFacts
<1>5. n \in 0 .. Len(history) /\ (n = 0 => history' = <<>>)
  <2>1. Len(history) \in Nat /\ history \in Seq(ValueRecord)
    BY LifeFacts
  <2>2. n = 0 \/ n \in 0 .. Len(history)
    BY <1>3
  <2>3. n \in 0 .. Len(history)
    BY <2>1, <2>2
  <2>4. n = 0 => Len(history') = 0 /\ history' \in Seq(ValueRecord)
    BY <1>1, <2>1, <2>3, Beginning
  <2> QED
    BY <2>3, <2>4
<1>6. history' \in Seq(ValueRecord) /\ Growing(history') /\ LogOf(Contents(data'), history')
  <2>1. history' \in Seq(ValueRecord) /\ Growing(history')
    BY <1>1, <1>5, LifeFacts, Beginning, GrowingCut DEF LifeInv, LogAt
  <2>2. LogOf(Contents(data'), history')
    BY <1>1, <1>3, <1>5, EmptyLog
  <2> QED
    BY <2>1, <2>2
<1>7. /\ FileExists(data') = FileExists(data) /\ FileExists(index') = FileExists(index)
      /\ ~FileExists(data) => data = Absent
  BY <1>3, <1>4 DEF FileExists, LifeInv, LogAt
<1>8. ~FileExists(data') => data' = Absent
  BY <1>3, <1>7, AbsentClosed
<1>9. ~FileExists(index') => index' = Absent
  <2>1. CASE IsOpen
    BY <1>7, <2>1 DEF LifeInv, OpenAt
  <2>2. CASE ~IsOpen
    BY <1>1, <1>4, <1>7, <2>2 DEF LifeInv, ClosedAt, FilesAt
  <2> QED
    BY <2>1, <2>2
<1>10. LifeTyped'
  BY <1>1, <1>3, <1>4, <1>6, LifeFacts DEF LifeTyped, ToolTyped
<1>11. OpenAt' /\ CleanAt' /\ EmptyAt'
  BY <1>1 DEF OpenAt, CleanAt, EmptyAt
<1>12. ClosedAt'
  <2>1. FilesAt'
    BY <1>1, <1>3, <1>4, <1>8, <1>9 DEF FilesAt
  <2>2. BuiltAt(Contents(index), Contents(data))'
    BY <1>1 DEF BuiltAt
  <2> QED
    BY <1>3, <2>1, <2>2 DEF ClosedAt
<1>13. LogAt'
  BY <1>6, <1>8 DEF LogAt
<1>14. SyncedAt'
  <2>1. synced = 0 /\ history' = <<>> => SyncedIn(0, Contents(data'), Len(data'.cells), history')
    <3>1. Len(<<>>) = 0
      OBVIOUS
    <3> QED
      BY <3>1 DEF SyncedIn
  <2> QED
    BY <1>1, <1>3, <1>5, <2>1 DEF SyncedAt
<1>15. PairedAt'
  BY <1>1, <1>7 DEF LifeInv, PairedAt
<1> QED
  BY <1>10, <1>11, <1>12, <1>13, <1>14, <1>15 DEF LifeInv

-----------------------------------------------------------------------------
(* createFiles.                                                              *)

LEMMA CreatedFile ==
  ASSUME BufCap > 1, NEW f \in StreamType(DataCell), f = Absent,
         NEW g, g = Put(Open(f), HeaderCell("Float"))
  PROVE  /\ g \in StreamType(DataCell) /\ Contents(g) = <<HeaderCell("Float")>>
         /\ FileExists(g) /\ AtEnd(g) /\ g.cells = <<>>
<1> DEFINE x == HeaderCell("Float")
           o == Open(f)
<1>1. x \in DataCell
  BY CellFacts
<1>2. f.cells = <<>> /\ f.buf = <<>> /\ Contents(f) = <<>>
  BY AbsentFacts DEF Absent, Stream
<1>3. /\ o \in StreamType(DataCell) /\ Contents(o) = <<>> /\ o.state = "present" /\ AtEnd(o)
  BY <1>2, OpenFacts
<1>4. o.cells = <<>> /\ o.buf = <<>> /\ o.pos = 0
  BY <1>2 DEF Open, Stream
<1> HIDE DEF x, o
<1>5. /\ Put(o, x) \in StreamType(DataCell) /\ Contents(Put(o, x)) = Append(<<>>, x)
      /\ Put(o, x).state = "present" /\ AtEnd(Put(o, x))
  BY <1>1, <1>3, PutFacts
<1>6. Put(o, x).cells = <<>>
  <2>1. Append(o.buf, x) = <<x>> /\ Len(<<x>>) = 1
    BY <1>4
  <2>2. Put(o, x) = Stream(o.state, o.cells, Append(o.buf, x), o.pos)
    <3>1. Len(Stream(o.state, o.cells, Append(o.buf, x), o.pos).buf) = 1
      BY <2>1 DEF Stream
    <3>2. 1 < BufCap
      BY BufCapAssumption
    <3> QED
      BY <3>1, <3>2 DEF Put
  <2> QED
    BY <1>4, <2>2 DEF Stream
<1>7. Append(<<>>, x) = <<x>>
  OBVIOUS
<1> QED
  BY <1>5, <1>6, <1>7 DEF FileExists, x, o

LEMMA CreateFilesKeeps ==
  ASSUME BufCap > 1, LifeInv, CreateFiles, FilesPaired'
  PROVE  LifeInv'
<1> DEFINE c == Contents(data)
           e == Contents(index)
           x == HeaderCell("Float")
<1>1. /\ Ready /\ ~IsOpen /\ ~FileExists(data) /\ Unused
      /\ UNCHANGED <<removing, history, synced, dirty, crashes>>
  BY DEF CreateFiles
<1>2. /\ data' = Put(Open(data), x) /\ index' = Put(Open(index), x)
      /\ info' = NewInfo /\ failed' = failed
  BY DEF CreateFiles, Fails, FilesPaired, NoHalfCreated
<1>3. /\ step' = step /\ step = "idle" /\ pos' = pos /\ result' = result /\ backup' = backup
      /\ Ready' /\ IsOpen'
      /\ FilesPaired' = FilesPaired
  BY <1>1, <1>2 DEF Unused, Ready, IsOpen, NewInfo, NoInfo, FilesInfo, FilesPaired, NoHalfCreated
<1>4. data = Absent /\ c = <<>>
  BY <1>1, AbsentFacts DEF LifeInv, LogAt
<1>5. history = <<>> /\ synced = 0
  <2>1. history = <<>>
    BY <1>4, LifeFacts, EmptyLog DEF LifeInv, LogAt
  <2>2. synced <= 0
    <3>1. synced <= Len(history) /\ Len(history) = 0
      BY <2>1 DEF LifeInv, SyncedAt, SyncedIn
    <3> QED
      BY <3>1
  <2>3. synced = 0
    BY <2>2, LifeFacts
  <2> QED
    BY <2>1, <2>3
<1>6. /\ data' \in StreamType(DataCell) /\ Contents(data') = <<x>>
      /\ FileExists(data') /\ AtEnd(data') /\ data'.cells = <<>>
  BY <1>2, <1>4, LifeFacts, CreatedFile
<1>7. x \in IndexCell /\ x \in DataCell /\ x.kind = "header"
  BY CellFacts, CellsTyped
<1>8. /\ index' \in StreamType(IndexCell) /\ Contents(index') = Append(e, x)
      /\ FileExists(index')
  <2>1. /\ Open(index) \in StreamType(IndexCell) /\ Contents(Open(index)) = e
        /\ Open(index).state = "present"
    BY LifeFacts, OpenFacts
  <2> QED
    BY <1>2, <1>7, <2>1, PutFacts DEF FileExists
<1>9. ASSUME FilesPaired PROVE Contents(index') = <<x>>
  <2>1. index = Absent
    BY <1>1, <1>9 DEF LifeInv, PairedAt, ClosedAt, FilesAt
  <2>2. e = <<>> /\ Append(<<>>, x) = <<x>>
    BY <2>1, AbsentFacts
  <2> QED
    BY <1>8, <2>2
<1> HIDE DEF x
<1>10. LifeTyped'
  BY <1>1, <1>3, <1>6, <1>8, LifeFacts DEF LifeTyped, ToolTyped
<1>11. OpenAt'
  <2>1. history' = <<>>
    BY <1>1, <1>5
  <2> QED
    BY <1>2, <1>3, <1>6, <1>8, <2>1 DEF OpenAt, InfoAt, x
<1>12. ClosedAt' /\ CleanAt'
  BY <1>3 DEF ClosedAt, CleanAt
<1>13. LogAt'
  <2>1. LogOf(<<x>>, <<>>)
    BY <1>7 DEF LogOf, IsValue, IsHour
  <2> QED
    BY <1>1, <1>5, <1>6, <2>1, EmptyLog DEF LogAt
<1>14. SyncedAt'
  BY <1>1, <1>5, <1>6 DEF SyncedAt, SyncedIn
<1>15. PairedAt'
  <2>1. IndexedUpTo(<<x>>, <<x>>, 1)
    BY DEF IndexedUpTo
  <2>2. Len(<<x>>) = 1
    OBVIOUS
  <2> QED
    BY <1>3, <1>6, <1>9, <2>1, <2>2 DEF PairedAt, Exact
<1>16. EmptyAt'
  BY <1>6 DEF EmptyAt
<1> QED
  BY <1>10, <1>11, <1>12, <1>13, <1>14, <1>15, <1>16 DEF LifeInv

-----------------------------------------------------------------------------
(* openFiles.                                                                *)

(* openFiles takes a data file that ends in a record, with an index that     *)
(* leads to its last hour.                                                   *)
LEMMA Opened ==
  ASSUME RepairFirst, LifeInv, OpenFilesOf, "OK" \in OpenCodes
  PROVE  /\ Whole(Contents(data)) /\ Leads(Contents(index), Contents(data))
         /\ FilesPaired => Exact
<1>1. HasHeader(data) /\ HasHeader(index)
  BY DEF OpenCodes
<1>2. Contents(data) # <<>> /\ Contents(index) # <<>>
  BY <1>1 DEF HasHeader, HasCell
<1>3. Ready /\ ~IsOpen /\ ~dirty
  BY DEF OpenFilesOf
<1>4. Whole(Contents(data))
  BY <1>2, <1>3 DEF LifeInv, ClosedAt
<1> QED
  BY <1>2, <1>3, <1>4 DEF LifeInv, CleanAt

(* The first hour of the index is an hour, stray or not.                     *)
LEMMA FirstHourTyped ==
  ASSUME LifeInv, Leads(Contents(index), Contents(data)), "OK" \in OpenCodes
  PROVE  FirstHours \subseteq Nat
<1> DEFINE e == Contents(index)
<1>1. e[2] \in IndexCell
  <2>1. HasHeader(index) /\ IsEntry(e, Len(e))
    BY DEF OpenCodes, Leads
  <2>2. Len(e) \in Nat /\ Len(e) > 0 /\ e[1].kind = "header" /\ e[Len(e)].kind = "entry"
    BY <2>1, LifeFacts DEF HasHeader, HasCell, CellAt, IsEntry
  <2>3. 2 \in 1 .. Len(e)
    BY <2>2
  <2> QED
    BY <2>3, LifeFacts
<1>2. \A x \in IndexCell : x.kind \in {"entry", "half"} => x.hour \in Nat
  BY DEF IndexCell, Cell, EndLine
<1>3. CellAt(index, 1) = e[2]
  BY DEF CellAt
<1> QED
  BY <1>1, <1>2, <1>3, StrayHoursAssumption DEF FirstHours

LEMMA OpenFilesOfKeeps ==
  ASSUME RepairFirst, LifeInv, OpenFilesOf
  PROVE  LifeInv'
<1> DEFINE c == Contents(data)
           e == Contents(index)
<1>1. /\ Ready /\ ~IsOpen /\ FileExists(data) /\ Unused
      /\ UNCHANGED <<removing, history, synced, dirty, crashes, failed>>
  BY DEF OpenFilesOf
<1>2. /\ step' = step /\ step = "idle" /\ pos' = pos /\ result' = result /\ backup' = backup
      /\ Ready' /\ FilesPaired' = FilesPaired
  BY <1>1 DEF Unused, Ready, FilesPaired, NoHalfCreated
<1>3. /\ Closed(data) /\ Closed(index) /\ (~FileExists(index) => index = Absent)
      /\ data.cells = c
  <2>1. /\ Closed(data) /\ Closed(index) /\ (~FileExists(index) => index = Absent)
    BY <1>1, <1>2 DEF LifeInv, ClosedAt, FilesAt
  <2> QED
    BY <2>1, LifeFacts, ContentsFacts DEF Closed
<1>4. CASE /\ "OK" \in OpenCodes
           /\ data' = SeekEnd(Open(data)) /\ index' = SeekEnd(Open(index))
           /\ \E first \in FirstHours, offset \in TailOffsets(c) :
                info' = OpenedInfo(first, offset)
  <2> DEFINE last == e[Len(e)]
  <2>1. PICK first \in FirstHours, offset \in TailOffsets(c) :
          info' = OpenedInfo(first, offset)
    BY <1>4
  <2>2. Whole(c) /\ Leads(e, c) /\ (FilesPaired => Exact)
    BY <1>4, Opened
  <2>3. last.hour > 0 /\ last.hour \in Nat
    BY <2>2, LifeFacts, LastTime, LastHour DEF LifeInv, LogAt
  <2>4. LastCell(index) = last
    BY LifeFacts DEF LastCell, CellAt
  <2>5. offset = c[Len(c)].offset
    BY <2>2 DEF TailOffsets, Whole, EndsWhole
  <2>6. info' = FilesInfo(ToTimeT(last.hour, 0), first, last.hour, offset)
    BY <2>1, <2>4 DEF OpenedInfo
  <2>7. /\ info'.minHour \in Nat /\ info'.maxHour = last.hour
        /\ info'.startHour = ToTimeT(last.hour, 0) /\ info'.maxOffset = offset
    BY <1>4, <2>2, <2>6, FirstHourTyped DEF FilesInfo
  <2>8. ToTimeT(last.hour, 0) \in Nat
    BY <2>3, TimeTyped
  <2>9. IsOpen' /\ info' # NewInfo
    <3>1. info'.startHour # -1 /\ info'.maxHour # 0
      BY <2>3, <2>7, <2>8
    <3> QED
      BY <3>1 DEF IsOpen, NoInfo, NewInfo, FilesInfo
  <2>10. /\ data' \in StreamType(DataCell) /\ Contents(data') = c /\ FileExists(data')
         /\ AtEnd(data') /\ data'.cells = c
    <3>1. /\ Open(data) \in StreamType(DataCell) /\ Contents(Open(data)) = c
          /\ FileExists(Open(data))
      BY LifeFacts, OpenFacts DEF FileExists
    <3> QED
      BY <1>4, <3>1, SeekEndFacts, FlushedByCall
  <2>11. /\ index' \in StreamType(IndexCell) /\ Contents(index') = e /\ FileExists(index')
    <3>1. /\ Open(index) \in StreamType(IndexCell) /\ Contents(Open(index)) = e
          /\ FileExists(Open(index))
      BY LifeFacts, OpenFacts DEF FileExists
    <3> QED
      BY <1>4, <3>1, FlushedByCall
  <2>12. LifeTyped'
    BY <1>1, <1>2, <2>10, <2>11, LifeFacts DEF LifeTyped, ToolTyped
  <2>13. OpenAt'
    BY <1>2, <2>2, <2>5, <2>7, <2>9, <2>10, <2>11 DEF OpenAt, InfoAt
  <2>14. ClosedAt' /\ CleanAt'
    BY <2>9 DEF ClosedAt, CleanAt
  <2>15. LogAt' /\ SyncedAt'
    BY <1>1, <1>3, <2>10 DEF LifeInv, LogAt, SyncedAt
  <2>16. PairedAt' /\ EmptyAt'
    BY <1>1, <1>2, <2>2, <2>10, <2>11 DEF LifeInv, PairedAt, EmptyAt, Exact
  <2> QED
    BY <2>12, <2>13, <2>14, <2>15, <2>16 DEF LifeInv
<1>5. CASE \E code \in OpenCodes :
             /\ code # "OK"
             /\ index' = IF code = "OPEN_DAT2" THEN index ELSE Close(Open(index))
             /\ Done(code)
             /\ UNCHANGED <<data, info>>
  <2>1. /\ index' \in {index, Close(Open(index))} /\ data' = data /\ info' = info
    BY <1>5
  <2>2. answer' # ""
    BY <1>5 DEF OpenCodes, VerifyLastIndex, Done
  <2>3. /\ index' \in StreamType(IndexCell) /\ Contents(index') = e /\ Closed(index')
        /\ ~FileExists(index') => index' = Absent
    <3>1. CASE index' = index
      BY <1>3, <3>1, LifeFacts
    <3>2. CASE index' = Close(Open(index))
      <4>1. /\ Open(index) \in StreamType(IndexCell) /\ Contents(Open(index)) = e
            /\ FileExists(Open(index))
        BY LifeFacts, OpenFacts DEF FileExists
      <4> QED
        BY <3>2, <4>1, FlushedByCall, CloseClosed
    <3> QED
      BY <2>1, <3>1, <3>2
  <2>4. ~IsOpen' /\ FileExists(data')
    BY <1>1, <2>1 DEF IsOpen
  <2>5. LifeTyped'
    BY <1>1, <1>2, <2>1, <2>3, LifeFacts DEF LifeTyped, ToolTyped
  <2>6. OpenAt'
    BY <2>4 DEF OpenAt
  <2>7. ClosedAt'
    <3>1. FilesAt'
      BY <1>1, <1>2, <2>1, <2>3 DEF LifeInv, ClosedAt, FilesAt
    <3>2. BuiltAt(Contents(index), Contents(data))'
      BY <1>2 DEF BuiltAt
    <3> QED
      BY <1>1, <2>1, <3>1, <3>2 DEF LifeInv, ClosedAt
  <2>8. LogAt' /\ SyncedAt'
    BY <1>1, <2>1 DEF LifeInv, LogAt, SyncedAt
  <2>9. PairedAt'
    BY <2>4 DEF PairedAt
  <2>10. CleanAt'
    BY <1>1, <1>2, <2>1, <2>2, <2>3 DEF LifeInv, CleanAt, Exact
  <2>11. EmptyAt'
    BY <1>1, <1>2, <2>1 DEF LifeInv, EmptyAt
  <2> QED
    BY <2>5, <2>6, <2>7, <2>8, <2>9, <2>10, <2>11 DEF LifeInv
<1> QED
  <2>1. PICK code \in OpenCodes :
          \/ /\ code = "OK"
             /\ data' = SeekEnd(Open(data)) /\ index' = SeekEnd(Open(index))
             /\ \E first \in FirstHours, offset \in TailOffsets(c) :
                  info' = OpenedInfo(first, offset)
          \/ /\ code # "OK"
             /\ index' = IF code = "OPEN_DAT2" THEN index ELSE Close(Open(index))
             /\ Done(code)
             /\ UNCHANGED <<data, info>>
    BY DEF OpenFilesOf
  <2> QED
    BY <1>4, <1>5, <2>1

-----------------------------------------------------------------------------
(* WriteTimeValue.                                                           *)

(* Whether a date is refused depends on the last value alone, of which the   *)
(* hour comes from the index and the offset from the last write or record:   *)
(* it is refused exactly when some value is as late.                         *)
LEMMA RefusedExactly ==
  ASSUME LifeInv, IsOpen, NEW time \in Dates
  PROVE  ~HasMoreRecent(time) <=> \A k \in 1 .. Len(history) : history[k].time < time
<1> DEFINE c == Contents(data)
           e == Contents(index)
           h == history
<1>0. time \in Nat /\ h \in Seq(ValueRecord) /\ Len(h) \in Nat
  BY LifeAssumption, LifeFacts
<1>1. CASE info = NewInfo /\ h = <<>>
  BY <1>1 DEF HasMoreRecent, NewInfo, FilesInfo
<1>2. CASE /\ Whole(c) /\ Leads(e, c)
           /\ info.maxHour = e[Len(e)].hour
           /\ info.maxOffset = c[Len(c)].offset
  <2>1. /\ Len(h) > 0 /\ c[Len(c)].offset \in Nat /\ e[Len(e)].hour > 0
        /\ h[Len(h)].time = ToTimeT(e[Len(e)].hour, c[Len(c)].offset)
    BY <1>2, LifeFacts, LastTime DEF LifeInv, LogAt
  <2> DEFINE last == h[Len(h)].time
  <2>2. info.maxHour > 0 /\ last = ToTimeT(info.maxHour, info.maxOffset)
    BY <1>2, <2>1
  <2>3. ~HasMoreRecent(time) <=> ~(time <= last)
    BY <2>2 DEF HasMoreRecent
  <2>4. Len(h) \in 1 .. Len(h)
    BY <1>0, <2>1
  <2>5. \A k \in 1 .. Len(h) : h[k].time \in Nat
    <3>1. \A k \in 1 .. Len(h) : h[k] \in ValueRecord
      BY <1>0
    <3>2. \A record \in ValueRecord : record.time \in Nat
      BY DEF ValueRecord
    <3> QED
      BY <3>1, <3>2
  <2>6. \A k \in 1 .. Len(h) : k # Len(h) => h[k].time < last
    BY <1>0, <2>4 DEF LifeInv, LogAt, Growing
  <2>7. ~(time <= last) <=> last < time
    BY <1>0, <2>4, <2>5
  <2>8. last < time => \A k \in 1 .. Len(h) : h[k].time < time
    <3> HAVE last < time
    <3> TAKE k \in 1 .. Len(h)
    <3>1. h[k].time \in Nat /\ last \in Nat
      BY <2>4, <2>5
    <3>2. CASE k = Len(h)
      BY <3>2
    <3>3. CASE k # Len(h)
      <4>1. h[k].time < last
        BY <2>6, <3>3
      <4> HIDE DEF last
      <4> QED
        BY <1>0, <3>1, <4>1
    <3> QED
      BY <3>2, <3>3
  <2> QED
    BY <2>3, <2>4, <2>7, <2>8
<1> QED
  BY <1>1, <1>2 DEF LifeInv, OpenAt, InfoAt

(* The shape of what a write leaves, whichever case it was.                  *)
LEMMA WrittenKeeps ==
  ASSUME LifeInv, IsOpen, Unused, UNCHANGED <<removing, synced, dirty, failed>>,
         data' \in StreamType(DataCell), index' \in StreamType(IndexCell),
         FileExists(data'), FileExists(index'), AtEnd(data'),
         Whole(Contents(data')), Leads(Contents(index'), Contents(data')),
         history' \in Seq(ValueRecord), Len(history') = Len(history) + 1,
         LogOf(Contents(data'), history'), Growing(history'),
         Len(data.cells) <= Len(data'.cells),
         \A i \in 1 .. Len(Contents(data)) : Contents(data')[i] = Contents(data)[i],
         FilesPaired => Exact',
         info'.minHour \in Nat,
         info'.maxHour = Contents(index')[Len(Contents(index'))].hour,
         info'.startHour = ToTimeT(info'.maxHour, 0),
         info'.maxOffset = Contents(data')[Len(Contents(data'))].offset
  PROVE  LifeInv'
<1>1. /\ step' = step /\ pos' = pos /\ result' = result /\ backup' = backup
      /\ step = "idle" /\ Ready'
      /\ FilesPaired' = FilesPaired
  BY DEF Unused, LifeInv, OpenAt, Ready, FilesPaired, NoHalfCreated
<1>2. info'.maxHour > 0 /\ info'.startHour \in Nat
  <2>1. /\ Contents(data') \in Seq(DataCell) /\ Contents(index') \in Seq(IndexCell)
    BY ContentsFacts
  <2>2. info'.maxHour > 0 /\ info'.maxHour \in Nat
    BY <2>1, LastTime, LastHour
  <2> QED
    BY <2>2, TimeTyped
<1>3. IsOpen' /\ info' # NewInfo
  <2>1. info'.startHour # -1 /\ info'.maxHour # 0
    BY <1>2
  <2> QED
    BY <2>1 DEF IsOpen, NoInfo, NewInfo, FilesInfo
<1>4. LifeTyped'
  BY <1>1, LifeFacts DEF LifeTyped, ToolTyped
<1>5. OpenAt'
  BY <1>1, <1>3 DEF OpenAt, InfoAt
<1>6. ClosedAt' /\ CleanAt'
  BY <1>3 DEF ClosedAt, CleanAt
<1>7. LogAt'
  BY DEF LogAt
<1>8. SyncedAt'
  <2>1. /\ Len(data.cells) \in Nat /\ Len(data'.cells) \in Nat
        /\ Len(history) \in Nat /\ Len(history') \in Nat /\ synced \in Nat
    BY LifeFacts, Fields
  <2>2. Len(history) <= Len(history')
    BY <2>1
  <2>3. ASSUME NEW i \in 1 .. Len(data.cells) PROVE Contents(data')[i] = Contents(data)[i]
    <3>1. Len(data.cells) <= Len(Contents(data)) /\ Len(Contents(data)) \in Nat
      BY LifeFacts, CellsFit
    <3>2. i \in 1 .. Len(Contents(data))
      BY <2>1, <3>1
    <3> QED
      BY <3>2
  <2>4. SyncedIn(synced, Contents(data), Len(data.cells), history)
    BY DEF LifeInv, SyncedAt
  <2>5. SyncedIn(synced, Contents(data'), Len(data'.cells), history')
    BY <2>1, <2>2, <2>3, <2>4, SyncedStill
  <2> QED
    BY <2>5 DEF SyncedAt
<1>9. PairedAt'
  BY <1>1 DEF PairedAt
<1>10. EmptyAt'
  BY EmptyLog DEF EmptyAt
<1> QED
  BY <1>4, <1>5, <1>6, <1>7, <1>8, <1>9, <1>10 DEF LifeInv

(* A write in a new hour, behind the header or the end mark of a block.      *)
LEMMA NewHourKeeps ==
  ASSUME LifeInv, IsOpen, Unused, UNCHANGED <<removing, synced, dirty, failed>>,
         NEW time \in Dates, \A k \in 1 .. Len(history) : history[k].time < time,
         NEW ended \in StreamType(DataCell), AtEnd(ended), FileExists(ended),
         WellFormed(Contents(ended)),
         Contents(ended)[Len(Contents(ended))].kind \in {"header", "endline"},
         LogOf(Contents(ended), history),
         Len(data.cells) <= Len(ended.cells),
         Len(Contents(data)) <= Len(Contents(ended)),
         \A i \in 1 .. Len(Contents(data)) : Contents(ended)[i] = Contents(data)[i],
         FilesPaired => IndexedUpTo(Contents(index), Contents(ended), Len(Contents(ended))),
         NEW hour, hour = FromTimeT(time),
         index' = Put(index, EntryOf(hour, ended)),
         data' = Put(Put(ended, HourCell(hour)), ValueCell(OffsetIn(hour, time), NextValue)),
         info'.minHour \in Nat, info'.maxHour = hour, info'.startHour = ToTimeT(hour, 0),
         info'.maxOffset = OffsetIn(hour, time),
         history' = Append(history, [time |-> time, value |-> NextValue])
  PROVE  LifeInv'
<1> DEFINE b      == Contents(ended)
           e      == Contents(index)
           h      == history
           offset == OffsetIn(hour, time)
           cell   == ValueCell(offset, Len(h) + 1)
           middle == Put(ended, HourCell(hour))
<1> SUFFICES ASSUME NEW d, d = Append(Append(b, HourCell(hour)), cell),
                    NEW g, g = Append(h, [time |-> time, value |-> Len(h) + 1]),
                    NEW f, f = Append(e, IndexEntry(hour, Len(b)))
             PROVE  LifeInv'
  OBVIOUS
<1>0. /\ time \in Nat /\ HourSecs <= time
      /\ b \in Seq(DataCell) /\ Len(b) \in Nat /\ e \in Seq(IndexCell)
      /\ h \in Seq(ValueRecord) /\ Len(h) \in Nat /\ Growing(h) /\ LogOf(b, h)
      /\ index \in StreamType(IndexCell)
  BY LifeAssumption, LifeFacts, ContentsFacts DEF LifeInv, LogAt
<1>1. /\ hour \in Nat /\ offset \in Nat
      /\ d \in Seq(DataCell) /\ f \in Seq(IndexCell) /\ g \in Seq(ValueRecord)
      /\ Whole(d) /\ LogOf(d, g) /\ Growing(g) /\ Leads(f, d)
      /\ d[Len(d)] = cell /\ f[Len(f)] = IndexEntry(hour, Len(b))
      /\ \A i \in 1 .. Len(b) : d[i] = b[i]
      /\ IndexedUpTo(e, b, Len(b)) => IndexedUpTo(f, d, Len(d))
  <2>1. BlockFor(b, h, time)
    BY <1>0 DEF BlockFor
  <2>2. NewBlock(b, h, e, time, hour, d, g, f)
    BY DEF NewBlock
  <2>3. BlockAdded(b, h, e, time, hour, d, g, f)
    BY <1>0, <2>1, <2>2, BlockWritten
  <2> QED
    BY <2>3 DEF BlockAdded
<1>2. /\ HourCell(hour) \in DataCell /\ cell \in DataCell
      /\ IndexEntry(hour, Len(b)) \in IndexCell
  <2>1. Len(h) + 1 \in Nat
    BY <1>0
  <2> QED
    BY <1>0, <1>1, <2>1, CellFacts, CellsTyped
<1>3. NextValue = Len(h) + 1 /\ EntryOf(hour, ended) = IndexEntry(hour, Len(b))
  BY TellpAtEnd DEF NextValue, EntryOf
<1> HIDE DEF cell, offset
<1>4. /\ middle \in StreamType(DataCell) /\ Contents(middle) = Append(b, HourCell(hour))
      /\ FileExists(middle) /\ AtEnd(middle) /\ Len(ended.cells) <= Len(middle.cells)
  BY <1>2, PutFacts, PutOnDisk DEF FileExists
<1> HIDE DEF middle
<1>5. data' = Put(middle, cell)
  BY <1>3 DEF middle, cell, offset
<1>6. /\ data' \in StreamType(DataCell) /\ Contents(data') = d
      /\ FileExists(data') /\ AtEnd(data') /\ Len(middle.cells) <= Len(data'.cells)
  <2>1. /\ Put(middle, cell) \in StreamType(DataCell)
        /\ Contents(Put(middle, cell)) = Append(Contents(middle), cell)
        /\ Put(middle, cell).state = middle.state /\ AtEnd(Put(middle, cell))
        /\ Len(middle.cells) <= Len(Put(middle, cell).cells)
    BY <1>2, <1>4, PutFacts, PutOnDisk
  <2> QED
    BY <1>4, <1>5, <2>1 DEF FileExists
<1>7. /\ index' \in StreamType(IndexCell) /\ Contents(index') = f /\ FileExists(index')
  <2>1. index' = Put(index, IndexEntry(hour, Len(b))) /\ FileExists(index)
    BY <1>3 DEF LifeInv, OpenAt
  <2> DEFINE entry == IndexEntry(hour, Len(b))
  <2>2. entry \in IndexCell
    BY <1>2
  <2> HIDE DEF entry
  <2>3. /\ Put(index, entry) \in StreamType(IndexCell)
        /\ Contents(Put(index, entry)) = Append(Contents(index), entry)
        /\ Put(index, entry).state = index.state
    BY <1>0, <2>2, PutFacts
  <2> QED
    BY <2>1, <2>3 DEF FileExists, entry
<1>8. history' = g /\ Len(history') = Len(history) + 1
  <2>1. history' = g
    BY <1>3
  <2> QED
    BY <1>0, <2>1
<1>9. Len(data.cells) <= Len(data'.cells)
  <2>1. /\ Len(data.cells) \in Nat /\ Len(ended.cells) \in Nat /\ Len(middle.cells) \in Nat
        /\ Len(data'.cells) \in Nat
    BY <1>4, <1>6, LifeFacts, Fields
  <2>2. \A p, q, r, s \in Nat : p <= q /\ q <= r /\ r <= s => p <= s
    OBVIOUS
  <2> QED
    BY <1>4, <1>6, <2>1, <2>2
<1>10. ASSUME NEW i \in 1 .. Len(Contents(data))
       PROVE  Contents(data')[i] = Contents(data)[i]
  <2>1. i \in 1 .. Len(b)
    BY <1>0, LifeFacts
  <2> QED
    BY <1>1, <1>6, <2>1
<1>11. FilesPaired => Exact'
  BY <1>1, <1>6, <1>7 DEF Exact
<1>12. /\ info'.maxHour = Contents(index')[Len(Contents(index'))].hour
       /\ info'.startHour = ToTimeT(info'.maxHour, 0)
       /\ info'.maxOffset = Contents(data')[Len(Contents(data'))].offset
  <2>1. /\ f[Len(f)].hour = hour /\ d[Len(d)].offset = offset
    BY <1>1 DEF IndexEntry, cell, ValueCell
  <2>2. info'.maxOffset = offset
    BY DEF offset
  <2> QED
    BY <1>6, <1>7, <2>1, <2>2
<1> QED
  BY <1>1, <1>6, <1>7, <1>8, <1>9, <1>10, <1>11, <1>12, WrittenKeeps

(* A write in the hour of the last value.                                    *)
LEMMA SameHourKeeps ==
  ASSUME LifeInv, IsOpen, Unused, UNCHANGED <<removing, synced, dirty, failed>>,
         NEW time \in Dates, \A k \in 1 .. Len(history) : history[k].time < time,
         Whole(Contents(data)), Leads(Contents(index), Contents(data)),
         info.minHour \in Nat, info.maxHour = Contents(index)[Len(Contents(index))].hour,
         info.startHour = ToTimeT(info.maxHour, 0), info.startHour <= time,
         data' = Put(data, ValueCell(time - info.startHour, NextValue)), index' = index,
         info' = FilesInfo(info.startHour, info.minHour, info.maxHour, time - info.startHour),
         history' = Append(history, [time |-> time, value |-> NextValue])
  PROVE  LifeInv'
<1> DEFINE c      == Contents(data)
           e      == Contents(index)
           h      == history
           offset == time - info.startHour
           cell   == ValueCell(offset, Len(h) + 1)
<1> SUFFICES ASSUME NEW d, d = Append(c, cell),
                    NEW g, g = Append(h, [time |-> time, value |-> Len(h) + 1])
             PROVE  LifeInv'
  OBVIOUS
<1>0. /\ time \in Nat /\ c \in Seq(DataCell) /\ Len(c) \in Nat /\ e \in Seq(IndexCell)
      /\ h \in Seq(ValueRecord) /\ Len(h) \in Nat /\ Growing(h) /\ LogOf(c, h)
      /\ data \in StreamType(DataCell) /\ index \in StreamType(IndexCell)
      /\ FileExists(data) /\ FileExists(index) /\ AtEnd(data)
  BY LifeAssumption, LifeFacts DEF LifeInv, LogAt, OpenAt
<1>1. /\ offset \in Nat
      /\ d \in Seq(DataCell) /\ g \in Seq(ValueRecord)
      /\ Whole(d) /\ LogOf(d, g) /\ Growing(g) /\ Leads(e, d)
      /\ d[Len(d)] = cell
      /\ \A i \in 1 .. Len(c) : d[i] = c[i]
      /\ IndexedUpTo(e, c, Len(c)) => IndexedUpTo(e, d, Len(d))
  <2>1. HourFor(c, h, e, time, info.startHour)
    BY <1>0 DEF HourFor
  <2>2. NewRecord(c, h, time, info.startHour, d, g)
    BY DEF NewRecord
  <2>3. RecordAdded(c, h, e, time, info.startHour, d, g)
    BY <1>0, <2>1, <2>2, ValueWritten
  <2> QED
    BY <2>3 DEF RecordAdded
<1>2. cell \in DataCell /\ NextValue = Len(h) + 1
  <2>1. Len(h) + 1 \in Nat
    BY <1>0
  <2> QED
    BY <1>1, <2>1, CellFacts DEF NextValue
<1> HIDE DEF offset, cell
<1>3. data' = Put(data, cell)
  BY <1>2 DEF cell, offset
<1>4. /\ data' \in StreamType(DataCell) /\ Contents(data') = d
      /\ FileExists(data') /\ AtEnd(data') /\ Len(data.cells) <= Len(data'.cells)
  BY <1>0, <1>2, <1>3, PutFacts, PutOnDisk DEF FileExists
<1>5. history' = g /\ Len(history') = Len(history) + 1
  <2>1. history' = g
    BY <1>2
  <2> QED
    BY <1>0, <2>1
<1>6. FilesPaired => Exact'
  BY <1>1, <1>4 DEF LifeInv, PairedAt, Exact
<1>7. /\ info'.minHour = info.minHour
      /\ info'.maxHour = info.maxHour /\ info'.startHour = info.startHour
      /\ info'.maxOffset = offset /\ d[Len(d)].offset = offset
  BY <1>1 DEF FilesInfo, offset, cell, ValueCell
<1> QED
  BY <1>0, <1>1, <1>4, <1>5, <1>6, <1>7, WrittenKeeps

(* A refused write changes nothing but its answer.                           *)
LEMMA RefusalKeeps ==
  ASSUME LifeInv, IsOpen, Unused,
         UNCHANGED <<data, index, info, history, removing, synced, dirty, failed>>
  PROVE  LifeInv'
<1>1. /\ step' = step /\ pos' = pos /\ result' = result /\ backup' = backup
      /\ FilesPaired' = FilesPaired
  BY DEF Unused, FilesPaired, NoHalfCreated
<1>2. IsOpen'
  BY DEF IsOpen
<1>3. LifeTyped'
  BY <1>1 DEF LifeInv, LifeTyped, ToolTyped
<1>4. OpenAt'
  BY <1>1 DEF LifeInv, OpenAt, IsOpen, Ready
<1>5. ClosedAt' /\ CleanAt'
  BY <1>2 DEF ClosedAt, CleanAt
<1>6. LogAt' /\ SyncedAt'
  BY DEF LifeInv, LogAt, SyncedAt
<1>7. PairedAt'
  BY <1>1 DEF LifeInv, PairedAt, IsOpen, Exact
<1>8. EmptyAt'
  BY <1>1 DEF LifeInv, EmptyAt
<1> QED
  BY <1>3, <1>4, <1>5, <1>6, <1>7, <1>8 DEF LifeInv

(* What WriteInNewHour writes behind: the header, or the end mark of the     *)
(* block before.                                                             *)
LEMMA BlockEnded ==
  ASSUME LifeInv, IsOpen,
         NEW ended, ended = IF info.startHour > 0 THEN Put(data, EndLine) ELSE data
  PROVE  /\ ended \in StreamType(DataCell) /\ AtEnd(ended) /\ FileExists(ended)
         /\ WellFormed(Contents(ended))
         /\ Contents(ended)[Len(Contents(ended))].kind \in {"header", "endline"}
         /\ LogOf(Contents(ended), history)
         /\ Len(data.cells) <= Len(ended.cells)
         /\ Len(Contents(data)) <= Len(Contents(ended))
         /\ \A i \in 1 .. Len(Contents(data)) : Contents(ended)[i] = Contents(data)[i]
         /\ FilesPaired
              => IndexedUpTo(Contents(index), Contents(ended), Len(Contents(ended)))
<1> DEFINE c == Contents(data)
           e == Contents(index)
<1>0. /\ data \in StreamType(DataCell) /\ c \in Seq(DataCell) /\ e \in Seq(IndexCell)
      /\ Len(c) \in Nat /\ history \in Seq(ValueRecord) /\ LogOf(c, history)
      /\ FileExists(data) /\ AtEnd(data) /\ Len(data.cells) \in Nat
      /\ FilesPaired => IndexedUpTo(e, c, Len(c))
  BY LifeFacts, Fields DEF LifeInv, LogAt, OpenAt, PairedAt, Exact
<1>1. CASE info = NewInfo /\ c = <<HeaderCell("Float")>>
  <2>1. ended = data
    BY <1>1 DEF NewInfo, FilesInfo
  <2>2. /\ Len(c) = 1 /\ c[1] = HeaderCell("Float") /\ HeaderCell("Float").kind = "header"
        /\ c[1] \in [kind : {"header"}, type : ValueTypes]
    BY <1>1 DEF HeaderCell, ValueTypes
  <2>3. WellFormed(c)
    BY <2>2 DEF WellFormed
  <2>4. c[Len(c)].kind \in {"header", "endline"}
    BY <2>2
  <2> HIDE DEF c, e
  <2> QED
    BY <1>0, <2>1, <2>3, <2>4 DEF c, e
<1>2. CASE /\ Whole(c) /\ Leads(e, c)
           /\ info.maxHour = e[Len(e)].hour /\ info.startHour = ToTimeT(info.maxHour, 0)
  <2>1. info.startHour > 0
    <3>1. info.maxHour > 0 /\ info.maxHour \in Nat
      BY <1>0, <1>2, LastTime, LastHour
    <3>2. \A a, b \in Nat : a > 0 /\ b > 0 => a * b + 0 > 0
      OBVIOUS
    <3> QED
      BY <1>2, <3>1, <3>2, HourSecsAssumption DEF ToTimeT
  <2>2. ended = Put(data, EndLine)
    BY <2>1
  <2>3. EndLine \in Cell /\ EndLine \in DataCell /\ EndLine.kind = "endline"
    BY CellFacts
  <2>4. /\ ended \in StreamType(DataCell) /\ Contents(ended) = Append(c, EndLine)
        /\ AtEnd(ended) /\ FileExists(ended) /\ Len(data.cells) <= Len(ended.cells)
    <3>1. /\ Put(data, EndLine) \in StreamType(DataCell)
          /\ Contents(Put(data, EndLine)) = Append(Contents(data), EndLine)
          /\ Put(data, EndLine).state = data.state /\ AtEnd(Put(data, EndLine))
          /\ Len(data.cells) <= Len(Put(data, EndLine).cells)
      BY <1>0, <2>3, PutFacts, PutOnDisk
    <3> QED
      BY <1>0, <2>2, <3>1 DEF FileExists
  <2>5. WellFormed(c) /\ c[Len(c)].kind = "value" /\ Len(c) > 0
    BY <1>2 DEF Whole, EndsWhole, WellFormed, IsValue
  <2> SUFFICES ASSUME NEW b, b = Append(c, EndLine)
               PROVE  /\ WellFormed(b) /\ b[Len(b)].kind = "endline" /\ LogOf(b, history)
                      /\ Len(c) <= Len(b) /\ \A i \in 1 .. Len(c) : b[i] = c[i]
                      /\ FilesPaired => IndexedUpTo(e, b, Len(b))
    BY <2>4
  <2>6. Len(b) = Len(c) + 1 /\ b[Len(c) + 1] = EndLine /\ \A i \in 1 .. Len(c) : b[i] = c[i]
    BY <1>0, <2>3, OneMore
  <2>7. WellFormed(b)
    BY <1>0, <2>3, <2>5, WellAppend
  <2>8. LogOf(b, history)
    BY <1>0, <2>3, <2>5, MarkLogged
  <2>9. \A i \in Len(c) + 1 .. Len(b) : ~IsHour(b, i)
    <3> TAKE i \in Len(c) + 1 .. Len(b)
    <3>1. i = Len(c) + 1
      BY <1>0, <2>6
    <3> QED
      BY <2>3, <2>6, <3>1 DEF IsHour
  <2>10. FilesPaired => IndexedUpTo(e, b, Len(b))
    <3>1. Len(b) \in Nat /\ Len(c) <= Len(b)
      BY <1>0, <2>6
    <3> QED
      BY <1>0, <2>5, <2>6, <2>9, <3>1, StillIndexed
  <2> QED
    BY <1>0, <2>3, <2>6, <2>7, <2>8, <2>10
<1> QED
  BY <1>1, <1>2 DEF LifeInv, OpenAt, InfoAt

LEMMA WriteKeeps ==
  ASSUME LifeInv, NEW time \in Dates, WriteTimeValue(time)
  PROVE  LifeInv'
<1> DEFINE hour  == FromTimeT(time)
           ended == IF info.startHour > 0 THEN Put(data, EndLine) ELSE data
<1>0. IsOpen /\ Unused /\ UNCHANGED <<removing, synced, dirty, failed>>
  BY DEF WriteTimeValue
<1>1. CASE UNCHANGED <<data, index, info, history>>
  BY <1>0, <1>1, RefusalKeeps
<1>2. CASE /\ ~HasMoreRecent(time)
           /\ history' = Append(history, [time |-> time, value |-> NextValue])
           /\ WriteInNewHour(time)
  <2>1. \A k \in 1 .. Len(history) : history[k].time < time
    BY <1>0, <1>2, RefusedExactly
  <2>2. /\ index' = Put(index, EntryOf(hour, ended))
        /\ data' = Put(Put(ended, HourCell(hour)), ValueCell(OffsetIn(hour, time), NextValue))
        /\ info'.startHour = ToTimeT(hour, 0) /\ info'.maxHour = hour
        /\ info'.maxOffset = OffsetIn(hour, time)
        /\ info'.minHour = IF info.minHour = 0 THEN hour ELSE info.minHour
    BY <1>2 DEF WriteInNewHour, FilesInfo
  <2>3. /\ ended \in StreamType(DataCell) /\ AtEnd(ended) /\ FileExists(ended)
        /\ WellFormed(Contents(ended))
        /\ Contents(ended)[Len(Contents(ended))].kind \in {"header", "endline"}
        /\ LogOf(Contents(ended), history)
        /\ Len(data.cells) <= Len(ended.cells)
        /\ Len(Contents(data)) <= Len(Contents(ended))
        /\ \A i \in 1 .. Len(Contents(data)) : Contents(ended)[i] = Contents(data)[i]
        /\ FilesPaired
             => IndexedUpTo(Contents(index), Contents(ended), Len(Contents(ended)))
    BY <1>0, BlockEnded
  <2>4. info'.minHour \in Nat
    <3>1. info.minHour \in Nat
      BY <1>0 DEF LifeInv, OpenAt, InfoAt, NewInfo, FilesInfo
    <3>2. hour \in Nat
      BY HourOfTime, LifeAssumption
    <3> QED
      BY <2>2, <3>1, <3>2
  <2> HIDE DEF ended
  <2> QED
    BY <1>0, <1>2, <2>1, <2>2, <2>3, <2>4, NewHourKeeps
<1>3. CASE /\ ~HasMoreRecent(time)
           /\ history' = Append(history, [time |-> time, value |-> NextValue])
           /\ WriteInHour(time)
  <2> DEFINE c == Contents(data)
             e == Contents(index)
  <2>1. \A k \in 1 .. Len(history) : history[k].time < time
    BY <1>0, <1>3, RefusedExactly
  <2>2. time \in Nat /\ HourSecs <= time /\ HourSecs \in Nat /\ HourSecs > 0
    BY LifeAssumption, HourSecsAssumption
  <2>3. info # NewInfo
    <3> SUFFICES ASSUME info = NewInfo PROVE FALSE
      OBVIOUS
    <3>1. info.startHour = 0
      BY DEF NewInfo, FilesInfo
    <3> QED
      BY <1>3, <2>2, <3>1 DEF WriteInHour, StartsHour
  <2>4. /\ Whole(c) /\ Leads(e, c) /\ info.minHour \in Nat
        /\ info.maxHour = e[Len(e)].hour /\ info.startHour = ToTimeT(info.maxHour, 0)
        /\ info.maxOffset = c[Len(c)].offset
    BY <1>0, <2>3 DEF LifeInv, OpenAt, InfoAt
  <2>5. info.startHour <= time
    <3>1. /\ e[Len(e)].hour \in Nat /\ e[Len(e)].hour > 0 /\ c[Len(c)].offset \in Nat
      BY <2>4, LifeFacts, LastTime, LastHour DEF LifeInv, LogAt
    <3>2. info.maxHour \in Nat /\ info.maxHour > 0 /\ info.maxOffset \in Nat
      BY <2>4, <3>1
    <3>3. ~(time <= ToTimeT(info.maxHour, info.maxOffset))
      BY <1>3, <3>2 DEF HasMoreRecent
    <3>4. /\ ToTimeT(info.maxHour, 0) \in Nat /\ ToTimeT(info.maxHour, info.maxOffset) \in Nat
          /\ ToTimeT(info.maxHour, 0) <= ToTimeT(info.maxHour, info.maxOffset)
      BY <2>2, <3>2 DEF ToTimeT
    <3> QED
      BY <2>2, <2>4, <3>3, <3>4
  <2>6. /\ data' = Put(data, ValueCell(time - info.startHour, NextValue)) /\ index' = index
        /\ info' = FilesInfo(info.startHour, info.minHour, info.maxHour,
                             time - info.startHour)
    BY <1>3 DEF WriteInHour
  <2> QED
    BY <1>0, <1>3, <2>1, <2>4, <2>5, <2>6, SameHourKeeps
<1> QED
  BY <1>1, <1>2, <1>3 DEF WriteTimeValue

-----------------------------------------------------------------------------
(* The invariant.                                                            *)

LEMMA RemovingKept ==
  ASSUME RemovingAt, [Next]_vars
  PROVE  RemovingAt'
<1>1. CASE CreateFiles \/ OpenFilesOf \/ ReadLastValue \/ ReadMissingHour \/ CloseSensor
  BY <1>1 DEF CreateFiles, OpenFilesOf, ReadLastValue, ReadMissingHour, CloseSensor, Settled,
              Ready, RemovingAt
<1>2. CASE \E time \in Dates : WriteTimeValue(time)
  <2>1. ~removing /\ removing' = removing
    BY <1>2 DEF WriteTimeValue, Ready
  <2> QED
    BY <2>1 DEF RemovingAt
<1>3. CASE RemoveIndex
  <2>1. step' = "idle" /\ ~IsOpen'
    BY <1>3 DEF RemoveIndex, Unused, Settled, Ready, IsOpen
  <2>2. \/ index' = Absent
        \/ failed' = {"removeIndex"} /\ answer' # ""
    BY <1>3 DEF RemoveIndex, Fails, Done
  <2> QED
    BY <2>1, <2>2 DEF RemovingAt
<1>4. CASE RemoveData \/ Crash
  BY <1>4 DEF RemoveData, Crash, RemovingAt
<1>5. CASE RunTool \/ KillTool
  BY <1>5 DEF RunTool, KillTool, Killed, Ready, RemovingAt
<1>6. CASE UNCHANGED vars
  BY <1>6 DEF vars, toolVars, storeVars, RemovingAt, IsOpen
<1> QED
  BY <1>1, <1>2, <1>3, <1>4, <1>5, <1>6 DEF Next

(* A creation or a removal that has failed half-way is not forgotten.        *)
LEMMA UnpairedStays ==
  ASSUME [Next]_vars, FilesPaired'
  PROVE  FilesPaired
<1>1. CASE CreateFiles \/ RemoveIndex \/ RemoveData
  BY <1>1 DEF CreateFiles, RemoveIndex, RemoveData, Fails, FilesPaired, NoHalfCreated
<1>2. CASE OpenFilesOf \/ ReadLastValue \/ ReadMissingHour \/ CloseSensor \/ Crash
  BY <1>2
  DEF OpenFilesOf, ReadLastValue, ReadMissingHour, CloseSensor, Crash, FilesPaired, NoHalfCreated
<1>3. CASE RunTool \/ KillTool \/ \E time \in Dates : WriteTimeValue(time)
  BY <1>3 DEF RunTool, KillTool, WriteTimeValue, FilesPaired, NoHalfCreated
<1>4. CASE UNCHANGED vars
  BY <1>4 DEF vars, storeVars, FilesPaired, NoHalfCreated
<1> QED
  BY <1>1, <1>2, <1>3, <1>4 DEF Next

LEMMA LifeStep ==
  ASSUME RepairedLife, LifeInv, RemovingAt, FilesPaired', Next
  PROVE  LifeInv'
<1>1. Cuts \subseteq {"value"} /\ RepairFirst /\ ~IOErrors /\ BufCap > 1
  BY DEF RepairedLife
<1>2. CASE CreateFiles
  BY <1>1, <1>2, CreateFilesKeeps
<1>3. CASE OpenFilesOf
  BY <1>1, <1>3, OpenFilesOfKeeps
<1>4. ASSUME NEW time \in Dates, WriteTimeValue(time) PROVE LifeInv'
  BY <1>4, WriteKeeps
<1>5. CASE ReadLastValue \/ ReadMissingHour
  <2>1. FilesPaired
    BY UnpairedStays
  <2> QED
    BY <1>5, <2>1, ReadKeeps
<1>6. CASE CloseSensor
  BY <1>6, CloseSensorKeeps
<1>7. CASE RemoveIndex
  BY <1>7, RemoveIndexKeeps
<1>8. CASE RemoveData
  BY <1>8, RemoveDataKeeps
<1>9. CASE Crash
  BY <1>1, <1>9, CrashKeeps
<1>10. CASE RunTool
  BY <1>1, <1>10, RunToolKeeps
<1>11. CASE KillTool
  BY <1>11, KillToolKeeps
<1> QED
  BY <1>2, <1>3, <1>4, <1>5, <1>6, <1>7, <1>8, <1>9, <1>10, <1>11 DEF Next

LEMMA LifeStutters ==
  ASSUME LifeInv, UNCHANGED vars
  PROVE  LifeInv'
<1>1. /\ UNCHANGED <<data, index, backup, step, pos, result>>
      /\ UNCHANGED <<info, removing, answer, history, synced, dirty, failed>>
  BY DEF vars, toolVars, storeVars
<1>2. LifeTyped'
  BY <1>1 DEF LifeInv, LifeTyped, ToolTyped
<1>3. OpenAt'
  BY <1>1 DEF LifeInv, OpenAt, IsOpen, Ready
<1>4. ClosedAt'
  BY <1>1 DEF LifeInv, ClosedAt, IsOpen, FilesAt, BuiltAt
<1>5. LogAt' /\ SyncedAt'
  BY <1>1 DEF LifeInv, LogAt, SyncedAt
<1>6. PairedAt'
  BY <1>1 DEF LifeInv, PairedAt, IsOpen, Exact, FilesPaired, NoHalfCreated
<1>7. CleanAt'
  BY <1>1 DEF LifeInv, CleanAt, Ready, IsOpen, Exact, FilesPaired, NoHalfCreated
<1>8. EmptyAt'
  BY <1>1 DEF LifeInv, EmptyAt
<1> QED
  BY <1>2, <1>3, <1>4, <1>5, <1>6, <1>7, <1>8 DEF LifeInv

LEMMA LifeBegins ==
  ASSUME Init
  PROVE  CrashInv
<1>1. /\ Absent \in StreamType(DataCell) /\ Absent \in StreamType(IndexCell)
      /\ Contents(Absent) = <<>> /\ Closed(Absent) /\ ~FileExists(Absent)
  BY AbsentFacts, AbsentClosed
<1>2. /\ data = Absent /\ index = Absent /\ backup = Absent /\ step = "idle" /\ pos = 0
      /\ result = "" /\ ~IsOpen /\ ~removing /\ history = <<>> /\ synced = 0
  BY DEF Init, IsOpen
<1>3. LifeTyped
  BY <1>1, <1>2, EmptyLog DEF LifeTyped, ToolTyped, Steps, Results
<1>4. OpenAt
  BY <1>2 DEF OpenAt
<1>5. ClosedAt
  BY <1>1, <1>2, EmptyLog DEF ClosedAt, FilesAt, BuiltAt
<1>6. LogAt
  BY <1>1, <1>2, EmptyLog DEF LogAt
<1>7. SyncedAt
  <2>1. Len(<<>>) = 0 /\ 0 <= 0
    OBVIOUS
  <2>2. SyncedIn(0, Contents(data), Len(data.cells), <<>>)
    BY <2>1 DEF SyncedIn
  <2> QED
    BY <1>2, <2>2 DEF SyncedAt
<1>8. PairedAt /\ CleanAt /\ EmptyAt
  BY <1>1, <1>2, EmptyLog DEF PairedAt, CleanAt, EmptyAt
<1> QED
  BY <1>2, <1>3, <1>4, <1>5, <1>6, <1>7, <1>8 DEF CrashInv, RemovingAt, LifeInv

LEMMA CrashInductive ==
  ASSUME RepairedLife, CrashInv, [Next]_vars
  PROVE  CrashInv'
<1>1. RemovingAt'
  BY RemovingKept DEF CrashInv
<1>2. ASSUME FilesPaired' PROVE LifeInv'
  <2>1. LifeInv /\ RemovingAt
    BY <1>2, UnpairedStays DEF CrashInv
  <2> QED
    BY <1>2, <2>1, LifeStep, LifeStutters
<1> QED
  BY <1>1, <1>2 DEF CrashInv

LEMMA CrashInvariant ==
  ASSUME RepairedLife
  PROVE  Spec => []CrashInv
<1>1. Init => CrashInv
  BY LifeBegins
<1>2. CrashInv /\ [Next]_vars => CrashInv'
  BY CrashInductive
<1> QED
  BY <1>1, <1>2, PTL DEF Spec

-----------------------------------------------------------------------------
(* What follows from it.                                                     *)

LEMMA DataForm ==
  ASSUME LifeInv
  PROVE  Contents(data) = <<>> \/ WellFormed(Contents(data))
<1>1. CASE Contents(data) = <<HeaderCell("Float")>>
  <2> DEFINE c == Contents(data)
  <2>1. /\ Len(c) = 1 /\ c[1] = HeaderCell("Float")
        /\ c[1] \in [kind : {"header"}, type : ValueTypes]
    BY <1>1 DEF HeaderCell, ValueTypes
  <2> QED
    BY <2>1 DEF WellFormed
<1> QED
  BY <1>1 DEF LifeInv, OpenAt, InfoAt, ClosedAt, Whole

(* writeTimeValue: however often the process is killed behind a value and    *)
(* the file repaired and written on, for any dates, any sizes of the file    *)
(* and of its buffer, what the log decodes to is exactly what is left of     *)
(* what was accepted.  Proved of the lives in which the files are paired.    *)
THEOREM LogSurvivesKills ==
  ASSUME RepairedLife
  PROVE  Spec => [](FilesPaired => LogSurvives)
<1>1. CrashInv => (FilesPaired => LogSurvives)
  <2> SUFFICES ASSUME LifeInv
               PROVE  {Stamped(Contents(data), i) : i \in Readable(Contents(data))}
                        = ToSet(history)
    BY DEF CrashInv, LogSurvives
  <2> QED
    BY DataForm, LifeFacts, LogHasHistory DEF LifeInv, LogAt
<1> QED
  BY <1>1, CrashInvariant, PTL

(* openFiles and the writes behind it: the index of a sensor that is open    *)
(* names every hour of its data once, in order, at its place, however often  *)
(* it was rebuilt from what a kill had left.                                 *)
THEOREM IndexSurvivesKills ==
  ASSUME RepairedLife
  PROVE  Spec => []IndexSurvives
<1>1. CrashInv => IndexSurvives
  BY DEF CrashInv, LifeInv, PairedAt, Exact, FilesPaired, NoHalfCreated, IndexSurvives
<1> QED
  BY <1>1, CrashInvariant, PTL

(* openFiles takes a data file with the whole index of it.                   *)
LEMMA IndexTaken ==
  ASSUME LifeInv, Whole(Contents(data)), Leads(Contents(index), Contents(data)), Exact
  PROVE  OpenCodes = {"OK"}
<1> DEFINE c    == Contents(data)
           e    == Contents(index)
           last == e[Len(e)]
<1>1. /\ Len(c) \in Nat /\ Len(c) > 0 /\ c[1].kind = "header"
      /\ Len(e) \in Nat /\ Len(e) > 0 /\ e[1] = c[1]
  BY LifeFacts DEF Whole, WellFormed, IndexedUpTo, Exact
<1>2. HasHeader(data) /\ HasHeader(index)
  BY <1>1 DEF HasHeader, HasCell, CellAt
<1>3. LastCell(index) = last
  BY <1>1 DEF LastCell, CellAt
<1>4. /\ last.kind = "entry" /\ last.pos \in 1 .. Len(c) - 1
      /\ c[last.pos + 1] = HourCell(last.hour)
  BY DEF Leads, IsEntry
<1>5. VerifyLastIndex(last) = {"OK"}
  <2>1. last.pos \in 0 .. Len(c) - 1
    BY <1>1, <1>4
  <2> QED
    BY <1>4, <2>1 DEF VerifyLastIndex, HasCell, CellAt
<1> QED
  BY <1>2, <1>3, <1>4, <1>5 DEF OpenCodes

(* "repair it": openFiles does not refuse a sensor that the tool has         *)
(* repaired, whatever the kill left of its index.                            *)
THEOREM RepairSuffices ==
  ASSUME RepairedLife
  PROVE  Spec => []RepairedOpens
<1>1. CrashInv => RepairedOpens
  <2> SUFFICES ASSUME LifeInv, Ready, ~IsOpen, ~dirty, result = "TRUE", answer = "",
                      FileExists(data), FilesPaired
               PROVE  OpenCodes = {"OK"}
    BY DEF CrashInv, FilesPaired, NoHalfCreated, RepairedOpens
  <2>1. Whole(Contents(data))
    BY DEF LifeInv, EmptyAt, ClosedAt
  <2>2. Leads(Contents(index), Contents(data)) /\ Exact
    BY <2>1 DEF LifeInv, CleanAt
  <2> QED
    BY <2>1, <2>2, IndexTaken
<1> QED
  BY <1>1, CrashInvariant, PTL

(* LightTSDB.h:197: a dated write is accepted exactly when it is later than  *)
(* every value that is left, whatever kills and repairs came before.         *)
THEOREM MoreRecentAfterKills ==
  ASSUME RepairedLife
  PROVE  Spec => MoreRecentRule
<1> DEFINE Rule == \A time \in Dates :
                     FilesPaired /\ WriteTimeValue(time) =>
                       (answer' = "" <=> \A k \in 1 .. Len(history) : history[k].time < time)
<1>1. CrashInv => Rule
  <2> SUFFICES ASSUME CrashInv, NEW time \in Dates, FilesPaired, WriteTimeValue(time)
               PROVE  answer' = "" <=> \A k \in 1 .. Len(history) : history[k].time < time
    OBVIOUS
  <2>1. LifeInv /\ IsOpen
    BY DEF CrashInv, FilesPaired, NoHalfCreated, WriteTimeValue
  <2>2. answer' = "" <=> ~HasMoreRecent(time)
    BY DEF WriteTimeValue, Done
  <2> QED
    BY <2>1, <2>2, RefusedExactly
<1>2. CrashInv => [Rule]_vars
  BY <1>1
<1> QED
  BY <1>2, CrashInvariant, PTL DEF MoreRecentRule

(* Remove returns true only when both files are gone, whichever of the two   *)
(* deletions fails, however the process is killed and whatever the files     *)
(* hold: of the kills, repairs and buffers nothing is assumed here.          *)
THEOREM RemoveIsWhole == Spec => RemovedWhole
<1> DEFINE Rule == RemoveData /\ answer' = "" => ~FileExists(data') /\ ~FileExists(index')
<1>1. Init => RemovingAt
  BY DEF Init, RemovingAt
<1>2. RemovingAt /\ [Next]_vars => RemovingAt'
  BY RemovingKept
<1>3. RemovingAt => [Rule]_vars
  <2> SUFFICES ASSUME RemovingAt, RemoveData, answer' = "" PROVE Rule
    OBVIOUS
  <2>1. data' = Absent /\ index' = index /\ answer' = RemovedCode
    BY DEF RemoveData, Done
  <2>2. answer = ""
    BY <2>1 DEF RemovedCode
  <2>3. index = Absent
    BY <2>2 DEF RemovingAt, RemoveData
  <2> QED
    BY <2>1, <2>3, AbsentClosed
<1> QED
  BY <1>1, <1>2, <1>3, PTL DEF Spec, RemovedWhole

-----------------------------------------------------------------------------
(* The refinement: what the data file decodes to is the history.             *)

LEMMA DecodedNow ==
  ASSUME LifeInv
  PROVE  Decoded = history
<1>1. /\ Contents(data) \in Seq(DataCell) /\ history \in Seq(ValueRecord)
      /\ LogOf(Contents(data), history)
      /\ Contents(data) = <<>> \/ WellFormed(Contents(data))
  BY DataForm, LifeFacts DEF LifeInv, LogAt
<1> QED
  BY <1>1, LogDecodes DEF Decoded

LEMMA DecodedNext ==
  ASSUME LifeInv'
  PROVE  /\ Decoded' = history' /\ history' \in Seq(ValueRecord)
         /\ synced' \in Nat /\ synced' <= Len(history')
<1> DEFINE c == Contents(data')
<1>1. /\ data' \in StreamType(DataCell) /\ history' \in Seq(ValueRecord) /\ synced' \in Nat
      /\ LogOf(c, history') /\ SyncedIn(synced', c, Len(data'.cells), history')
  BY DEF LifeInv, LifeTyped, ToolTyped, LogAt, SyncedAt
<1>2. c \in Seq(DataCell)
  BY <1>1, ContentsFacts
<1>3. c = <<>> \/ Whole(c) \/ c = <<HeaderCell("Float")>>
  BY DEF LifeInv, OpenAt, InfoAt, ClosedAt
<1>4. c = <<>> \/ WellFormed(c)
  <2>1. CASE c = <<HeaderCell("Float")>>
    <3>1. /\ Len(c) = 1 /\ c[1] = HeaderCell("Float")
          /\ c[1] \in [kind : {"header"}, type : ValueTypes]
      BY <2>1 DEF HeaderCell, ValueTypes
    <3> QED
      BY <3>1 DEF WellFormed
  <2> QED
    BY <1>3, <2>1 DEF Whole
<1>5. Decode(c) = history'
  BY <1>1, <1>2, <1>4, LogDecodes
<1>6. synced' <= Len(history')
  BY <1>1 DEF SyncedIn
<1> QED
  BY <1>1, <1>5, <1>6 DEF Decoded

(* Each action is a step of DurableSeries on the history, or none.           *)
LEMMA SeriesGrows ==
  ASSUME NEW h \in Seq(ValueRecord), NEW time \in Nat, NEW n \in Nat,
         \A k \in 1 .. Len(h) : h[k].time < time,
         NEW g, g = Append(h, [time |-> time, value |-> n])
  PROVE  /\ Len(g) = Len(h) + 1 /\ SubSeq(g, 1, Len(h)) = h
         /\ \A k \in 1 .. Len(h) : h[k].time < g[Len(g)].time
<1> DEFINE record == [time |-> time, value |-> n]
<1>1. record \in ValueRecord /\ record.time = time
  BY DEF ValueRecord
<1> HIDE DEF record
<1>2. /\ g \in Seq(ValueRecord) /\ Len(g) = Len(h) + 1 /\ Len(h) \in Nat
      /\ g[Len(h) + 1] = record /\ \A i \in 1 .. Len(h) : g[i] = h[i]
  BY <1>1, OneMore DEF record
<1>3. SubSeq(g, 1, Len(h)) = h
  <2>1. /\ SubSeq(g, 1, Len(h)) \in Seq(ValueRecord) /\ Len(SubSeq(g, 1, Len(h))) = Len(h)
        /\ \A i \in 1 .. Len(h) : SubSeq(g, 1, Len(h))[i] = g[i]
    BY <1>2, Beginning
  <2> QED
    BY <1>2, <2>1, SameSequence
<1> QED
  BY <1>1, <1>2, <1>3

SeriesStep ==
  \/ /\ Len(history') = Len(history) + 1
     /\ SubSeq(history', 1, Len(history)) = history
     /\ \A k \in 1 .. Len(history) : history[k].time < history'[Len(history')].time
     /\ UNCHANGED synced
  \/ synced' = Len(history) /\ UNCHANGED history
  \/ /\ Len(history') \in synced .. Len(history)
     /\ history' = SubSeq(history, 1, Len(history'))
     /\ UNCHANGED synced
  \/ history' = <<>> /\ synced' = 0
  \/ UNCHANGED <<history, synced>>

LEMMA WriteGrows ==
  ASSUME LifeInv, NEW time \in Dates, WriteTimeValue(time)
  PROVE  SeriesStep
<1>1. CASE UNCHANGED history
  BY <1>1 DEF WriteTimeValue, SeriesStep
<1>2. CASE ~HasMoreRecent(time)
           /\ history' = Append(history, [time |-> time, value |-> NextValue])
  <2>1. IsOpen /\ UNCHANGED synced
    BY DEF WriteTimeValue
  <2>2. \A k \in 1 .. Len(history) : history[k].time < time
    BY <1>2, <2>1, RefusedExactly
  <2>3. /\ history \in Seq(ValueRecord) /\ time \in Nat /\ NextValue \in Nat
    <3>1. history \in Seq(ValueRecord) /\ Len(history) \in Nat /\ time \in Nat
      BY LifeFacts, LifeAssumption
    <3>2. Len(history) + 1 \in Nat
      BY <3>1
    <3> QED
      BY <3>1, <3>2 DEF NextValue
  <2>4. /\ Len(history') = Len(history) + 1 /\ SubSeq(history', 1, Len(history)) = history
        /\ \A k \in 1 .. Len(history) : history[k].time < history'[Len(history')].time
    BY <1>2, <2>2, <2>3, SeriesGrows
  <2> QED
    BY <2>1, <2>4 DEF SeriesStep
<1> QED
  BY <1>1, <1>2 DEF WriteTimeValue

LEMMA CrashLosesEnd ==
  ASSUME Cuts \subseteq {"value"}, LifeInv, LifeInv', Crash
  PROVE  SeriesStep
<1> DEFINE n == ValuesIn(data'.cells)
<1>1. /\ data' \in LostData(data) /\ history' = SubSeq(history, 1, n) /\ synced' = synced
      /\ IsOpen \/ step = "idle"
  BY DEF Crash
<1>2. IsOpen \/ Closed(data)
  BY <1>1 DEF LifeInv, ClosedAt, FilesAt, Crash
<1>3. history \in Seq(ValueRecord) /\ Len(history) \in Nat
  BY LifeFacts
<1>4. n \in 0 .. Len(history)
  <2>1. n = 0 \/ n \in 0 .. Len(history)
    BY <1>1, <1>2, LostLog
  <2> QED
    BY <1>3, <2>1
<1>5. Len(history') = n
  BY <1>1, <1>3, <1>4, Beginning
<1>6. synced' <= Len(history') /\ synced' \in Nat
  BY DecodedNext
<1>7. Len(history') \in synced .. Len(history)
  <2>1. synced \in Nat /\ synced <= n
    BY <1>1, <1>5, <1>6
  <2> HIDE DEF n
  <2>2. n \in synced .. Len(history)
    BY <1>3, <1>4, <2>1
  <2> QED
    BY <1>5, <2>2
<1> QED
  BY <1>1, <1>5, <1>7 DEF SeriesStep

LEMMA LifeRefines ==
  ASSUME RepairedLife, LifeInv, LifeInv', Next
  PROVE  SeriesStep
<1>1. CASE CreateFiles \/ OpenFilesOf \/ ReadMissingHour \/ RunTool \/ KillTool
  BY <1>1 DEF CreateFiles, OpenFilesOf, ReadMissingHour, RunTool, KillTool, SeriesStep
<1>2. CASE ReadLastValue \/ CloseSensor \/ RemoveIndex
  BY <1>2 DEF ReadLastValue, CloseSensor, RemoveIndex, SeriesStep
<1>3. CASE RemoveData
  BY <1>3 DEF RemoveData, SeriesStep
<1>4. CASE Crash
  BY <1>4, CrashLosesEnd DEF RepairedLife
<1>5. ASSUME NEW time \in Dates, WriteTimeValue(time) PROVE SeriesStep
  BY <1>5, WriteGrows
<1> QED
  BY <1>1, <1>2, <1>3, <1>4, <1>5 DEF Next

(* The data file implements DurableSeries: what it decodes to grows at its   *)
(* end only, kills take of it only what no close and no read has flushed,    *)
(* and creating, opening, rebuilding, every step and every kill of the tool  *)
(* and every refused write leave it alone.                                   *)
THEOREM SeriesIsDurable ==
  ASSUME RepairedLife
  PROVE  Spec => ImplementsDurableSeries
<1> DEFINE Rule == \/ UNCHANGED <<Contents(data), synced>>
                   \/ FilesPaired' => [Durable!Next]_<<Decoded, synced>>
<1>1. Init => Durable!Init
  <2> SUFFICES ASSUME Init PROVE Durable!Init
    OBVIOUS
  <2>1. history = <<>> /\ synced = 0 /\ failed = {}
    BY DEF Init
  <2>2. LifeInv
    BY <2>1, LifeBegins DEF CrashInv, FilesPaired, NoHalfCreated
  <2> QED
    BY <2>1, <2>2, DecodedNow DEF Durable!Init
<1>2. CrashInv /\ CrashInv' /\ [Next]_vars => [Rule]_vars
  <2> SUFFICES ASSUME CrashInv, CrashInv', Next, FilesPaired'
               PROVE  [Durable!Next]_<<Decoded, synced>>
    OBVIOUS
  <2>1. LifeInv /\ LifeInv'
    BY UnpairedStays DEF CrashInv
  <2>2. Decoded = history /\ Decoded' = history'
    BY <2>1, DecodedNow, DecodedNext
  <2>3. SeriesStep
    BY <2>1, LifeRefines
  <2> HIDE DEF Decoded
  <2> QED
    BY <2>2, <2>3 DEF SeriesStep, Durable!Next, Durable!Grow, Durable!MakeDurable,
                      Durable!LoseEnd, Durable!Forget
<1> QED
  BY <1>1, <1>2, CrashInvariant, PTL DEF Spec, ImplementsDurableSeries
=============================================================================
