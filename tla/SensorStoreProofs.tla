-------------------------- MODULE SensorStoreProofs --------------------------
(* The store, proved for every length of an hour, every buffer, every set of *)
(* value types and every bound.                                              *)
(*                                                                           *)
(* In three parts: the invariant of the files and of FilesInfo, for every    *)
(* kind of read; what the reads answer; and, as long as every read runs to   *)
(* the end of the log, that the files implement TimeSeries.                  *)
EXTENDS SensorStoreRefinement, StoreLemmas

-----------------------------------------------------------------------------
(* The inductive invariant.                                                  *)

WriteOps == {"WriteValue", "WriteOldValue", "WriteTimeValue"}

(* A data file begins with its header; with an entry in the index there is a *)
(* value at its end, right after another value or after its hour.            *)
LogShape(file, idx) ==
  LET c == Contents(file) IN
  /\ c = <<>> <=> file.state = "absent"
  /\ c # <<>> => c[1].kind = "header"
  /\ idx # <<>> => /\ Len(c) >= 3 /\ IsValue(c, Len(c))
                   /\ IsValue(c, Len(c) - 1) \/ IsHour(c, Len(c) - 1)

(* Hours grow along the index, one by one or by more, and are not in the     *)
(* future.                                                                   *)
IndexShape(idx, clock) ==
  /\ Ascending(idx)
  /\ idx # <<>> => /\ idx[1].hour # 0
                   /\ Len(idx) <= Last(idx).hour - idx[1].hour + 1
                   /\ ToTimeT(Last(idx).hour, 0) <= clock

(* FilesInfo of an open sensor repeats what the files say.                   *)
InfoAgrees(inf, idx) ==
  /\ inf.type \in ValueTypes
  /\ inf.indexSize = Len(idx)
  /\ idx = <<>> => inf.minHour = 0 /\ inf.maxHour = 0 /\ inf.startHour = 0
  /\ idx # <<>> => /\ inf.minHour = idx[1].hour
                   /\ inf.maxHour = Last(idx).hour
                   /\ inf.startHour = ToTimeT(Last(idx).hour, 0)

(* The time a call that is still to run writes at is one the clock showed.   *)
CallBounded(c, clock) ==
  /\ c.op = "WriteOldValue" => c.offset <= clock - HourSecs
  /\ c.op = "WriteTimeValue" => HourSecs <= c.time /\ c.time <= clock

(* Only inside its first write a sensor has files without an entry.          *)
Started(idx, file, inf, c) ==
  idx = <<>> => IF inf # NoInfo THEN c.op \in WriteOps ELSE file.state = "absent"

StoreInv ==
  /\ TypeOK
  /\ LogShape(data, index)
  /\ IndexShape(index, now)
  /\ info # NoInfo => InfoAgrees(info, index)
  /\ CallBounded(call, now)
  /\ Started(index, data, info, call)

-----------------------------------------------------------------------------
(* Cells, records and times.                                                 *)

LEMMA CellFields ==
  ASSUME NEW c \in Cell
  PROVE  /\ c.kind = "hour" => c.hour \in Nat
         /\ c.kind = "value" => c.offset \in Nat /\ c.value \in Nat
         /\ c.kind = "header" => c.type \in ValueTypes
<1>1. CASE c \in [kind : {"header"}, type : ValueTypes]
  BY <1>1
<1>2. CASE c \in [kind : {"hour"}, hour : Nat]
  BY <1>2
<1>3. CASE c \in [kind : {"value"}, offset : Nat, value : Nat]
  BY <1>3
<1>4. CASE c = EndLine
  BY <1>4 DEF EndLine
<1> QED
  BY <1>1, <1>2, <1>3, <1>4 DEF Cell

LEMMA CellsMade ==
  /\ EndLine \in Cell /\ EndLine.kind = "endline"
  /\ \A type \in ValueTypes : HeaderCell(type) \in Cell /\ HeaderCell(type).kind = "header"
  /\ \A hour \in Nat : HourCell(hour) \in Cell /\ HourCell(hour).kind = "hour"
  /\ \A off, v \in Nat : ValueCell(off, v) \in Cell /\ ValueCell(off, v).kind = "value"
<1>1. EndLine \in Cell /\ EndLine.kind = "endline"
  BY DEF EndLine, Cell
<1>2. ASSUME NEW type \in ValueTypes
      PROVE  HeaderCell(type) \in Cell /\ HeaderCell(type).kind = "header"
  BY DEF HeaderCell, Cell
<1>3. ASSUME NEW hour \in Nat
      PROVE  HourCell(hour) \in Cell /\ HourCell(hour).kind = "hour"
  BY DEF HourCell, Cell
<1>4. ASSUME NEW off \in Nat, NEW v \in Nat
      PROVE  ValueCell(off, v) \in Cell /\ ValueCell(off, v).kind = "value"
  BY DEF ValueCell, Cell
<1> QED
  BY <1>1, <1>2, <1>3, <1>4

LEMMA InfoFields ==
  ASSUME NEW type, NEW startHour, NEW minHour, NEW maxHour, NEW maxOffset, NEW indexSize
  PROVE  LET f == FilesInfo(type, startHour, minHour, maxHour, maxOffset, indexSize) IN
         /\ f.type = type /\ f.startHour = startHour /\ f.minHour = minHour
         /\ f.maxHour = maxHour /\ f.maxOffset = maxOffset /\ f.indexSize = indexSize
  BY DEF FilesInfo

LEMMA InfoTyped ==
  ASSUME NEW type \in ValueTypes, NEW startHour \in Nat, NEW minHour \in Nat,
         NEW maxHour \in Nat, NEW maxOffset \in Nat, NEW indexSize \in Nat
  PROVE  LET f == FilesInfo(type, startHour, minHour, maxHour, maxOffset, indexSize) IN
         f \in InfoType /\ f # NoInfo
<1> DEFINE f == FilesInfo(type, startHour, minHour, maxHour, maxOffset, indexSize)
<1>1. f \in InfoType
  BY DEF FilesInfo, InfoType, AllTypes
<1>2. f.type = type /\ NoInfo.type = "Undefined"
  BY DEF FilesInfo, NoInfo
<1>3. type # "Undefined"
  BY DEF ValueTypes
<1> QED
  BY <1>1, <1>2, <1>3

LEMMA AnswerTyped ==
  ASSUME NEW c \in CallType \union {[op |-> "Remove"]}, NEW ok \in BOOLEAN,
         NEW error \in Errors, NEW values \in SUBSET ValueType
  PROVE  Answer(c, ok, error, values) \in AnswerType
  BY Zenon DEF Answer, AnswerType

LEMMA IdleTyped == Idle \in CallType /\ Idle.op = "Idle" /\ NoAnswer \in AnswerType
<1>1. Idle \in CallType /\ Idle.op = "Idle"
  BY DEF Idle, CallType
<1>2. {} \in SUBSET ValueType /\ "" \in Errors /\ TRUE \in BOOLEAN
  BY DEF Errors
<1>3. Answer(Idle, TRUE, "", {}) \in AnswerType
  BY <1>1, <1>2, AnswerTyped
<1> QED
  BY <1>1, <1>3 DEF NoAnswer, Answer

-----------------------------------------------------------------------------
(* Loops over the cells.                                                     *)

LEMMA HourInForce ==
  ASSUME NEW c \in Seq(Cell), NEW i \in 1 .. Len(c), NEW h \in 1 .. i, IsHour(c, h)
  PROVE  HourAt(c, i) \in Nat
<1>1. Latest(c, i) # {}
  BY LatestExists
<1>2. \A j \in Latest(c, i) : c[j].hour \in Nat
  BY CellFields DEF IsHour, Latest
<1> QED
  BY <1>1, <1>2 DEF HourAt, Latest

LEMMA StampedTyped ==
  ASSUME NEW c \in Seq(Cell), NEW i \in 1 .. Len(c), NEW h \in 1 .. i, IsHour(c, h),
         IsValue(c, i)
  PROVE  Stamped(c, i) \in ValueType
<1>1. c[i].offset \in Nat /\ c[i].value \in Nat
  BY CellFields DEF IsValue
<1>2. TimeAt(c, i) \in Nat
  BY <1>1, HourInForce, TimeTyped DEF TimeAt
<1> QED
  BY <1>1, <1>2 DEF Stamped, ValueType

-----------------------------------------------------------------------------
(* What is appended keeps the shapes.                                        *)

LEMMA IndexGrows ==
  ASSUME NEW idx \in Seq(EntryType), NEW clock \in Nat, IndexShape(idx, clock),
         NEW hour \in Nat \ {0}, NEW pos \in Nat, ToTimeT(hour, 0) <= clock,
         idx # <<>> => Last(idx).hour < hour
  PROVE  /\ Append(idx, Entry(hour, pos)) \in Seq(EntryType)
         /\ IndexShape(Append(idx, Entry(hour, pos)), clock)
<1> DEFINE entry == Entry(hour, pos)
           n     == Len(idx)
           grown == Append(idx, entry)
<1>1. entry \in EntryType /\ entry.hour = hour
  BY DEF Entry, EntryType
<1>2. n \in Nat /\ (idx # <<>> <=> n # 0)
  OBVIOUS
<1>3. \A k \in 1 .. n : idx[k].hour \in Nat
  BY EntryFields
<1> HIDE DEF entry
<1>4. /\ grown \in Seq(EntryType) /\ Len(grown) = n + 1 /\ grown # <<>>
      /\ \A k \in 1 .. n : grown[k] = idx[k]
      /\ grown[n + 1] = entry
  BY <1>1, <1>2
<1>5. \A k \in 1 .. n : idx[k].hour < hour
  BY <1>2, <1>3 DEF IndexShape, Ascending, Last
<1> HIDE DEF grown
<1>6. Ascending(grown)
  <2> SUFFICES ASSUME NEW i \in 1 .. n + 1, NEW j \in 1 .. n + 1, i < j
               PROVE  grown[i].hour < grown[j].hour
    BY <1>4 DEF Ascending
  <2>1. CASE j = n + 1
    BY <1>1, <1>2, <1>4, <1>5, <2>1
  <2>2. CASE j # n + 1
    <3>1. i \in 1 .. n /\ j \in 1 .. n
      BY <1>2, <2>2
    <3>2. idx[i].hour < idx[j].hour
      BY <3>1 DEF IndexShape, Ascending
    <3> QED
      BY <1>4, <3>1, <3>2
  <2> QED
    BY <2>1, <2>2
<1>7. /\ grown[1].hour # 0 /\ Last(grown).hour = hour
      /\ Len(grown) <= hour - grown[1].hour + 1
  <2>1. CASE n = 0
    BY <1>1, <1>4, <2>1 DEF Last
  <2>2. CASE n # 0
    <3>1. 1 \in 1 .. n /\ n \in 1 .. n
      BY <1>2, <2>2
    <3>2. idx[1].hour # 0 /\ n <= idx[n].hour - idx[1].hour + 1
      BY <1>2, <2>2 DEF IndexShape, Last
    <3>3. idx[1].hour \in Nat /\ idx[n].hour \in Nat /\ idx[n].hour < hour
      BY <1>3, <1>5, <3>1
    <3>4. grown[1] = idx[1] /\ Last(grown) = entry
      BY <1>4, <3>1 DEF Last
    <3> QED
      BY <1>1, <1>2, <1>4, <3>2, <3>3, <3>4
  <2> QED
    BY <2>1, <2>2
<1>8. ToTimeT(Last(grown).hour, 0) <= clock
  BY <1>7
<1> QED
  BY <1>4, <1>6, <1>7, <1>8 DEF IndexShape, grown, entry

(* The two appends of a new hour, and the one inside an hour.                *)
LEMMA CellsGrow ==
  ASSUME NEW c \in Seq(Cell), c # <<>>, NEW a \in Cell, NEW b \in Cell
  PROVE  /\ Append(c, a) \in Seq(Cell) /\ Append(c, a) # <<>>
         /\ Len(Append(c, a)) = Len(c) + 1
         /\ Append(c, a)[1] = c[1]
         /\ Append(c, a)[Len(c) + 1] = a
         /\ Append(c, a)[Len(c)] = c[Len(c)]
         /\ Append(Append(c, a), b)[1] = c[1]
         /\ Len(Append(Append(c, a), b)) = Len(c) + 2
         /\ Append(Append(c, a), b)[Len(c) + 1] = a
         /\ Append(Append(c, a), b)[Len(c) + 2] = b
<1>1. Len(c) \in Nat \ {0}
  OBVIOUS
<1>2. /\ Append(c, a) \in Seq(Cell) /\ Append(c, a) # <<>>
      /\ Len(Append(c, a)) = Len(c) + 1
      /\ Append(c, a)[1] = c[1]
      /\ Append(c, a)[Len(c) + 1] = a
      /\ Append(c, a)[Len(c)] = c[Len(c)]
  BY <1>1
<1> DEFINE s == Append(c, a)
<1> HIDE DEF s
<1>3. s \in Seq(Cell) /\ Len(s) = Len(c) + 1
  BY <1>2 DEF s
<1>4. /\ Len(Append(s, b)) = Len(s) + 1
      /\ \A k \in 1 .. Len(s) : Append(s, b)[k] = s[k]
      /\ Append(s, b)[Len(s) + 1] = b
  BY <1>3
<1> QED
  BY <1>1, <1>2, <1>3, <1>4 DEF s

-----------------------------------------------------------------------------
(* The invariant, unfolded once.                                             *)

LEMMA InvFacts ==
  ASSUME StoreInv
  PROVE  /\ now \in Nat /\ HourSecs <= now /\ now <= MaxTime
         /\ data \in StreamType(Cell) /\ Contents(data) \in Seq(Cell)
         /\ index \in Seq(EntryType)
         /\ call \in CallType /\ history \in Seq(ValueType) /\ Len(history) \in Nat
         /\ info \in InfoType
         /\ info.startHour \in Nat /\ info.minHour \in Nat /\ info.maxHour \in Nat
         /\ info.maxOffset \in Nat /\ info.indexSize \in Nat
         /\ info # NoInfo => data.state = "present" /\ info.type \in ValueTypes
         /\ call # Idle => info # NoInfo
<1>1. TypeOK
  BY DEF StoreInv
<1>2. now \in Nat /\ HourSecs <= now /\ now <= MaxTime
  BY <1>1, HourSecsAssumption, BoundsAssumption DEF TypeOK, Times
<1>3. info \in InfoType
  BY <1>1 DEF TypeOK
<1>4. /\ info.startHour \in Nat /\ info.minHour \in Nat /\ info.maxHour \in Nat
      /\ info.maxOffset \in Nat /\ info.indexSize \in Nat
  BY <1>3 DEF InfoType
<1>5. data \in StreamType(Cell) /\ index \in Seq(EntryType) /\ call \in CallType
  BY <1>1 DEF TypeOK
<1>6. history \in Seq(ValueType) /\ Len(history) \in Nat
  BY <1>1 DEF TypeOK
<1>7. Contents(data) \in Seq(Cell)
  BY <1>5, ContentsFacts
<1>8. info # NoInfo => data.state = "present" /\ info.type \in ValueTypes
  BY <1>1 DEF StoreInv, TypeOK, IsOpen, FileExists, InfoAgrees
<1>9. call # Idle => info # NoInfo
  BY <1>1 DEF TypeOK, IsOpen
<1> QED
  BY <1>2, <1>3, <1>4, <1>5, <1>6, <1>7, <1>8, <1>9

(* An answer given, no call is left to run.                                  *)
LEMMA Returned ==
  ASSUME call \in CallType, NEW ok \in BOOLEAN, NEW error \in Errors,
         NEW values \in SUBSET ValueType, Return(ok, error, values)
  PROVE  /\ answer' \in AnswerType /\ call' \in CallType
         /\ call' = Idle /\ call'.op = "Idle"
  BY AnswerTyped, IdleTyped DEF Return

(* The history grows by what a write accepts.                                *)
LEMMA HistoryGrows ==
  ASSUME StoreInv, NEW time \in Nat, history' = Append(history, [time |-> time, value |-> NextValue])
  PROVE  history' \in Seq(ValueType)
<1>1. history \in Seq(ValueType) /\ NextValue \in Nat
  BY InvFacts DEF NextValue
<1>2. [time |-> time, value |-> NextValue] \in ValueType
  BY <1>1 DEF ValueType
<1> HIDE DEF NextValue
<1> QED
  BY <1>1, <1>2

(* Where a write puts its cells when it begins an hour.                      *)
LEMMA NewHourWritten ==
  ASSUME StoreInv, IsOpen, NEW time \in Nat, WriteInNewHour(time)
  PROVE  /\ data' \in StreamType(Cell) /\ data'.state = "present"
         /\ Tellp(BlockEnd(info.startHour)) \in Nat
         /\ LogShape(data', index')
         /\ Contents(BlockEnd(info.startHour)) \in
              {Contents(data), Append(Contents(data), EndLine)}
         /\ Contents(data') =
              Append(Append(Contents(BlockEnd(info.startHour)), HourCell(FromTimeT(time))),
                     ValueCell(OffsetIn(FromTimeT(time), time), NextValue))
<1> DEFINE hour  == FromTimeT(time)
           ended == BlockEnd(info.startHour)
           cellH == HourCell(hour)
           cellV == ValueCell(OffsetIn(hour, time), NextValue)
           c     == Contents(data)
           ce    == Contents(ended)
<1>1. /\ data \in StreamType(Cell) /\ data.state = "present"
      /\ c \in Seq(Cell) /\ c # <<>> /\ c[1].kind = "header"
  BY InvFacts DEF IsOpen, StoreInv, LogShape
<1>2. /\ cellH \in Cell /\ cellH.kind = "hour" /\ cellV \in Cell /\ cellV.kind = "value"
      /\ EndLine \in Cell
  <2>1. hour \in Nat /\ OffsetIn(hour, time) \in Nat
    BY HourOfTime
  <2>2. NextValue \in Nat
    BY InvFacts DEF NextValue
  <2> QED
    BY <2>1, <2>2, CellsMade
<1>3. /\ ended \in StreamType(Cell) /\ ended.state = "present"
      /\ ce \in Seq(Cell) /\ ce # <<>> /\ ce[1].kind = "header"
      /\ ce \in {c, Append(c, EndLine)}
  <2>1. CASE info.startHour > 0
    <3>1. ended = Put(data, EndLine)
      BY <2>1 DEF BlockEnd
    <3> HIDE DEF ended
    <3>2. /\ ended \in StreamType(Cell) /\ ended.state = "present"
          /\ ce = Append(c, EndLine)
      BY <1>1, <1>2, <3>1, PutFacts
    <3> HIDE DEF c, ce
    <3> QED
      BY <1>1, <1>2, <3>2, CellsGrow
  <2>2. CASE ~(info.startHour > 0)
    BY <1>1, <2>2 DEF BlockEnd
  <2> QED
    BY <2>1, <2>2
<1>4. /\ data' \in StreamType(Cell) /\ data'.state = "present"
      /\ Contents(data') = Append(Append(ce, cellH), cellV)
  <2> HIDE DEF ended, cellH, cellV
  <2> DEFINE mid == Put(ended, cellH)
  <2>1. /\ mid \in StreamType(Cell) /\ mid.state = "present"
        /\ Contents(mid) = Append(ce, cellH)
    BY <1>2, <1>3, PutFacts
  <2>2. data' = Put(mid, cellV)
    BY DEF WriteInNewHour, ended, cellH, cellV
  <2> HIDE DEF mid
  <2> QED
    BY <1>2, <2>1, <2>2, PutFacts
<1>5. Tellp(ended) \in Nat
  <2>1. ended.pos \in Nat /\ Len(ended.buf) \in Nat
    BY <1>3, Fields
  <2> QED
    BY <2>1 DEF Tellp
<1>6. LogShape(data', index')
  <2> HIDE DEF ce, cellH, cellV
  <2> DEFINE d == Contents(data')
  <2>1. /\ d[1] = ce[1] /\ Len(d) = Len(ce) + 2 /\ Len(ce) \in Nat \ {0}
        /\ d[Len(ce) + 1] = cellH /\ d[Len(ce) + 2] = cellV
    BY <1>2, <1>3, <1>4, CellsGrow
  <2> HIDE DEF d
  <2>2. Len(d) - 1 = Len(ce) + 1 /\ Len(d) >= 3 /\ d # <<>>
    BY <2>1
  <2> QED
    BY <1>2, <1>3, <1>4, <2>1, <2>2 DEF LogShape, IsValue, IsHour, d
<1> QED
  BY <1>3, <1>4, <1>5, <1>6

(* A write keeps the invariant: the time is one the clock showed, and not    *)
(* before the running hour.                                                  *)
LEMMA WriteKeeps ==
  ASSUME StoreInv, IsOpen, call.op \in WriteOps, UNCHANGED now,
         NEW time \in Nat, HourSecs <= time, time <= now, info.startHour <= time,
         WriteTimeValue(time)
  PROVE  StoreInv'
<1> DEFINE hour == FromTimeT(time)
<1>1. /\ now' = now /\ now \in Nat /\ HourSecs <= now /\ now <= MaxTime
      /\ index \in Seq(EntryType) /\ info \in InfoType
      /\ info.startHour \in Nat /\ info.minHour \in Nat /\ info.indexSize \in Nat
      /\ data \in StreamType(Cell) /\ data.state = "present" /\ info.type \in ValueTypes
      /\ Contents(data) \in Seq(Cell)
  BY InvFacts DEF IsOpen
<1>2. /\ answer' \in AnswerType /\ call' \in CallType /\ call' = Idle /\ call'.op = "Idle"
  <2>1. call \in CallType /\ "" \in Errors /\ {} \in SUBSET ValueType /\ TRUE \in BOOLEAN
    BY InvFacts DEF Errors
  <2> QED
    BY <2>1, Returned DEF WriteTimeValue
<1>3. history' \in Seq(ValueType)
  BY HistoryGrows DEF WriteTimeValue
<1>4. /\ IndexShape(index, now) /\ InfoAgrees(info, index) /\ LogShape(data, index)
  BY DEF StoreInv, IsOpen
<1>5. CASE WriteInNewHour(time)
  <2> DEFINE pos   == Tellp(BlockEnd(info.startHour))
             first == IF info.minHour = 0 THEN hour ELSE info.minHour
  <2>1. /\ hour \in Nat \ {0} /\ ToTimeT(hour, 0) \in Nat /\ ToTimeT(hour, 0) <= now
        /\ time < ToTimeT(hour, 0) + HourSecs /\ OffsetIn(hour, time) \in Nat
    BY <1>1, HourOfTime, HourSecsAssumption
  <2>2. /\ data' \in StreamType(Cell) /\ data'.state = "present"
        /\ pos \in Nat /\ LogShape(data', index')
    BY <1>5, NewHourWritten
  <2>3. index' = Append(index, Entry(hour, pos))
    BY <1>5 DEF WriteInNewHour
  <2>4. info' = FilesInfo(info.type, ToTimeT(hour, 0), first, hour, OffsetIn(hour, time),
                          info.indexSize + 1)
    BY <1>5 DEF WriteInNewHour
  <2> HIDE DEF hour, pos, first
  <2>5. index # <<>> => Last(index).hour < hour
    <3> SUFFICES ASSUME index # <<>> PROVE Last(index).hour < hour
      OBVIOUS
    <3>1. Last(index).hour \in Nat
      BY <1>1, EntryFields DEF Last
    <3>2. info.startHour = ToTimeT(Last(index).hour, 0)
      BY <1>4 DEF InfoAgrees
    <3>3. time - info.startHour > HourSecs - 1
      BY <1>5 DEF WriteInNewHour, StartsHour
    <3>4. info.startHour < ToTimeT(hour, 0)
      BY <1>1, <2>1, <3>3, HourSecsAssumption
    <3> QED
      BY <2>1, <3>1, <3>2, <3>4, HoursOrdered
  <2>6. index' \in Seq(EntryType) /\ IndexShape(index', now')
    BY <1>1, <1>4, <2>1, <2>2, <2>3, <2>5, IndexGrows
  <2>7. /\ index' # <<>> /\ Len(index') = Len(index) + 1 /\ Last(index').hour = hour
        /\ index # <<>> => index'[1] = index[1]
        /\ index = <<>> => index'[1].hour = hour
    <3> DEFINE entry == Entry(hour, pos)
    <3>1. entry.hour = hour
      BY DEF Entry
    <3>2. index' = Append(index, entry)
      BY <2>3
    <3> HIDE DEF entry
    <3> QED
      BY SMTT(30), <1>1, <3>1, <3>2 DEF Last
  <2>8. first = index'[1].hour /\ first \in Nat
    <3>1. CASE index = <<>>
      BY <1>4, <2>1, <2>7, <3>1 DEF InfoAgrees, first
    <3>2. CASE index # <<>>
      <4>1. info.minHour = index[1].hour /\ index[1].hour # 0
        BY <1>4, <3>2 DEF InfoAgrees, IndexShape
      <4> QED
        BY <1>1, <2>7, <3>2, <4>1 DEF first
    <3> QED
      BY <3>1, <3>2
  <2>9. info' \in InfoType /\ info' # NoInfo
    <3>1. info.indexSize + 1 \in Nat /\ hour \in Nat /\ info.type \in ValueTypes
      BY <1>1, <2>1
    <3> QED
      BY <2>1, <2>4, <2>8, <3>1, InfoTyped
  <2>10. InfoAgrees(info', index')
    <3>1. /\ info'.type = info.type /\ info'.startHour = ToTimeT(hour, 0)
          /\ info'.minHour = first /\ info'.maxHour = hour
          /\ info'.indexSize = info.indexSize + 1
      BY <2>4, InfoFields
    <3>2. info.indexSize = Len(index)
      BY <1>4 DEF InfoAgrees
    <3> QED
      BY <1>1, <2>7, <2>8, <3>1, <3>2 DEF InfoAgrees
  <2> QED
    BY <1>1, <1>2, <1>3, <2>2, <2>6, <2>7, <2>9, <2>10
    DEF StoreInv, TypeOK, Times, IsOpen, FileExists, CallBounded, Started
<1>6. CASE WriteInHour(time)
  <2> DEFINE offset == time - info.startHour
             cellV  == ValueCell(offset, NextValue)
             c      == Contents(data)
             d      == Contents(data')
  <2>1. index # <<>>
    <3>1. ~(time - info.startHour > HourSecs - 1)
      BY <1>6 DEF WriteInHour, StartsHour
    <3>2. index = <<>> => info.startHour = 0
      BY <1>4 DEF InfoAgrees
    <3> QED
      BY <3>1, <3>2, HourSecsAssumption
  <2>2. offset \in Nat
    BY <1>1
  <2>3. cellV \in Cell /\ cellV.kind = "value"
    <3>1. NextValue \in Nat
      BY InvFacts DEF NextValue
    <3> QED
      BY <2>2, <3>1, CellsMade
  <2>4. data' = Put(data, cellV) /\ index' = index
    BY <1>6 DEF WriteInHour
  <2>5. info' = FilesInfo(info.type, info.startHour, info.minHour, info.maxHour, offset,
                          info.indexSize)
    BY <1>6 DEF WriteInHour
  <2> HIDE DEF offset, cellV
  <2>6. data' \in StreamType(Cell) /\ data'.state = "present" /\ d = Append(c, cellV)
    BY <1>1, <2>3, <2>4, PutFacts
  <2>7. LogShape(data', index')
    <3>1. c \in Seq(Cell) /\ Len(c) >= 3 /\ c[Len(c)].kind = "value" /\ c[1].kind = "header"
      BY <1>1, <1>4, <2>1 DEF LogShape, IsValue
    <3> HIDE DEF c, d
    <3>2. /\ d # <<>> /\ Len(d) = Len(c) + 1 /\ d[1] = c[1] /\ d[Len(c) + 1] = cellV
          /\ d[Len(c)] = c[Len(c)]
      BY <2>3, <2>6, <3>1
    <3>3. Len(d) >= 3 /\ Len(d) - 1 = Len(c)
      BY <3>1, <3>2
    <3> QED
      BY <2>3, <2>6, <3>1, <3>2, <3>3 DEF LogShape, IsValue, IsHour, d
  <2>8. info' \in InfoType /\ info' # NoInfo
    BY <1>1, <2>2, <2>5, InvFacts, InfoTyped
  <2>9. InfoAgrees(info', index')
    <3>1. /\ info'.type = info.type /\ info'.startHour = info.startHour
          /\ info'.minHour = info.minHour /\ info'.maxHour = info.maxHour
          /\ info'.indexSize = info.indexSize
      BY <2>5, InfoFields
    <3> QED
      BY <1>4, <2>4, <3>1 DEF InfoAgrees
  <2> QED
    BY <1>1, <1>2, <1>3, <1>4, <2>1, <2>4, <2>6, <2>7, <2>8, <2>9
    DEF StoreInv, TypeOK, Times, IsOpen, FileExists, CallBounded, Started
<1> QED
  BY <1>5, <1>6 DEF WriteTimeValue

(* The three writes reach writeTimeValue with such a time.                   *)
LEMMA StartHourPast ==
  ASSUME StoreInv, IsOpen
  PROVE  /\ info.startHour <= now
         /\ info.maxHour = 0 => info.startHour = 0
         /\ info.startHour = ToTimeT(info.maxHour, 0)
<1>1. InfoAgrees(info, index) /\ IndexShape(index, now) /\ now \in Nat
  BY InvFacts DEF StoreInv, IsOpen
<1>2. CASE index = <<>>
  BY <1>1, <1>2, HourSecsAssumption DEF InfoAgrees, ToTimeT
<1>3. CASE index # <<>>
  <2>1. info.maxHour = Last(index).hour /\ info.startHour = ToTimeT(Last(index).hour, 0)
    BY <1>1, <1>3 DEF InfoAgrees
  <2>2. ToTimeT(Last(index).hour, 0) <= now
    BY <1>1, <1>3 DEF IndexShape
  <2>3. info.maxHour = 0 => info.startHour = 0
    BY <2>1, HourSecsAssumption DEF ToTimeT
  <2> QED
    BY <2>1, <2>2, <2>3
<1> QED
  BY <1>2, <1>3

(* A write that the rule lets through is not before the running hour.        *)
LEMMA PastTheRule ==
  ASSUME StoreInv, IsOpen, NEW time \in Nat, ~HasMoreRecent(time)
  PROVE  info.startHour <= time
<1>1. /\ info.startHour \in Nat /\ info.maxHour \in Nat /\ info.maxOffset \in Nat
      /\ info.maxHour = 0 => info.startHour = 0
      /\ info.startHour = ToTimeT(info.maxHour, 0)
  BY InvFacts, StartHourPast
<1>2. info.maxHour = 0 \/ time > info.startHour + info.maxOffset
  BY <1>1, HourSecsAssumption DEF HasMoreRecent, ToTimeT
<1> QED
  BY <1>1, <1>2

RefusedByRule(time) ==
  /\ HasMoreRecent(time)
  /\ Return(FALSE, "WRITE_MRV", {})
  /\ UNCHANGED <<data, index, info, history>>

LEMMA RefusalKeeps ==
  ASSUME StoreInv, IsOpen, UNCHANGED now, NEW time \in Nat, RefusedByRule(time)
  PROVE  StoreInv'
<1>1. /\ Return(FALSE, "WRITE_MRV", {}) /\ UNCHANGED <<now, data, index, info, history>>
  BY DEF RefusedByRule
<1>2. /\ call \in CallType /\ "WRITE_MRV" \in Errors /\ FALSE \in BOOLEAN
      /\ {} \in SUBSET ValueType
  BY InvFacts DEF Errors
<1>3. /\ answer' \in AnswerType /\ call' \in CallType /\ call' = Idle /\ call'.op = "Idle"
  BY <1>1, <1>2, Returned
<1>4. index # <<>>
  <2>1. info.maxHour > 0 /\ info # NoInfo
    BY DEF RefusedByRule, HasMoreRecent, IsOpen
  <2> QED
    BY <2>1 DEF StoreInv, InfoAgrees
<1> QED
  BY <1>1, <1>3, <1>4 DEF StoreInv, TypeOK, IsOpen, FileExists, CallBounded, Started

(* The time a write in progress is for.                                      *)
TimeOfWrite == IF call.op = "WriteValue" THEN now ELSE CallTime

(* A write at the clock is always let through, a dated one by the rule.      *)
LetThrough(time) == call.op = "WriteValue" \/ ~HasMoreRecent(time)

(* What the three writes come to.                                            *)
LEMMA WriteReached ==
  ASSUME StoreInv, WriteNow \/ WriteOld \/ WriteTime
  PROVE  /\ IsOpen /\ call.op \in WriteOps /\ UNCHANGED now
         /\ TimeOfWrite \in Nat /\ HourSecs <= TimeOfWrite /\ TimeOfWrite <= now
         /\ \/ call.op # "WriteValue" /\ RefusedByRule(TimeOfWrite)
            \/ /\ LetThrough(TimeOfWrite)
               /\ info.startHour <= TimeOfWrite
               /\ WriteTimeValue(TimeOfWrite)
<1>1. call.op \in WriteOps /\ UNCHANGED now
  BY DEF WriteNow, WriteOld, WriteTime, WriteOps
<1>2. IsOpen
  BY <1>1, InvFacts, IdleTyped DEF WriteOps, IsOpen
<1>3. now \in Nat /\ HourSecs <= now /\ CallBounded(call, now) /\ call \in CallType
  BY InvFacts DEF StoreInv
<1>4. CASE WriteNow
  BY <1>1, <1>2, <1>3, <1>4, StartHourPast DEF WriteNow, TimeOfWrite, LetThrough
<1>5. ASSUME NEW time \in Nat, WriteDated(time)
      PROVE  \/ RefusedByRule(time)
             \/ LetThrough(time) /\ info.startHour <= time /\ WriteTimeValue(time)
  BY <1>2, <1>5, PastTheRule DEF WriteDated, RefusedByRule, LetThrough
<1>6. CASE WriteOld
  <2>1. call.op = "WriteOldValue" /\ call.offset \in Nat
    BY <1>3, <1>6 DEF WriteOld, CallType
  <2>2. now - call.offset \in Nat /\ HourSecs <= now - call.offset /\ now - call.offset <= now
    BY <1>3, <2>1, HourSecsAssumption DEF CallBounded
  <2>3. WriteDated(now - call.offset)
    BY <1>6 DEF WriteOld
  <2>4. TimeOfWrite = now - call.offset /\ call.op # "WriteValue"
    BY <2>1 DEF TimeOfWrite, CallTime
  <2> QED
    BY <1>1, <1>2, <1>5, <2>2, <2>3, <2>4
<1>7. CASE WriteTime
  <2>1. call.op = "WriteTimeValue" /\ call.time \in Nat
    BY <1>3, <1>7 DEF WriteTime, CallType
  <2>2. HourSecs <= call.time /\ call.time <= now
    BY <1>3, <2>1 DEF CallBounded
  <2>3. WriteDated(call.time)
    BY <1>7 DEF WriteTime
  <2>4. TimeOfWrite = call.time /\ call.op # "WriteValue"
    BY <2>1 DEF TimeOfWrite, CallTime
  <2> QED
    BY <1>1, <1>2, <1>5, <2>1, <2>2, <2>3, <2>4
<1> QED
  BY <1>4, <1>6, <1>7

LEMMA WritesKeep ==
  ASSUME StoreInv, WriteNow \/ WriteOld \/ WriteTime
  PROVE  StoreInv'
<1>1. /\ IsOpen /\ call.op \in WriteOps /\ UNCHANGED now
      /\ TimeOfWrite \in Nat /\ HourSecs <= TimeOfWrite /\ TimeOfWrite <= now
      /\ \/ RefusedByRule(TimeOfWrite)
         \/ info.startHour <= TimeOfWrite /\ WriteTimeValue(TimeOfWrite)
  BY WriteReached
<1> QED
  BY <1>1, RefusalKeeps, WriteKeeps

-----------------------------------------------------------------------------
(* Reads.                                                                    *)

ReadOps == {"ReadHour", "ReadRange", "ReadLastValue", "GetSensorInfo"}

LEMMA ReadsOpen ==
  ASSUME StoreInv, call.op \in ReadOps
  PROVE  IsOpen /\ index # <<>>
<1>1. info # NoInfo
  BY InvFacts, IdleTyped DEF ReadOps
<1>2. index # <<>>
  BY <1>1 DEF StoreInv, Started, ReadOps, WriteOps
<1> QED
  BY <1>1, <1>2 DEF IsOpen

(* A read only moves the stream and answers.                                 *)
LEMMA ReadKeeps ==
  ASSUME StoreInv, call.op \in ReadOps, NEW ok \in BOOLEAN, NEW values \in SUBSET ValueType,
         Return(ok, "", values), UNCHANGED <<now, index, info, history>>,
         data' = data \/ \E p \in Nat : data' = SeekTo(data, p)
  PROVE  StoreInv'
<1>1. IsOpen /\ index # <<>> /\ call \in CallType /\ "" \in Errors
  BY InvFacts, ReadsOpen DEF Errors
<1>2. /\ answer' \in AnswerType /\ call' \in CallType /\ call' = Idle /\ call'.op = "Idle"
  BY <1>1, Returned
<1>3. /\ data' \in StreamType(Cell) /\ Contents(data') = Contents(data)
      /\ data'.state = data.state
  BY InvFacts, SeekFacts
<1>4. LogShape(data', index')
  BY <1>3 DEF StoreInv, LogShape
<1> QED
  BY <1>1, <1>2, <1>3, <1>4
  DEF StoreInv, TypeOK, IsOpen, FileExists, CallBounded, Started

(* Positions of the index and of the loops.                                  *)
LEMMA FoundInFile ==
  ASSUME StoreInv, IsOpen, index # <<>>, NEW hour \in Nat
  PROVE  FindHour(hour) \in Nat
<1>1. /\ index \in Seq(EntryType) /\ InfoAgrees(info, index) /\ IndexShape(index, now)
  BY InvFacts DEF StoreInv, IsOpen
<1>2. Len(index) \in Nat \ {0}
  BY <1>1
<1>3. 1 \in 1 .. Len(index) /\ Len(index) \in 1 .. Len(index)
  BY <1>2
<1>4. index[1].hour \in Nat /\ Last(index).hour \in Nat
  BY <1>1, <1>3, EntryFields DEF Last
<1>5. Len(index) <= Last(index).hour - index[1].hour + 1
  BY <1>1 DEF IndexShape
<1>6. FindHour(hour) = FindIndex(index, Len(index), index[1].hour, Last(index).hour, hour)
  BY <1>1 DEF FindHour, InfoAgrees
<1>7. CASE FindHour(hour) = NotFound
  BY <1>7 DEF NotFound
<1>8. CASE FindHour(hour) # NotFound
  <2>1. \E k \in 1 .. Len(index) : index[k].pos = FindHour(hour)
    BY SMTT(30), <1>1, <1>2, <1>4, <1>5, <1>6, <1>8, FindIndexSound
  <2> QED
    BY <1>1, <2>1, EntryFields
<1> QED
  BY <1>7, <1>8

LEMMA LeftInFile ==
  ASSUME StoreInv, NEW stop \in Nat, LeaveAt(stop)
  PROVE  \E p \in Nat : data' = SeekTo(data, p)
<1>1. Len(Contents(data)) \in Nat
  BY InvFacts
<1> QED
  BY <1>1 DEF LeaveAt

(* What a loop collects behind the header of an hour are times and values.   *)
LEMMA CollectedTyped ==
  ASSUME StoreInv, NEW pos \in Nat, NEW hour \in Nat, LeadsTo(pos, hour),
         NEW stop \in 1 .. Len(Contents(data)) + 1
  PROVE  {Stamped(Contents(data), i) : i \in Within(Contents(data), pos + 1, stop)}
           \in SUBSET ValueType
<1> DEFINE c == Contents(data)
<1>1. c \in Seq(Cell) /\ Len(c) \in Nat
  BY InvFacts
<1>2. pos + 1 \in 1 .. Len(c) /\ c[pos + 1] = HourCell(hour)
  BY <1>1 DEF LeadsTo, HasCell, CellAt
<1>3. IsHour(c, pos + 1)
  BY <1>2, CellsMade DEF IsHour
<1> HIDE DEF c
<1>4. ASSUME NEW i \in Within(c, pos + 1, stop) PROVE Stamped(c, i) \in ValueType
  <2>1. IsValue(c, i) /\ i \in 1 .. Len(c) /\ pos + 1 \in 1 .. i
    BY <1>1, <1>2 DEF Within, c
  <2> QED
    BY <1>1, <1>3, <2>1, StampedTyped
<1> QED
  BY <1>4 DEF c

LEMMA ReadsKeep ==
  ASSUME StoreInv, ReadHour \/ ReadRange \/ ReadLastValue \/ GetSensorInfo
  PROVE  StoreInv'
<1> DEFINE c == Contents(data)
<1>1. call.op \in ReadOps /\ UNCHANGED <<now, index, info, history>>
  BY DEF ReadHour, ReadRange, ReadLastValue, GetSensorInfo, ReadOps
<1>2. /\ IsOpen /\ index # <<>> /\ call \in CallType
      /\ {} \in SUBSET ValueType /\ TRUE \in BOOLEAN /\ FALSE \in BOOLEAN
  BY <1>1, InvFacts, ReadsOpen
<1>3. c \in Seq(Cell) /\ Len(c) \in Nat
  BY InvFacts
<1>4. ASSUME NEW pos \in Nat, ReadMiss \/ ReadMismatch(pos) PROVE StoreInv'
  <2>1. CASE ReadMiss
    BY <1>1, <1>2, <2>1, ReadKeeps DEF ReadMiss
  <2>2. CASE ReadMismatch(pos)
    <3>1. LeaveAt(pos + 1) /\ Return(FALSE, "", {})
      BY <2>2 DEF ReadMismatch
    <3>2. pos + 1 \in Nat
      OBVIOUS
    <3> QED
      BY <1>1, <1>2, <3>1, <3>2, LeftInFile, ReadKeeps
  <2> QED
    BY <1>4, <2>1, <2>2
<1>5. CASE ReadHour
  <2> DEFINE pos    == FindHour(call.hour)
             stop   == HourStop(c, pos + 1)
             values == {Stamped(c, i) : i \in Within(c, pos + 1, stop)}
  <2>1. call.hour \in Nat /\ pos \in Nat
    <3>1. call.hour \in Nat
      BY <1>2, <1>5 DEF ReadHour, CallType
    <3> QED
      BY <1>2, <3>1, FoundInFile
  <2>2. CASE ReadMiss \/ ReadMismatch(pos)
    BY <1>4, <2>1, <2>2
  <2>3. CASE LeadsTo(pos, call.hour) /\ Return(TRUE, "", values) /\ LeaveAt(stop)
    <3>1. stop \in 1 .. Len(c) + 1
      <4> DEFINE stops == {i \in pos + 1 + 1 .. Len(c) : IsEnd(c, i)}
      <4>1. stops \in SUBSET (1 .. Len(c))
        BY <1>3, <2>1
      <4> HIDE DEF stops
      <4>2. FirstOf(c, stops) \in 1 .. Len(c) + 1
        BY <1>3, <4>1, FirstOfInFile
      <4> QED
        BY <4>2 DEF HourStop, stops
    <3>2. values \in SUBSET ValueType
      BY <2>1, <2>3, <3>1, CollectedTyped
    <3>3. stop \in Nat
      BY <1>3, <3>1
    <3> HIDE DEF values, stop
    <3> QED
      BY <1>1, <1>2, <2>3, <3>2, <3>3, LeftInFile, ReadKeeps
  <2> QED
    BY <1>5, <2>2, <2>3 DEF ReadHour
<1>6. CASE ReadRange
  <2> DEFINE hour   == FromTimeT(call.begin)
             pos    == FindHour(hour)
             stop   == RangeStop(c, pos + 1, call.end)
             passed == {Stamped(c, i) : i \in Within(c, pos + 1, stop)}
             values == {v \in passed : v.time >= call.begin}
  <2>1. hour \in Nat /\ pos \in Nat
    <3>1. call.begin \in Nat
      BY <1>2, <1>6 DEF ReadRange, CallType
    <3>2. hour \in Nat
      BY <3>1, HourOfTime
    <3> QED
      BY <1>2, <3>2, FoundInFile
  <2>2. CASE ReadMiss \/ ReadMismatch(pos)
    BY <1>4, <2>1, <2>2
  <2>3. CASE LeadsTo(pos, hour) /\ Return(TRUE, "", values) /\ LeaveAt(stop)
    <3>1. stop \in 1 .. Len(c) + 1
      <4> DEFINE stops == {i \in Within(c, pos + 1, Len(c) + 1) : TimeAt(c, i) > call.end}
      <4>1. stops \in SUBSET (1 .. Len(c))
        BY <1>3, <2>1 DEF Within
      <4> HIDE DEF stops
      <4>2. FirstOf(c, stops) \in 1 .. Len(c) + 1
        BY <1>3, <4>1, FirstOfInFile
      <4> QED
        BY <4>2 DEF RangeStop, stops
    <3>2. passed \in SUBSET ValueType
      <4> HIDE DEF hour, pos, stop
      <4> QED
        BY <2>1, <2>3, <3>1, CollectedTyped
    <3>3. stop \in Nat
      BY <1>3, <3>1
    <3>4. values \in SUBSET ValueType
      BY <3>2
    <3> HIDE DEF values, stop
    <3> QED
      BY <1>1, <1>2, <2>3, <3>3, <3>4, LeftInFile, ReadKeeps
  <2> QED
    BY <1>6, <2>2, <2>3 DEF ReadRange
<1>7. CASE ReadLastValue
  <2> DEFINE pos   == FindHour(info.maxHour)
             value == [time  |-> ToTimeT(info.maxHour, c[Len(c)].offset),
                       value |-> c[Len(c)].value]
  <2>1. info.maxHour \in Nat /\ pos \in Nat
    BY <1>2, InvFacts, FoundInFile
  <2>2. CASE ReadMiss \/ ReadMismatch(pos)
    BY <1>4, <2>1, <2>2
  <2>3. CASE Return(TRUE, "", {value}) /\ data' = SeekEnd(data)
    <3>1. c[Len(c)].kind = "value" /\ Len(c) \in 1 .. Len(c)
      BY <1>2, <1>3 DEF StoreInv, LogShape, IsValue
    <3>2. c[Len(c)].offset \in Nat /\ c[Len(c)].value \in Nat
      BY <1>3, <3>1, CellFields
    <3>3. ToTimeT(info.maxHour, c[Len(c)].offset) \in Nat
      BY <2>1, <3>2, TimeTyped
    <3>4. {value} \in SUBSET ValueType
      BY <3>2, <3>3 DEF ValueType
    <3>5. \E p \in Nat : data' = SeekTo(data, p)
      BY <1>3, <2>3 DEF SeekEnd
    <3> HIDE DEF value
    <3> QED
      BY <1>1, <1>2, <2>3, <3>4, <3>5, ReadKeeps
  <2> QED
    BY <1>7, <2>2, <2>3 DEF ReadLastValue
<1>8. CASE GetSensorInfo
  <2> DEFINE values == {[time |-> ToTimeT(info.minHour, 0), value |-> 0],
                        [time |-> ToTimeT(info.maxHour, 0), value |-> 0]}
  <2>1. ToTimeT(info.minHour, 0) \in Nat /\ ToTimeT(info.maxHour, 0) \in Nat
    BY InvFacts, TimeTyped
  <2>2. values \in SUBSET ValueType
    BY <2>1 DEF ValueType
  <2>3. Return(TRUE, "", values) /\ data' = data
    BY <1>8 DEF GetSensorInfo
  <2> HIDE DEF values
  <2> QED
    BY <1>1, <1>2, <2>2, <2>3, ReadKeeps
<1> QED
  BY <1>5, <1>6, <1>7, <1>8

-----------------------------------------------------------------------------
(* getFilesInfo, Close, Remove and the clock.                                *)

LEMMA CallsTyped ==
  ASSUME StoreInv, NEW c \in Calls
  PROVE  /\ c \in CallType /\ CallBounded(c, now)
         /\ TypeOf(c) = "Undefined" \/ (c.op \in WriteOps /\ TypeOf(c) \in ValueTypes)
<1>1. now \in Nat /\ HourSecs \in Nat /\ MaxTime \in Nat /\ HourSecs <= now
  BY InvFacts, HourSecsAssumption, BoundsAssumption
<1>2. CASE c \in [op : {"WriteValue"}, type : Types]
  BY <1>2, TypesAssumption DEF CallType, CallBounded, TypeOf, WriteOps
<1>3. CASE c \in [op : {"WriteOldValue"}, type : Types, offset : 0 .. now - HourSecs]
  BY <1>1, <1>3, TypesAssumption DEF CallType, CallBounded, TypeOf, WriteOps
<1>4. CASE c \in [op : {"WriteTimeValue"}, type : Types, time : HourSecs .. now]
  BY <1>1, <1>4, TypesAssumption DEF CallType, CallBounded, TypeOf, WriteOps
<1>5. CASE c \in [op : {"ReadHour"}, hour : {h \in Hours : HistoryReads \/ h >= FromTimeT(now)}]
  <2>1. Hours \in SUBSET Nat
    BY <1>1, HourOfTime DEF Hours
  <2>2. c.op = "ReadHour" /\ c \in [op : {"ReadHour"}, hour : Nat]
    BY <1>5, <2>1
  <2> QED
    BY <2>2 DEF CallType, CallBounded, TypeOf
<1>6. CASE c \in [op : {"ReadRange"}, begin : Times,
                  end : {t \in Times : HistoryReads \/ t >= now}]
  <2>1. Times \in SUBSET Nat
    BY <1>1 DEF Times
  <2>2. c.op = "ReadRange" /\ c \in [op : {"ReadRange"}, begin : Nat, end : Nat]
    BY <1>6, <2>1
  <2> QED
    BY <2>2 DEF CallType, CallBounded, TypeOf
<1>7. CASE c \in {[op |-> "ReadLastValue"], [op |-> "GetSensorInfo"]}
  BY <1>7 DEF CallType, CallBounded, TypeOf
<1> QED
  BY <1>2, <1>3, <1>4, <1>5, <1>6, <1>7 DEF Calls, WriteCalls, ReadCalls

(* Whether the call is admitted or refused.                                  *)
LEMMA Checked ==
  ASSUME StoreInv, NEW c \in Calls, NEW type, CheckType(c, type)
  PROVE  /\ call' \in CallType /\ answer' \in AnswerType /\ CallBounded(call', now)
<1>1. c \in CallType /\ CallBounded(c, now)
  BY CallsTyped
<1>2. CASE Admit(c)
  BY <1>1, <1>2, IdleTyped DEF Admit
<1>3. CASE Refuse(c, "MISMATCH")
  <2>1. FALSE \in BOOLEAN /\ "MISMATCH" \in Errors /\ {} \in SUBSET ValueType
    BY DEF Errors
  <2> QED
    BY <1>1, <1>3, <2>1, AnswerTyped, IdleTyped DEF Refuse, CallBounded
<1> QED
  BY <1>2, <1>3 DEF CheckType

LEMMA Refused ==
  ASSUME StoreInv, NEW c \in Calls, NEW error \in Errors, Refuse(c, error)
  PROVE  /\ call' = Idle /\ call' \in CallType /\ answer' \in AnswerType
         /\ CallBounded(call', now)
<1>1. FALSE \in BOOLEAN /\ {} \in SUBSET ValueType /\ c \in CallType
  BY CallsTyped
<1> QED
  BY <1>1, AnswerTyped, IdleTyped DEF Refuse, CallBounded

LEMMA TailTyped ==
  ASSUME StoreInv, index # <<>>, NEW offset \in TailOffsets(Contents(data))
  PROVE  offset \in Nat
<1> DEFINE c == Contents(data)
           n == Len(c)
<1>1. /\ c \in Seq(Cell) /\ n >= 3 /\ IsValue(c, n)
      /\ IsValue(c, n - 1) \/ IsHour(c, n - 1)
  BY InvFacts DEF StoreInv, LogShape
<1>2. n \in 1 .. n /\ n - 1 \in 1 .. n /\ c[n] \in Cell /\ c[n - 1] \in Cell
  BY <1>1
<1>3. c[n].offset \in Nat /\ (IsValue(c, n - 1) => c[n - 1].offset \in Nat)
  BY <1>1, <1>2, CellFields DEF IsValue
<1>4. ~IsValue(c, n - 1) => HourAt(c, n) \in Nat
  BY <1>1, <1>2, HourInForce
<1>5. ~IsValue(c, n - 1) => (HourAt(c, n) \div 256) % 65536 \in Nat
  BY <1>4
<1> HIDE DEF c, n
<1>6. CASE c[1].type \in {"Float", "Int"}
  BY <1>3, <1>6 DEF TailOffsets, c, n
<1>7. CASE c[1].type = "Bool" /\ IsValue(c, n - 1)
  BY <1>3, <1>7 DEF TailOffsets, c, n
<1>8. CASE c[1].type = "Bool" /\ ~IsValue(c, n - 1)
  BY <1>5, <1>8 DEF TailOffsets, c, n
<1>9. CASE c[1].type \notin {"Float", "Int", "Bool"}
  <2>1. TailOffsets(c) = Shorts
    BY <1>9 DEF TailOffsets
  <2> QED
    BY <2>1 DEF Shorts, c
<1> QED
  BY <1>6, <1>7, <1>8, <1>9

LEMMA OpenKeeps ==
  ASSUME StoreInv, call = Idle, NEW c \in Calls, OpenFiles(c), UNCHANGED <<now, history>>
  PROVE  StoreInv'
<1>1. ~IsOpen /\ data.state = "present" /\ index' = index
  BY DEF OpenFiles, FileExists
<1>2. index # <<>>
  BY <1>1 DEF StoreInv, Started, IsOpen
<1>3. /\ data \in StreamType(Cell) /\ index \in Seq(EntryType) /\ index[1].hour \in Nat
      /\ LastHour \in Nat /\ Last(index).hour = LastHour /\ Len(index) \in Nat
  BY SMTT(30), <1>2, InvFacts, EntryFields DEF LastHour, Last
<1>4. Contents(data)[1].type \in ValueTypes
  <2>1. /\ Contents(data) \in Seq(Cell) /\ Contents(data) # <<>>
        /\ Contents(data)[1].kind = "header"
    BY <1>1, InvFacts DEF StoreInv, LogShape
  <2>2. Contents(data)[1] \in Cell
    BY <2>1
  <2> QED
    BY <2>1, <2>2, CellFields
<1>5. PICK offset \in TailOffsets(Contents(data)) : info' = OpenedInfo(offset)
  BY DEF OpenFiles
<1>6. info' \in InfoType /\ info' # NoInfo /\ InfoAgrees(info', index')
  <2>1. offset \in Nat /\ ToTimeT(LastHour, 0) \in Nat
    BY <1>2, <1>3, TailTyped, TimeTyped
  <2>2. info' = FilesInfo(Contents(data)[1].type, ToTimeT(LastHour, 0), index[1].hour,
                          LastHour, offset, Len(index))
    BY <1>5 DEF OpenedInfo
  <2>3. info' \in InfoType /\ info' # NoInfo
    BY <1>3, <1>4, <2>1, <2>2, InfoTyped
  <2>4. /\ info'.type = Contents(data)[1].type /\ info'.startHour = ToTimeT(LastHour, 0)
        /\ info'.minHour = index[1].hour /\ info'.maxHour = LastHour
        /\ info'.indexSize = Len(index)
    BY <2>2, InfoFields
  <2> QED
    BY <1>1, <1>2, <1>3, <1>4, <2>3, <2>4 DEF InfoAgrees
<1>7. /\ data' \in StreamType(Cell) /\ Contents(data') = Contents(data)
      /\ data'.state = "present"
  <2>1. /\ Open(data) \in StreamType(Cell) /\ Contents(Open(data)) = Contents(data)
        /\ Open(data).state = "present"
    BY <1>3, OpenFacts
  <2>2. data' = SeekEnd(Open(data))
    BY DEF OpenFiles
  <2> QED
    BY <2>1, <2>2, SeekEndFacts
<1>8. call' \in CallType /\ answer' \in AnswerType /\ CallBounded(call', now)
  BY Checked DEF OpenFiles
<1>9. LogShape(data', index')
  BY <1>1, <1>7 DEF StoreInv, LogShape
<1> QED
  BY <1>1, <1>2, <1>6, <1>7, <1>8, <1>9
  DEF StoreInv, TypeOK, IsOpen, FileExists, Started

LEMMA CreateKeeps ==
  ASSUME StoreInv, call = Idle, NEW c \in Calls, CreateFiles(c), UNCHANGED <<now, history>>
  PROVE  StoreInv'
<1> DEFINE header == HeaderCell(TypeOf(c))
<1>1. /\ c \in CallType /\ CallBounded(c, now) /\ c.op \in WriteOps
      /\ TypeOf(c) \in ValueTypes /\ call' = c /\ answer' = NoAnswer
  BY CallsTyped DEF CreateFiles, Admit
<1>2. data \in StreamType(Cell) /\ Contents(data) = <<>>
  <2>1. data.state # "present"
    BY DEF CreateFiles, FileExists
  <2>2. data \in StreamType(Cell) /\ data.state = "absent"
    BY <2>1, InvFacts, Fields
  <2> QED
    BY <2>2 DEF StoreInv, LogShape
<1>3. header \in Cell /\ header.kind = "header"
  BY <1>1, CellsMade
<1>4. /\ data' \in StreamType(Cell) /\ data'.state = "present"
      /\ Contents(data') = Append(<<>>, header)
  <2>1. /\ Open(data) \in StreamType(Cell) /\ Contents(Open(data)) = <<>>
        /\ Open(data).state = "present"
    BY <1>2, OpenFacts
  <2>2. data' = Put(Open(data), header)
    BY DEF CreateFiles
  <2> HIDE DEF header
  <2> QED
    BY <1>3, <2>1, <2>2, PutFacts
<1>5. index' = <<>> /\ index' \in Seq(EntryType)
  BY DEF CreateFiles
<1>6. info' \in InfoType /\ info' # NoInfo /\ InfoAgrees(info', index')
  <2>1. info' = FilesInfo(TypeOf(c), 0, 0, 0, 0, 0)
    BY DEF CreateFiles
  <2>2. info' \in InfoType /\ info' # NoInfo
    BY <1>1, <2>1, InfoTyped
  <2>3. /\ info'.type = TypeOf(c) /\ info'.startHour = 0 /\ info'.minHour = 0
        /\ info'.maxHour = 0 /\ info'.indexSize = 0
    BY <2>1, InfoFields
  <2> QED
    BY <1>1, <1>5, <2>2, <2>3 DEF InfoAgrees
<1>7. LogShape(data', index')
  <2> HIDE DEF header
  <2>1. Append(<<>>, header) # <<>> /\ Append(<<>>, header)[1] = header
    OBVIOUS
  <2> QED
    BY <1>3, <1>4, <1>5, <2>1 DEF LogShape
<1>8. IndexShape(index', now)
  BY <1>5 DEF IndexShape, Ascending
<1> QED
  BY <1>1, <1>4, <1>5, <1>6, <1>7, <1>8, IdleTyped
  DEF StoreInv, TypeOK, IsOpen, FileExists, Started

LEMMA GetFilesInfoKeeps ==
  ASSUME StoreInv, GetFilesInfo
  PROVE  StoreInv'
<1>1. call = Idle /\ UNCHANGED <<now, history>>
  BY DEF GetFilesInfo
<1>2. PICK c \in Calls : UseOpenFiles(c) \/ OpenFiles(c) \/ OpenFilesFails(c)
                           \/ NoFile(c) \/ CreateFiles(c)
  BY DEF GetFilesInfo
<1>3. CASE UseOpenFiles(c)
  <2>1. info # NoInfo /\ UNCHANGED <<data, index, info>>
    BY <1>3 DEF UseOpenFiles, IsOpen
  <2>2. index # <<>>
    BY <1>1, <2>1, IdleTyped DEF StoreInv, Started, WriteOps
  <2>3. call' \in CallType /\ answer' \in AnswerType /\ CallBounded(call', now)
    BY <1>3, Checked DEF UseOpenFiles
  <2> QED
    BY <1>1, <2>1, <2>2, <2>3 DEF StoreInv, TypeOK, IsOpen, FileExists, Started
<1>4. CASE OpenFiles(c)
  BY <1>1, <1>4, OpenKeeps
<1>5. CASE OpenFilesFails(c) \/ NoFile(c)
  <2>1. UNCHANGED <<data, index, info>>
    BY <1>5 DEF OpenFilesFails, NoFile
  <2>2. \E error \in Errors : Refuse(c, error)
    BY <1>5 DEF OpenFilesFails, NoFile, VerifyLastIndex, Errors
  <2>3. /\ call' = Idle /\ call' \in CallType /\ answer' \in AnswerType
        /\ CallBounded(call', now)
    BY <2>2, Refused
  <2> QED
    BY <1>1, <2>1, <2>3 DEF StoreInv, TypeOK, IsOpen, FileExists, Started
<1>6. CASE CreateFiles(c)
  BY <1>1, <1>6, CreateKeeps
<1> QED
  BY <1>2, <1>3, <1>4, <1>5, <1>6

LEMMA CloseKeeps ==
  ASSUME StoreInv, CloseSensor
  PROVE  StoreInv'
<1>1. /\ call = Idle /\ info # NoInfo /\ info' = NoInfo /\ data' = Close(data)
      /\ answer' = NoAnswer /\ UNCHANGED <<now, index, call, history>>
  BY DEF CloseSensor, IsOpen
<1>2. index # <<>>
  BY <1>1, IdleTyped DEF StoreInv, Started, WriteOps
<1>3. /\ data' \in StreamType(Cell) /\ Contents(data') = Contents(data)
      /\ data'.state = data.state
  BY <1>1, InvFacts, CloseFacts
<1>4. LogShape(data', index')
  BY <1>1, <1>3 DEF StoreInv, LogShape
<1>5. NoInfo \in InfoType
  BY DEF NoInfo, FilesInfo, InfoType, AllTypes
<1> QED
  BY <1>1, <1>2, <1>3, <1>4, <1>5, IdleTyped
  DEF StoreInv, TypeOK, IsOpen, FileExists, Started

LEMMA RemoveKeeps ==
  ASSUME StoreInv, Remove
  PROVE  StoreInv'
<1>1. /\ call = Idle /\ call' = Idle /\ data' = Absent /\ index' = <<>> /\ info' = NoInfo
      /\ history' = <<>> /\ now' = now
  BY DEF Remove
<1>2. answer' \in AnswerType
  <2> DEFINE error == IF FileExists(data) THEN "" ELSE "REMOVE_DAT"
  <2>1. [op |-> "Remove"] \in CallType \union {[op |-> "Remove"]}
    OBVIOUS
  <2>2. FileExists(data) \in BOOLEAN /\ error \in Errors /\ {} \in SUBSET ValueType
    BY DEF FileExists, Errors
  <2>3. answer' = Answer([op |-> "Remove"], FileExists(data), error, {})
    BY DEF Remove
  <2> HIDE DEF error
  <2> QED
    BY <2>1, <2>2, <2>3, AnswerTyped
<1>3. /\ data' \in StreamType(Cell) /\ Contents(data') = <<>> /\ data'.state = "absent"
  BY <1>1, AbsentFacts
<1>4. NoInfo \in InfoType
  BY DEF NoInfo, FilesInfo, InfoType, AllTypes
<1>5. LogShape(data', index') /\ IndexShape(index', now') /\ Started(index', data', info', call')
  BY <1>1, <1>3 DEF LogShape, IndexShape, Ascending, Started
<1>6. index' \in Seq(EntryType) /\ history' \in Seq(ValueType)
  BY <1>1
<1> QED
  BY <1>1, <1>2, <1>3, <1>4, <1>5, <1>6, IdleTyped
  DEF StoreInv, TypeOK, IsOpen, FileExists, CallBounded

LEMMA TickKeeps ==
  ASSUME StoreInv, Tick
  PROVE  StoreInv'
<1>1. /\ now' = now + 1 /\ now < MaxTime /\ UNCHANGED <<data, index, info, call, answer, history>>
  BY DEF Tick
<1>2. now' \in Times
  BY <1>1, InvFacts, HourSecsAssumption, BoundsAssumption DEF Times
<1>3. CallBounded(call, now + 1)
  <2>1. now \in Nat /\ HourSecs \in Nat /\ call \in CallType /\ CallBounded(call, now)
    BY InvFacts, HourSecsAssumption DEF StoreInv
  <2>2. call.op = "WriteOldValue" => call.offset \in Nat
    BY <2>1 DEF CallType
  <2>3. call.op = "WriteTimeValue" => call.time \in Nat
    BY <2>1 DEF CallType
  <2> QED
    BY <2>1, <2>2, <2>3 DEF CallBounded
<1>4. IndexShape(index, now + 1)
  <2>1. now \in Nat /\ index \in Seq(EntryType) /\ IndexShape(index, now)
    BY InvFacts DEF StoreInv
  <2>2. index # <<>> => ToTimeT(Last(index).hour, 0) \in Nat
    <3>1. index # <<>> => Last(index).hour \in Nat
      BY <2>1, EntryFields DEF Last
    <3> QED
      BY <3>1, TimeTyped
  <2> QED
    BY <2>1, <2>2 DEF IndexShape
<1> QED
  BY <1>1, <1>2, <1>3, <1>4 DEF StoreInv, TypeOK, IsOpen, FileExists, LogShape, Started

LEMMA InitHolds ==
  ASSUME Init
  PROVE  StoreInv
<1>1. /\ now = HourSecs /\ data = Absent /\ index = <<>> /\ info = NoInfo /\ call = Idle
      /\ answer = NoAnswer /\ history = <<>>
  BY DEF Init
<1>2. now \in Times
  BY <1>1, HourSecsAssumption, BoundsAssumption DEF Times
<1>3. /\ data \in StreamType(Cell) /\ Contents(data) = <<>> /\ data.state = "absent"
  BY <1>1, AbsentFacts
<1>4. NoInfo \in InfoType
  BY DEF NoInfo, FilesInfo, InfoType, AllTypes
<1>5. LogShape(data, index) /\ IndexShape(index, now) /\ Started(index, data, info, call)
  BY <1>1, <1>3 DEF LogShape, IndexShape, Ascending, Started
<1>6. index \in Seq(EntryType) /\ history \in Seq(ValueType)
  BY <1>1
<1> QED
  BY <1>1, <1>2, <1>3, <1>4, <1>5, <1>6, IdleTyped
  DEF StoreInv, TypeOK, IsOpen, FileExists, CallBounded

-----------------------------------------------------------------------------
(* Theorems.                                                                 *)

(* Every call, close, removal and tick of the clock keeps the invariant.     *)
THEOREM InvariantHolds == Spec => []StoreInv
<1>1. Init => StoreInv
  BY InitHolds
<1>2. StoreInv /\ [Next]_vars => StoreInv'
  <2> SUFFICES ASSUME StoreInv, [Next]_vars PROVE StoreInv'
    OBVIOUS
  <2>1. CASE GetFilesInfo
    BY <2>1, GetFilesInfoKeeps
  <2>2. CASE WriteNow \/ WriteOld \/ WriteTime
    BY <2>2, WritesKeep
  <2>3. CASE ReadHour \/ ReadRange \/ ReadLastValue \/ GetSensorInfo
    BY <2>3, ReadsKeep
  <2>4. CASE CloseSensor
    BY <2>4, CloseKeeps
  <2>5. CASE Remove
    BY <2>5, RemoveKeeps
  <2>6. CASE Tick
    BY <2>6, TickKeeps
  <2>7. CASE UNCHANGED vars
    BY <2>7
    DEF vars, StoreInv, TypeOK, IsOpen, FileExists, LogShape, IndexShape, InfoAgrees, CallBounded,
        Started, Last
  <2> QED
    BY <2>1, <2>2, <2>3, <2>4, <2>5, <2>6, <2>7 DEF Next, Body
<1> QED
  BY <1>1, <1>2, PTL DEF Spec

(* Every variable keeps its type whatever is called, in whatever order:      *)
(* offsets are never negative, positions and decoded times are numbers, a    *)
(* call in progress has its files open and open files are on disk.           *)
THEOREM TypeCorrect == Spec => []TypeOK
<1>1. StoreInv => TypeOK
  BY DEF StoreInv
<1> QED
  BY <1>1, InvariantHolds, PTL

(* The search in an index the store made.                                    *)
LEMMA EndsFoundHere ==
  ASSUME index \in Seq(EntryType), InfoAgrees(info, index), IndexShape(index, now), index # <<>>
  PROVE  /\ FindHour(info.minHour) = index[1].pos
         /\ FindHour(info.maxHour) = Last(index).pos
<1> DEFINE n  == Len(index)
           lo == index[1].hour
           hi == Last(index).hour
<1>1. /\ index \in Seq(EntryType) /\ InfoAgrees(info, index) /\ Ascending(index)
      /\ n <= hi - lo + 1
  BY DEF IndexShape
<1>2. n \in Nat \ {0} /\ 1 \in 1 .. n /\ n \in 1 .. n
  BY <1>1
<1>3. lo \in Nat /\ hi \in Nat /\ Last(index) = index[n]
  BY <1>1, <1>2, EntryFields DEF Last
<1>4. n = 1 <=> lo = hi
  <2>1. CASE n = 1
    BY <1>3, <2>1
  <2>2. CASE n # 1
    <3>1. 1 < n
      <4>1. n \in Nat \ {0}
        BY <1>2
      <4> HIDE DEF n
      <4> QED
        BY <2>2, <4>1
    <3>2. index[1].hour < index[n].hour
      BY <1>1, <1>2, <3>1 DEF Ascending
    <3> QED
      BY <1>3, <2>2, <3>2
  <2> QED
    BY <2>1, <2>2
<1>5. lo <= hi
  BY <1>1, <1>2, <1>3
<1>6. \A hour : FindHour(hour) = FindIndex(index, n, lo, hi, hour)
  BY <1>1 DEF FindHour, InfoAgrees
<1>7. info.minHour = lo /\ info.maxHour = hi
  BY <1>1 DEF InfoAgrees
<1>8. FindIndex(index, n, lo, hi, lo) = index[1].pos
  <2>1. Slot(n, lo, hi, lo) \in 0 .. n - 1
    <3>1. n \in Nat \ {0} /\ lo \in Nat /\ hi \in Nat /\ n <= hi - lo + 1
      BY <1>1, <1>2, <1>3
    <3>2. lo \in lo .. hi
      BY <1>3, <1>5
    <3> HIDE DEF n, lo, hi
    <3> QED
      BY <3>1, <3>2, SlotInIndex
  <2>2. 1 <= Slot(n, lo, hi, lo) + 1
    BY <1>2, <2>1
  <2> QED
    BY <1>1, <1>2, <1>3, <1>5, <2>2, FindIndexFinds
<1>9. FindIndex(index, n, lo, hi, hi) = index[n].pos
  <2>1. Slot(n, lo, hi, hi) = n - 1
    BY <1>1, <1>2, <1>3, <1>4, <1>5, SlotOfLastHour
  <2>2. n <= Slot(n, lo, hi, hi) + 1
    BY <1>2, <2>1
  <2> QED
    BY <1>1, <1>2, <1>3, <1>5, <2>2, FindIndexFinds
<1> QED
  BY <1>3, <1>6, <1>7, <1>8, <1>9

LEMMA EndsAreFound == StoreInv => EndsFound
<1>1. ASSUME StoreInv, IsOpen, index # <<>>
      PROVE  /\ index \in Seq(EntryType) /\ InfoAgrees(info, index) /\ IndexShape(index, now)
  BY <1>1, InvFacts DEF StoreInv, IsOpen
<1> QED
  BY <1>1, EndsFoundHere DEF EndsFound

(* findIndex on the FilesInfo the writes and openFiles maintain: the first   *)
(* and the last hour of an open sensor are always found, whatever the gaps   *)
(* between them.                                                             *)
THEOREM EndsAlwaysFound == Spec => []EndsFound
  BY EndsAreFound, InvariantHolds, PTL

-----------------------------------------------------------------------------
(* The content: decoded, the data file is the list of the accepted values,   *)
(* and the index has their hours, for every kind of read.                    *)

Values(c) == Within(c, 0, Len(c) + 1)

Decoded(c) == {Stamped(c, i) : i \in Values(c)}

(* Values stand behind an hour, in the order of their ranks.                 *)
Ranked(c, n) ==
  /\ \A i \in Values(c) : c[i].value <= n /\ \E h \in 1 .. i : IsHour(c, h)
  /\ \A i, j \in Values(c) : i < j => c[i].value < c[j].value

Members(h) == {h[k] : k \in 1 .. Len(h)}

HoursOf(times) == {FromTimeT(times[k].time) : k \in 1 .. Len(times)}

IndexHours(idx) == {idx[k].hour : k \in 1 .. Len(idx)}

(* The hour a value would be read in at the end of the file is the last hour *)
(* of the index.                                                             *)
EndsInLastHour(c, idx) ==
  idx # <<>> => /\ \E h \in 1 .. Len(c) : IsHour(c, h)
                /\ HourAt(c, Len(c)) = Last(idx).hour

Content(c, idx, h) ==
  /\ Decoded(c) = Members(h)
  /\ Ranked(c, Len(h))
  /\ EndsInLastHour(c, idx)
  /\ IndexHours(idx) = HoursOf(h)

ContentInv == Content(Contents(data), index, history)

-----------------------------------------------------------------------------
(* One cell more.                                                            *)

LEMMA LatestAppend ==
  ASSUME NEW c \in Seq(Cell), NEW x \in Cell
  PROVE  /\ \A i \in 1 .. Len(c) : Latest(Append(c, x), i) = Latest(c, i)
         /\ x.kind # "hour" => Latest(Append(c, x), Len(c) + 1) = Latest(c, Len(c))
         /\ x.kind = "hour" => Latest(Append(c, x), Len(c) + 1) = {Len(c) + 1}
<1> DEFINE d == Append(c, x)
           n == Len(c)
<1>1. /\ n \in Nat /\ d[n + 1] = x /\ \A i \in 1 .. n : d[i] = c[i]
  OBVIOUS
<1>2. \A i \in 1 .. n : IsHour(d, i) <=> IsHour(c, i)
  BY <1>1 DEF IsHour
<1>3. IsHour(d, n + 1) <=> x.kind = "hour"
  BY <1>1 DEF IsHour
<1> HIDE DEF d, n
<1>4. \A i \in 1 .. n : Latest(d, i) = Latest(c, i)
  BY <1>1, <1>2 DEF Latest
<1>5. x.kind # "hour" => Latest(d, n + 1) = Latest(c, n)
  BY <1>1, <1>2, <1>3 DEF Latest
<1>6. x.kind = "hour" => Latest(d, n + 1) = {n + 1}
  BY <1>1, <1>2, <1>3 DEF Latest
<1> QED
  BY <1>4, <1>5, <1>6 DEF d, n

Any(S) == CHOOSE j \in S : TRUE

(* An appended hour is in force from then on, another cell changes nothing.  *)
LEMMA HourAppend ==
  ASSUME NEW c \in Seq(Cell), NEW x \in Cell
  PROVE  /\ \A i \in 1 .. Len(c) : (\E h \in 1 .. i : IsHour(c, h)) =>
              HourAt(Append(c, x), i) = HourAt(c, i)
         /\ x.kind # "hour" /\ (\E h \in 1 .. Len(c) : IsHour(c, h)) =>
              HourAt(Append(c, x), Len(c) + 1) = HourAt(c, Len(c))
         /\ x.kind = "hour" => HourAt(Append(c, x), Len(c) + 1) = x.hour
<1> DEFINE d == Append(c, x)
           n == Len(c)
<1>1. /\ n \in Nat /\ d[n + 1] = x /\ \A i \in 1 .. n : d[i] = c[i]
  OBVIOUS
<1>2. \A s \in Seq(Cell), i \in Nat : HourAt(s, i) = s[Any(Latest(s, i))].hour
  BY DEF HourAt, Latest, Any
<1>3. d \in Seq(Cell)
  OBVIOUS
<1>4. /\ \A i \in 1 .. n : Latest(d, i) = Latest(c, i)
      /\ x.kind # "hour" => Latest(d, n + 1) = Latest(c, n)
      /\ x.kind = "hour" => Latest(d, n + 1) = {n + 1}
  BY LatestAppend
<1> HIDE DEF d, n
<1>5. ASSUME NEW i \in 0 .. n, NEW h \in 1 .. i, IsHour(c, h)
      PROVE  d[Any(Latest(c, i))] = c[Any(Latest(c, i))]
  <2>1. i \in Nat
    BY <1>1
  <2>2. Latest(c, i) # {}
    BY <1>5, <2>1, LatestExists
  <2>3. Any(Latest(c, i)) \in Latest(c, i)
    BY <2>2 DEF Any
  <2>4. Any(Latest(c, i)) \in 1 .. n
    BY <1>1, <2>3 DEF Latest
  <2> QED
    BY <1>1, <2>4
<1>6. ASSUME NEW i \in 1 .. n, NEW h \in 1 .. i, IsHour(c, h)
      PROVE  HourAt(d, i) = HourAt(c, i)
  <2>1. i \in Nat /\ i \in 0 .. n /\ Latest(d, i) = Latest(c, i)
    BY <1>1, <1>4
  <2>2. HourAt(d, i) = d[Any(Latest(c, i))].hour /\ HourAt(c, i) = c[Any(Latest(c, i))].hour
    BY <1>2, <1>3, <2>1
  <2> QED
    BY <1>5, <1>6, <2>1, <2>2
<1>7. ASSUME x.kind # "hour", NEW h \in 1 .. n, IsHour(c, h)
      PROVE  HourAt(d, n + 1) = HourAt(c, n)
  <2>1. n \in 0 .. n /\ n + 1 \in Nat /\ Latest(d, n + 1) = Latest(c, n)
    BY <1>1, <1>4, <1>7
  <2>2. HourAt(d, n + 1) = d[Any(Latest(c, n))].hour /\ HourAt(c, n) = c[Any(Latest(c, n))].hour
    BY <1>1, <1>2, <1>3, <2>1
  <2> QED
    BY <1>5, <1>7, <2>1, <2>2
<1>8. ASSUME x.kind = "hour" PROVE HourAt(d, n + 1) = x.hour
  <2>1. n + 1 \in Nat /\ Latest(d, n + 1) = {n + 1}
    BY <1>1, <1>4, <1>8
  <2>2. Any({n + 1}) = n + 1
    BY DEF Any
  <2>3. HourAt(d, n + 1) = d[Any(Latest(d, n + 1))].hour
    BY <1>2, <1>3, <2>1
  <2>4. HourAt(d, n + 1) = d[n + 1].hour
    BY <2>1, <2>2, <2>3, Zenon
  <2> QED
    BY <1>1, <2>4
<1> QED
  BY <1>6, <1>7, <1>8 DEF d, n

(* A cell of another kind adds no value, and leaves the others as they were. *)
LEMMA OtherAppend ==
  ASSUME NEW c \in Seq(Cell), NEW x \in Cell, x.kind # "value",
         NEW n \in Nat, Ranked(c, n)
  PROVE  Decoded(Append(c, x)) = Decoded(c) /\ Ranked(Append(c, x), n)
<1> DEFINE d == Append(c, x)
           m == Len(c)
<1>1. /\ m \in Nat /\ d \in Seq(Cell) /\ Len(d) = m + 1 /\ d[m + 1] = x
      /\ \A i \in 1 .. m : d[i] = c[i]
  OBVIOUS
<1>2. \A i \in 1 .. m : (\E h \in 1 .. i : IsHour(c, h)) => HourAt(d, i) = HourAt(c, i)
  BY HourAppend
<1> HIDE DEF d
<1>3. Values(d) = Values(c) /\ Values(c) \subseteq 1 .. m
  BY <1>1 DEF Values, Within, IsValue
<1>4. ASSUME NEW i \in Values(c)
      PROVE  /\ d[i] = c[i] /\ Stamped(d, i) = Stamped(c, i)
             /\ \E h \in 1 .. i : IsHour(d, h)
  <2>1. PICK h \in 1 .. i : IsHour(c, h)
    BY DEF Ranked
  <2>2. i \in 1 .. m /\ h \in 1 .. m
    BY <1>1, <1>3
  <2>3. d[i] = c[i] /\ HourAt(d, i) = HourAt(c, i)
    BY <1>1, <1>2, <2>1, <2>2
  <2>4. IsHour(d, h)
    BY <1>1, <2>1, <2>2 DEF IsHour
  <2> QED
    BY <2>3, <2>4 DEF Stamped, TimeAt
<1>5. Decoded(d) = Decoded(c)
  BY <1>3, <1>4 DEF Decoded
<1>6. Ranked(d, n)
  BY <1>3, <1>4 DEF Ranked
<1> QED
  BY <1>5, <1>6 DEF d

(* A value is read back with the hour in force where it was written.         *)
LEMMA ValueAppend ==
  ASSUME NEW c \in Seq(Cell), NEW off \in Nat, NEW n \in Nat, Ranked(c, n),
         \E h \in 1 .. Len(c) : IsHour(c, h)
  PROVE  LET d == Append(c, ValueCell(off, n + 1)) IN
         /\ Decoded(d) = Decoded(c) \union
              {[time |-> ToTimeT(HourAt(c, Len(c)), off), value |-> n + 1]}
         /\ Ranked(d, n + 1)
         /\ HourAt(d, Len(d)) = HourAt(c, Len(c))
<1> DEFINE x == ValueCell(off, n + 1)
           d == Append(c, x)
           m == Len(c)
<1>1. x \in Cell /\ x.kind = "value" /\ x.offset = off /\ x.value = n + 1
  <2>1. n + 1 \in Nat
    OBVIOUS
  <2> QED
    BY <2>1, CellsMade DEF ValueCell
<1> HIDE DEF x
<1>2. /\ m \in Nat /\ d \in Seq(Cell) /\ Len(d) = m + 1 /\ d[m + 1] = x
      /\ \A i \in 1 .. m : d[i] = c[i]
  BY <1>1
<1>3. /\ \A i \in 1 .. m : (\E h \in 1 .. i : IsHour(c, h)) => HourAt(d, i) = HourAt(c, i)
      /\ HourAt(d, m + 1) = HourAt(c, m)
  BY <1>1, HourAppend
<1> HIDE DEF d
<1>4. Values(d) = Values(c) \union {m + 1} /\ Values(c) \subseteq 1 .. m
  <2>1. IsValue(d, m + 1) /\ \A i \in 1 .. m : IsValue(d, i) <=> IsValue(c, i)
    BY <1>1, <1>2 DEF IsValue
  <2>2. Values(c) = {i \in 1 .. m : IsValue(c, i)}
    BY <1>2 DEF Values, Within
  <2>3. Values(d) = {i \in 1 .. m + 1 : IsValue(d, i)}
    BY <1>2 DEF Values, Within
  <2> QED
    BY <1>2, <2>1, <2>2, <2>3
<1>5. ASSUME NEW i \in Values(c)
      PROVE  /\ d[i] = c[i] /\ Stamped(d, i) = Stamped(c, i)
             /\ \E h \in 1 .. i : IsHour(d, h)
             /\ c[i].value \in Nat /\ c[i].value <= n
  <2>1. PICK h \in 1 .. i : IsHour(c, h)
    BY DEF Ranked
  <2>2. i \in 1 .. m /\ h \in 1 .. m
    BY <1>2, <1>4
  <2>3. d[i] = c[i] /\ HourAt(d, i) = HourAt(c, i)
    BY <1>2, <1>3, <2>1, <2>2
  <2>4. IsHour(d, h)
    BY <1>2, <2>1, <2>2 DEF IsHour
  <2>5. c[i].kind = "value" /\ c[i] \in Cell
    BY <2>2 DEF Values, Within, IsValue
  <2>6. c[i].value \in Nat
    BY <2>5, CellFields
  <2>7. c[i].value <= n
    BY DEF Ranked
  <2> QED
    BY <2>3, <2>4, <2>6, <2>7 DEF Stamped, TimeAt
<1>6. Stamped(d, m + 1) = [time |-> ToTimeT(HourAt(c, m), off), value |-> n + 1]
  BY <1>1, <1>2, <1>3 DEF Stamped, TimeAt
<1>7. Decoded(d) = Decoded(c) \union
        {[time |-> ToTimeT(HourAt(c, m), off), value |-> n + 1]}
  BY <1>4, <1>5, <1>6 DEF Decoded
<1>8. Ranked(d, n + 1)
  <2>1. \E h \in 1 .. m + 1 : IsHour(d, h)
    <3>1. PICK h \in 1 .. m : IsHour(c, h)
      OBVIOUS
    <3> QED
      BY <1>2, <3>1 DEF IsHour
  <2>2. ASSUME NEW i \in Values(d)
        PROVE  d[i].value <= n + 1 /\ \E h \in 1 .. i : IsHour(d, h)
    BY <1>1, <1>2, <1>4, <1>5, <2>1, <2>2
  <2>3. ASSUME NEW i \in Values(d), NEW j \in Values(d), i < j
        PROVE  d[i].value < d[j].value
    <3>1. i \in Values(c) /\ i \in 1 .. m
      BY <1>2, <1>4, <2>3
    <3>2. CASE j \in Values(c)
      BY <1>5, <2>3, <3>1, <3>2 DEF Ranked
    <3>3. CASE j = m + 1
      BY <1>1, <1>2, <1>5, <3>1, <3>3
    <3> QED
      BY <1>4, <3>2, <3>3
  <2> QED
    BY <2>2, <2>3 DEF Ranked
<1> QED
  BY <1>2, <1>3, <1>7, <1>8 DEF d, x

-----------------------------------------------------------------------------
(* The steps.                                                                *)

(* A time less than an hour after the beginning of an hour is in that hour.  *)
LEMMA HourUnique ==
  ASSUME NEW hour \in Nat, NEW time \in Nat, ToTimeT(hour, 0) <= time,
         time - ToTimeT(hour, 0) <= HourSecs - 1
  PROVE  FromTimeT(time) = hour
<1> DEFINE q == FromTimeT(time)
<1>1. q \in Nat /\ ToTimeT(q, 0) <= time /\ time < ToTimeT(q, 0) + HourSecs
  BY HourOfTime
<1> HIDE DEF q
<1>2. \A a, b \in Nat : a < b => ToTimeT(a, 0) + HourSecs <= ToTimeT(b, 0)
  <2>1. \A a, b \in Nat : a < b => a * HourSecs + HourSecs <= b * HourSecs
    BY HourSecsAssumption
  <2> QED
    BY <2>1, HourSecsAssumption DEF ToTimeT
<1>3. ToTimeT(q, 0) \in Nat /\ ToTimeT(hour, 0) \in Nat /\ HourSecs \in Nat
  BY <1>1, TimeTyped, HourSecsAssumption
<1>4. ~(q < hour) /\ ~(hour < q)
  BY <1>1, <1>2, <1>3
<1> QED
  BY <1>1, <1>4 DEF q

LEMMA HistoryAppend ==
  ASSUME NEW h \in Seq(ValueType), NEW v \in ValueType
  PROVE  /\ Len(h) \in Nat /\ Len(Append(h, v)) = Len(h) + 1
         /\ Members(Append(h, v)) = Members(h) \union {v}
         /\ HoursOf(Append(h, v)) = HoursOf(h) \union {FromTimeT(v.time)}
<1> DEFINE g == Append(h, v)
           n == Len(h)
<1>1. n \in Nat /\ Len(g) = n + 1 /\ g[n + 1] = v /\ \A k \in 1 .. n : g[k] = h[k]
  OBVIOUS
<1> HIDE DEF g
<1>2. 1 .. n + 1 = (1 .. n) \union {n + 1}
  BY <1>1
<1>3. Members(g) = Members(h) \union {v}
  BY <1>1, <1>2 DEF Members
<1>4. HoursOf(g) = HoursOf(h) \union {FromTimeT(v.time)}
  BY <1>1, <1>2 DEF HoursOf
<1> QED
  BY <1>1, <1>3, <1>4 DEF g

LEMMA IndexAppend ==
  ASSUME NEW idx \in Seq(EntryType), NEW hour \in Nat, NEW pos \in Nat
  PROVE  /\ IndexHours(Append(idx, Entry(hour, pos))) = IndexHours(idx) \union {hour}
         /\ Last(Append(idx, Entry(hour, pos))).hour = hour
<1> DEFINE e == Entry(hour, pos)
           g == Append(idx, e)
           n == Len(idx)
<1>1. e \in EntryType /\ e.hour = hour
  BY DEF Entry, EntryType
<1> HIDE DEF e
<1>2. n \in Nat /\ Len(g) = n + 1 /\ g[n + 1] = e /\ \A k \in 1 .. n : g[k] = idx[k]
  BY <1>1
<1> HIDE DEF g
<1>3. 1 .. n + 1 = (1 .. n) \union {n + 1}
  BY <1>2
<1>4. IndexHours(g) = IndexHours(idx) \union {hour}
  BY <1>1, <1>2, <1>3 DEF IndexHours
<1>5. Last(g).hour = hour
  BY <1>1, <1>2 DEF Last
<1> QED
  BY <1>4, <1>5 DEF g, e

(* The first value of an hour: the block before is ended, the hour is        *)
(* written, and the value behind it.                                         *)
LEMMA NewHourContent ==
  ASSUME StoreInv, ContentInv, IsOpen, NEW time \in Nat, WriteInNewHour(time),
         history' = Append(history, [time |-> time, value |-> NextValue])
  PROVE  ContentInv'
<1> DEFINE hour == FromTimeT(time)
           off  == OffsetIn(hour, time)
           n    == Len(history)
           v    == [time |-> time, value |-> n + 1]
           c    == Contents(data)
           ce   == Contents(BlockEnd(info.startHour))
           ch   == Append(ce, HourCell(hour))
           d    == Append(ch, ValueCell(off, n + 1))
<1>1. /\ c \in Seq(Cell) /\ index \in Seq(EntryType) /\ history \in Seq(ValueType) /\ n \in Nat
      /\ hour \in Nat /\ off \in Nat
  BY InvFacts, HourOfTime
<1>2. /\ ce \in {c, Append(c, EndLine)} /\ Contents(data') = d
      /\ Tellp(BlockEnd(info.startHour)) \in Nat
  BY NewHourWritten DEF NextValue
<1>3. Content(c, index, history)
  BY DEF ContentInv
<1>4. /\ EndLine \in Cell /\ EndLine.kind # "value"
      /\ HourCell(hour) \in Cell /\ HourCell(hour).kind = "hour" /\ HourCell(hour).hour = hour
  BY <1>1, CellsMade DEF HourCell
<1>5. v \in ValueType /\ v.time = time /\ history' = Append(history, v)
  BY <1>1 DEF ValueType, NextValue
<1>6. index' = Append(index, Entry(hour, Tellp(BlockEnd(info.startHour))))
  BY DEF WriteInNewHour
<1> HIDE DEF hour, off, n, v, c, ce
<1>7. ce \in Seq(Cell) /\ Decoded(ce) = Decoded(c) /\ Ranked(ce, n)
  <2>1. Ranked(c, n)
    BY <1>3 DEF Content, n
  <2>2. CASE ce = c
    BY <1>1, <2>1, <2>2
  <2>3. CASE ce = Append(c, EndLine)
    BY <1>1, <1>4, <2>1, <2>3, OtherAppend
  <2> QED
    BY <1>2, <2>2, <2>3
<1>8. /\ ch \in Seq(Cell) /\ Decoded(ch) = Decoded(c) /\ Ranked(ch, n)
      /\ Len(ch) \in 1 .. Len(ch) /\ IsHour(ch, Len(ch)) /\ HourAt(ch, Len(ch)) = hour
  <2>1. Decoded(ch) = Decoded(c) /\ Ranked(ch, n)
    BY <1>1, <1>4, <1>7, OtherAppend
  <2>2. /\ ch \in Seq(Cell) /\ Len(ch) = Len(ce) + 1 /\ Len(ce) \in Nat
        /\ ch[Len(ce) + 1] = HourCell(hour)
    BY <1>4, <1>7
  <2>3. HourAt(ch, Len(ce) + 1) = hour
    BY <1>4, <1>7, HourAppend
  <2> HIDE DEF ch
  <2> QED
    BY <1>4, <2>1, <2>2, <2>3 DEF IsHour
<1> HIDE DEF ch
<1>9. /\ Decoded(d) = Decoded(ch) \union {[time |-> ToTimeT(hour, off), value |-> n + 1]}
      /\ Ranked(d, n + 1) /\ HourAt(d, Len(d)) = hour
  BY <1>1, <1>8, ValueAppend
<1>10. ToTimeT(hour, off) = time
  <2>1. ToTimeT(hour, 0) \in Nat /\ ToTimeT(hour, off) = ToTimeT(hour, 0) + off
    BY <1>1, HourSecsAssumption DEF ToTimeT
  <2> QED
    BY <2>1 DEF off, OffsetIn
<1>11. /\ n + 1 = Len(history') /\ Members(history') = Members(history) \union {v}
       /\ HoursOf(history') = HoursOf(history) \union {hour}
  BY <1>1, <1>5, HistoryAppend DEF n, hour
<1>12. IndexHours(index') = IndexHours(index) \union {hour} /\ Last(index').hour = hour
  BY <1>1, <1>2, <1>6, IndexAppend
<1>13. \E h \in 1 .. Len(d) : IsHour(d, h)
  <2>1. ValueCell(off, n + 1) \in Cell
    <3>1. n + 1 \in Nat
      BY <1>1
    <3> QED
      BY <1>1, <3>1, CellsMade
  <2>2. Len(d) = Len(ch) + 1 /\ d[Len(ch)] = ch[Len(ch)]
    BY <1>8, <2>1
  <2> HIDE DEF d
  <2>3. Len(ch) \in 1 .. Len(d) /\ IsHour(d, Len(ch))
    BY <1>8, <2>2 DEF IsHour
  <2> QED
    BY <2>3
<1> HIDE DEF d
<1>14. Decoded(d) = Members(history')
  BY <1>3, <1>8, <1>9, <1>10, <1>11 DEF Content, v
<1>15. EndsInLastHour(d, index')
  BY <1>9, <1>12, <1>13 DEF EndsInLastHour
<1>16. IndexHours(index') = HoursOf(history')
  BY <1>3, <1>11, <1>12 DEF Content
<1> QED
  BY <1>2, <1>9, <1>11, <1>14, <1>15, <1>16 DEF ContentInv, Content

(* A value of the hour the file ends in.                                     *)
LEMMA SameHourContent ==
  ASSUME StoreInv, ContentInv, IsOpen, NEW time \in Nat, info.startHour <= time,
         HourSecs <= time, WriteInHour(time),
         history' = Append(history, [time |-> time, value |-> NextValue])
  PROVE  ContentInv'
<1> DEFINE hour == Last(index).hour
           off  == time - info.startHour
           n    == Len(history)
           v    == [time |-> time, value |-> n + 1]
           c    == Contents(data)
           cell == ValueCell(off, n + 1)
           d    == Append(c, cell)
<1>1. /\ c \in Seq(Cell) /\ index \in Seq(EntryType) /\ history \in Seq(ValueType) /\ n \in Nat
      /\ info.startHour \in Nat /\ off \in Nat /\ data \in StreamType(Cell)
  BY InvFacts
<1>2. Content(c, index, history) /\ InfoAgrees(info, index)
  BY DEF ContentInv, StoreInv, IsOpen
<1>3. ~(time - info.startHour > HourSecs - 1)
  BY DEF WriteInHour, StartsHour
<1>4. index # <<>>
  <2>1. index = <<>> => info.startHour = 0
    BY <1>2 DEF InfoAgrees
  <2> QED
    BY <1>3, <2>1, HourSecsAssumption
<1>5. hour \in Nat /\ Len(index) \in 1 .. Len(index) /\ info.startHour = ToTimeT(hour, 0)
  <2>1. Len(index) \in 1 .. Len(index)
    BY <1>1, <1>4
  <2> QED
    BY <1>1, <1>2, <1>4, <2>1, EntryFields DEF InfoAgrees, Last
<1>6. v \in ValueType /\ v.time = time /\ history' = Append(history, v)
  BY <1>1 DEF ValueType, NextValue
<1>7. cell \in Cell
  <2>1. n + 1 \in Nat
    BY <1>1
  <2> QED
    BY <1>1, <2>1, CellsMade
<1>8. data' = Put(data, cell) /\ index' = index
  BY DEF WriteInHour, NextValue
<1>9. Contents(data') = d
  <2> HIDE DEF cell
  <2> QED
    BY <1>1, <1>7, <1>8, PutFacts
<1> HIDE DEF hour, off, n, v, c
<1>10. (\E h \in 1 .. Len(c) : IsHour(c, h)) /\ HourAt(c, Len(c)) = hour /\ Ranked(c, n)
  BY <1>2, <1>4 DEF Content, EndsInLastHour, hour, n
<1>11. /\ Decoded(d) = Decoded(c) \union {[time |-> ToTimeT(hour, off), value |-> n + 1]}
       /\ Ranked(d, n + 1) /\ HourAt(d, Len(d)) = hour
  BY <1>1, <1>10, ValueAppend
<1>12. ToTimeT(hour, off) = time /\ FromTimeT(time) = hour
  <2>1. ToTimeT(hour, 0) \in Nat /\ ToTimeT(hour, off) = ToTimeT(hour, 0) + off
    BY <1>1, <1>5, HourSecsAssumption DEF ToTimeT
  <2>2. off = time - ToTimeT(hour, 0) /\ off <= HourSecs - 1
    BY <1>1, <1>3, <1>5, HourSecsAssumption DEF off
  <2> QED
    BY <1>1, <1>5, <2>1, <2>2, HourUnique
<1>13. /\ n + 1 = Len(history') /\ Members(history') = Members(history) \union {v}
       /\ HoursOf(history') = HoursOf(history) \union {hour}
  BY <1>1, <1>6, <1>12, HistoryAppend DEF n
<1>14. hour \in IndexHours(index)
  BY <1>5 DEF IndexHours, hour, Last
<1>15. \E h \in 1 .. Len(d) : IsHour(d, h)
  <2>1. PICK h \in 1 .. Len(c) : IsHour(c, h)
    BY <1>10
  <2>2. Len(d) = Len(c) + 1 /\ d[h] = c[h]
    BY <1>1, <1>7, <2>1
  <2> HIDE DEF d
  <2> QED
    BY <1>1, <2>1, <2>2 DEF IsHour
<1> HIDE DEF d
<1>16. Decoded(d) = Members(history')
  BY <1>2, <1>11, <1>12, <1>13 DEF Content, v
<1>17. EndsInLastHour(d, index')
  BY <1>8, <1>11, <1>15 DEF EndsInLastHour, hour
<1>18. IndexHours(index') = HoursOf(history')
  BY <1>2, <1>8, <1>13, <1>14 DEF Content
<1> QED
  BY <1>9, <1>11, <1>13, <1>16, <1>17, <1>18 DEF ContentInv, Content

(* Steps that append nothing to the file.                                    *)
LEMMA SameContent ==
  ASSUME ContentInv, Contents(data') = Contents(data), index' = index, history' = history
  PROVE  ContentInv'
  BY DEF ContentInv

LEMMA ReadContent ==
  ASSUME StoreInv, ReadHour \/ ReadRange \/ ReadLastValue \/ GetSensorInfo
  PROVE  Contents(data') = Contents(data) /\ UNCHANGED <<index, history>>
<1>1. call.op \in ReadOps /\ UNCHANGED <<index, history>>
  BY DEF ReadHour, ReadRange, ReadLastValue, GetSensorInfo, ReadOps
<1>2. /\ IsOpen /\ index # <<>> /\ call \in CallType /\ data \in StreamType(Cell)
      /\ info.maxHour \in Nat /\ Len(Contents(data)) \in Nat /\ Contents(data) \in Seq(Cell)
  BY <1>1, InvFacts, ReadsOpen
<1>3. ASSUME NEW p \in Nat, data' = SeekTo(data, p) PROVE Contents(data') = Contents(data)
  BY <1>2, <1>3, SeekFacts
<1>4. ASSUME NEW stop \in Nat, LeaveAt(stop) PROVE Contents(data') = Contents(data)
  BY <1>3, <1>4, LeftInFile
<1>5. ASSUME NEW pos \in Nat, ReadMiss \/ ReadMismatch(pos)
      PROVE  Contents(data') = Contents(data)
  <2>1. pos + 1 \in Nat
    OBVIOUS
  <2>2. LeaveAt(pos + 1) => Contents(data') = Contents(data)
    BY <1>4, <2>1
  <2> QED
    BY <1>5, <2>2 DEF ReadMiss, ReadMismatch
<1>6. CASE ReadHour
  <2> DEFINE pos == FindHour(call.hour)
  <2>1. call.op = "ReadHour" /\ call.hour \in Nat
    BY <1>2, <1>6 DEF ReadHour, CallType
  <2>2. pos \in Nat
    BY <1>2, <2>1, FoundInFile
  <2>3. HourStop(Contents(data), pos + 1) \in Nat
    <3> DEFINE stops == {i \in pos + 1 + 1 .. Len(Contents(data)) : IsEnd(Contents(data), i)}
    <3>1. stops \in SUBSET (1 .. Len(Contents(data)))
      BY <1>2, <2>2
    <3>2. HourStop(Contents(data), pos + 1) = FirstOf(Contents(data), stops)
      BY DEF HourStop
    <3> HIDE DEF stops
    <3> QED
      BY <1>2, <3>1, <3>2, FirstOfInFile
  <2> QED
    BY <1>4, <1>5, <1>6, <2>2, <2>3 DEF ReadHour
<1>7. CASE ReadRange
  <2> DEFINE pos == FindHour(FromTimeT(call.begin))
  <2>1. call.op = "ReadRange" /\ call.begin \in Nat
    BY <1>2, <1>7 DEF ReadRange, CallType
  <2>2. pos \in Nat
    BY <1>2, <2>1, HourOfTime, FoundInFile
  <2>3. RangeStop(Contents(data), pos + 1, call.end) \in Nat
    <3> DEFINE stops == {i \in Within(Contents(data), pos + 1, Len(Contents(data)) + 1) :
                           TimeAt(Contents(data), i) > call.end}
    <3>1. stops \in SUBSET (1 .. Len(Contents(data)))
      BY <1>2, <2>2 DEF Within
    <3>2. RangeStop(Contents(data), pos + 1, call.end) = FirstOf(Contents(data), stops)
      BY DEF RangeStop
    <3> HIDE DEF stops
    <3> QED
      BY <1>2, <3>1, <3>2, FirstOfInFile
  <2> QED
    BY <1>4, <1>5, <1>7, <2>2, <2>3 DEF ReadRange
<1>8. CASE ReadLastValue
  <2>1. FindHour(info.maxHour) \in Nat
    BY <1>2, FoundInFile
  <2>2. data' = SeekEnd(data) => Contents(data') = Contents(data)
    BY <1>2, SeekEndFacts
  <2> QED
    BY <1>5, <1>8, <2>1, <2>2 DEF ReadLastValue
<1>9. CASE GetSensorInfo
  BY <1>9 DEF GetSensorInfo
<1> QED
  BY <1>1, <1>6, <1>7, <1>8, <1>9

LEMMA GetContent ==
  ASSUME StoreInv, ContentInv, GetFilesInfo
  PROVE  ContentInv'
<1>1. UNCHANGED history
  BY DEF GetFilesInfo
<1>2. PICK c \in Calls : UseOpenFiles(c) \/ OpenFiles(c) \/ OpenFilesFails(c)
                           \/ NoFile(c) \/ CreateFiles(c)
  BY DEF GetFilesInfo
<1>3. CASE UseOpenFiles(c) \/ OpenFilesFails(c) \/ NoFile(c)
  BY <1>1, <1>3, SameContent DEF UseOpenFiles, OpenFilesFails, NoFile
<1>4. CASE OpenFiles(c)
  <2>1. data' = SeekEnd(Open(data)) /\ index' = index
    BY <1>4 DEF OpenFiles
  <2>2. Open(data) \in StreamType(Cell) /\ Contents(Open(data)) = Contents(data)
    BY InvFacts, OpenFacts
  <2>3. Contents(data') = Contents(data)
    BY <2>1, <2>2, SeekEndFacts
  <2> QED
    BY <1>1, <2>1, <2>3, SameContent
<1>5. CASE CreateFiles(c)
  <2> DEFINE header == HeaderCell(TypeOf(c))
  <2>1. c \in CallType /\ TypeOf(c) \in ValueTypes
    BY <1>5, CallsTyped DEF CreateFiles
  <2>2. data \in StreamType(Cell) /\ data.state = "absent"
    <3>1. data.state # "present" /\ data \in StreamType(Cell)
      BY <1>5, InvFacts DEF CreateFiles, FileExists
    <3> QED
      BY <3>1, Fields
  <2>3. Contents(data) = <<>> /\ index = <<>>
    <3>1. Contents(data) = <<>>
      BY <2>2 DEF StoreInv, LogShape
    <3>2. index # <<>> => Len(Contents(data)) >= 3
      BY DEF StoreInv, LogShape
    <3> QED
      BY <3>1, <3>2
  <2>4. header \in Cell /\ header.kind # "value"
    BY <2>1, CellsMade
  <2>5. Contents(data') = Append(<<>>, header)
    <3>1. Open(data) \in StreamType(Cell) /\ Contents(Open(data)) = <<>>
      BY <2>2, <2>3, OpenFacts
    <3>2. data' = Put(Open(data), header)
      BY <1>5 DEF CreateFiles
    <3> HIDE DEF header
    <3> QED
      BY <2>4, <3>1, <3>2, PutFacts
  <2>6. index' = index
    BY <1>5, <2>3 DEF CreateFiles
  <2>7. Content(<<>>, index, history) /\ Len(history) \in Nat /\ <<>> \in Seq(Cell)
    BY <2>3, InvFacts DEF ContentInv
  <2> HIDE DEF header
  <2>8. /\ Decoded(Append(<<>>, header)) = Decoded(<<>>)
        /\ Ranked(Append(<<>>, header), Len(history))
    BY <2>4, <2>7, OtherAppend DEF Content
  <2> QED
    BY <1>1, <2>3, <2>5, <2>6, <2>7, <2>8 DEF ContentInv, Content, EndsInLastHour
<1> QED
  BY <1>2, <1>3, <1>4, <1>5

(* A sensor without files has neither hours nor accepted values.             *)
LEMMA NothingContent == Content(<<>>, <<>>, <<>>)
<1>1. Values(<<>>) = {} /\ 1 .. Len(<<>>) = {}
  BY DEF Values, Within
<1> QED
  BY <1>1 DEF Content, Decoded, Ranked, Members, HoursOf, IndexHours, EndsInLastHour

LEMMA StepContent ==
  ASSUME StoreInv, ContentInv, [Next]_vars
  PROVE  ContentInv'
<1>1. data \in StreamType(Cell)
  BY InvFacts
<1>2. CASE GetFilesInfo
  BY <1>2, GetContent
<1>3. CASE WriteNow \/ WriteOld \/ WriteTime
  <2>1. /\ IsOpen /\ TimeOfWrite \in Nat /\ HourSecs <= TimeOfWrite
        /\ \/ RefusedByRule(TimeOfWrite)
           \/ info.startHour <= TimeOfWrite /\ WriteTimeValue(TimeOfWrite)
    BY <1>3, WriteReached
  <2>2. CASE RefusedByRule(TimeOfWrite)
    BY <2>2, SameContent DEF RefusedByRule
  <2>3. CASE info.startHour <= TimeOfWrite /\ WriteTimeValue(TimeOfWrite)
    BY <2>1, <2>3, NewHourContent, SameHourContent DEF WriteTimeValue
  <2> QED
    BY <2>1, <2>2, <2>3
<1>4. CASE ReadHour \/ ReadRange \/ ReadLastValue \/ GetSensorInfo
  BY <1>4, ReadContent, SameContent
<1>5. CASE CloseSensor
  <2>1. data' = Close(data) /\ UNCHANGED <<index, history>>
    BY <1>5 DEF CloseSensor
  <2> QED
    BY <1>1, <2>1, CloseFacts, SameContent
<1>6. CASE Remove
  <2>1. data' = Absent /\ index' = <<>> /\ history' = <<>>
    BY <1>6 DEF Remove
  <2>2. Contents(data') = <<>>
    BY <2>1, AbsentFacts
  <2> QED
    BY <2>1, <2>2, NothingContent DEF ContentInv
<1>7. CASE Tick \/ UNCHANGED vars
  <2>1. UNCHANGED <<data, index, history>>
    BY <1>7 DEF Tick, vars
  <2> QED
    BY <2>1, SameContent
<1> QED
  BY <1>2, <1>3, <1>4, <1>5, <1>6, <1>7 DEF Next, Body

-----------------------------------------------------------------------------
(* Theorems.                                                                 *)

(* What is decoded from the files is what was accepted, whatever was read,   *)
(* closed, opened and removed in between.                                    *)
THEOREM ContentHolds == Spec => []ContentInv
<1>1. Init => ContentInv
  BY AbsentFacts, NothingContent DEF Init, ContentInv
<1>2. StoreInv /\ ContentInv /\ [Next]_vars => ContentInv'
  BY StepContent
<1> QED
  BY <1>1, <1>2, InvariantHolds, PTL DEF Spec

(* The data file holds the accepted values, each with its time, in the order *)
(* of their acceptance: writeTimeValue never misplaces a value, even where   *)
(* reads have left the stream anywhere.                                      *)
THEOREM LogAlwaysHistory == Spec => []LogIsHistory
<1>1. ContentInv => LogIsHistory
  <2> SUFFICES ASSUME ContentInv PROVE LogIsHistory
    OBVIOUS
  <2>1. Content(Contents(data), index, history)
    BY DEF ContentInv
  <2>2. Accepted(LAMBDA v : TRUE) = Members(history)
    BY DEF Accepted, Members
  <2> QED
    BY <2>1, <2>2 DEF LogIsHistory, Content, Decoded, Ranked, Values
<1> QED
  BY <1>1, ContentHolds, PTL

(* The index has exactly the hours of the accepted values, each once and in  *)
(* order: a value that stays in its hour stays in the last hour.             *)
THEOREM IndexAlwaysCovers == Spec => []IndexCoversHistory
<1>1. StoreInv /\ ContentInv => IndexCoversHistory
  BY DEF StoreInv, IndexShape, ContentInv, Content, IndexCoversHistory, IndexHours, HoursOf
<1> QED
  BY <1>1, ContentHolds, InvariantHolds, PTL

-----------------------------------------------------------------------------
(* The second part: what the reads answer.  It rests on the blocks of the    *)
(* data file, the order of the times in it, and the sets of values that are  *)
(* returned.                                                                 *)

-----------------------------------------------------------------------------
(* The blocks of a data file.                                                *)

(* An hour stands behind the header or an end mark, and nowhere else; hours  *)
(* grow along the file; values are offsets inside an hour.                   *)
Blocks(c) ==
  /\ \A i \in 2 .. Len(c) : IsHour(c, i) <=> (i = 2 \/ IsEnd(c, i - 1))
  /\ \A i \in 1 .. Len(c) : IsEnd(c, i) => i < Len(c)
  /\ \A i, j \in 1 .. Len(c) :
       i < j /\ IsHour(c, i) /\ IsHour(c, j) => c[i].hour < c[j].hour
  /\ \A i \in Values(c) : c[i].offset < HourSecs

(* No block without an entry of the index.                                   *)
BlockInv ==
  /\ Blocks(Contents(data))
  /\ index = <<>> => Len(Contents(data)) <= 1

(* The hour in force is that of the last hour cell.                          *)
LEMMA HourFrom ==
  ASSUME NEW c \in Seq(Cell), NEW i \in Nat, NEW h \in 1 .. i, IsHour(c, h)
  PROVE  \E j \in h .. i : /\ IsHour(c, j) /\ HourAt(c, i) = c[j].hour
                          /\ \A k \in j + 1 .. i : ~IsHour(c, k)
<1>1. Latest(c, i) # {}
  BY LatestExists
<1> DEFINE j == CHOOSE j \in Latest(c, i) : TRUE
<1>2. j \in Latest(c, i) /\ HourAt(c, i) = c[j].hour
  BY <1>1 DEF HourAt, Latest
<1> HIDE DEF j
<1>3. j \in 1 .. i /\ IsHour(c, j) /\ \A k \in j + 1 .. i : ~IsHour(c, k)
  BY <1>2 DEF Latest
<1>4. h <= j
  BY <1>3
<1> QED
  BY <1>2, <1>3, <1>4

(* A block more: the one before it is ended first, unless there is none.     *)
LEMMA BlockAppended ==
  ASSUME NEW c \in Seq(Cell), c # <<>>, c[1].kind = "header", Blocks(c),
         NEW ce \in {c, Append(c, EndLine)},
         ce = c => Len(c) = 1, ce # c => Len(c) >= 2,
         NEW hour \in Nat, NEW off \in Nat, off < HourSecs, NEW rank \in Nat,
         \A h \in 1 .. Len(c) : IsHour(c, h) => c[h].hour < hour
  PROVE  Blocks(Append(Append(ce, HourCell(hour)), ValueCell(off, rank)))
<1> DEFINE x == HourCell(hour)
           y == ValueCell(off, rank)
           d == Append(Append(ce, x), y)
           m == Len(c)
           e == Len(ce)
<1>1. /\ x \in Cell /\ x.kind = "hour" /\ x.hour = hour
      /\ y \in Cell /\ y.kind = "value" /\ y.offset = off
      /\ EndLine \in Cell /\ EndLine.kind = "endline"
  BY CellsMade DEF HourCell, ValueCell
<1> HIDE DEF x, y
<1>2. /\ m \in Nat \ {0} /\ ce \in Seq(Cell) /\ e \in {m, m + 1}
      /\ \A i \in 1 .. m : ce[i] = c[i]
      /\ e = m => m = 1
      /\ e = m + 1 => m >= 2 /\ ce[m + 1] = EndLine
  BY SMTT(30), <1>1
<1> HIDE DEF e, m
<1>3. /\ d \in Seq(Cell) /\ Len(d) = e + 2 /\ d[e + 1] = x /\ d[e + 2] = y
      /\ \A i \in 1 .. e : d[i] = ce[i]
  <2> DEFINE s == Append(ce, x)
  <2>1. /\ s \in Seq(Cell) /\ Len(s) = e + 1 /\ s[e + 1] = x
        /\ \A i \in 1 .. e : s[i] = ce[i]
    BY <1>1, <1>2 DEF e
  <2> HIDE DEF s
  <2>2. /\ Append(s, y) \in Seq(Cell) /\ Len(Append(s, y)) = e + 2 /\ Append(s, y)[e + 2] = y
        /\ \A i \in 1 .. e + 1 : Append(s, y)[i] = s[i]
    BY <1>1, <1>2, <2>1
  <2> QED
    BY <1>2, <2>1, <2>2 DEF s
<1> HIDE DEF d
<1>4. \A i \in 1 .. m : d[i] = c[i]
  BY <1>2, <1>3
<1>5. \A i \in 1 .. m : /\ IsHour(d, i) <=> IsHour(c, i)
                        /\ IsEnd(d, i) <=> IsEnd(c, i)
                        /\ IsValue(d, i) <=> IsValue(c, i)
  BY <1>4 DEF IsHour, IsEnd, IsValue
<1>6. /\ IsHour(d, e + 1) /\ ~IsEnd(d, e + 1) /\ ~IsValue(d, e + 1)
      /\ ~IsHour(d, e + 2) /\ ~IsEnd(d, e + 2) /\ IsValue(d, e + 2)
      /\ e = m + 1 => ~IsHour(d, m + 1) /\ IsEnd(d, m + 1) /\ ~IsValue(d, m + 1)
  BY <1>1, <1>2, <1>3 DEF IsHour, IsEnd, IsValue
<1>7. ~IsHour(c, 1) /\ ~IsEnd(c, 1)
  BY DEF IsHour, IsEnd
<1>8. /\ \A i \in 2 .. m : IsHour(c, i) <=> (i = 2 \/ IsEnd(c, i - 1))
      /\ \A i \in 1 .. m : IsEnd(c, i) => i < m
      /\ \A i, j \in 1 .. m : i < j /\ IsHour(c, i) /\ IsHour(c, j) => c[i].hour < c[j].hour
      /\ \A i \in 1 .. m : IsValue(c, i) => c[i].offset < HourSecs
  BY <1>2 DEF Blocks, Values, Within, m
<1>9. ASSUME NEW i \in 2 .. e + 2 PROVE IsHour(d, i) <=> (i = 2 \/ IsEnd(d, i - 1))
  <2>1. CASE i \in 2 .. m
    <3>1. i \in 1 .. m /\ i - 1 \in 1 .. m
      BY <1>2, <2>1
    <3> QED
      BY <1>5, <1>8, <2>1, <3>1
  <2>2. CASE e = m + 1 /\ i = m + 1
    <3>1. m \in 1 .. m /\ i - 1 = m /\ i # 2 /\ ~(m < m)
      BY <1>2, <2>2
    <3>2. ~IsEnd(c, m)
      BY <1>8, <3>1
    <3> QED
      BY <1>5, <1>6, <2>2, <3>1, <3>2
  <2>3. CASE i = e + 1
    <3>1. CASE e = m
      BY <1>2, <1>6, <2>3, <3>1
    <3>2. CASE e = m + 1
      <4>1. i - 1 = m + 1
        BY <1>2, <2>3, <3>2
      <4> QED
        BY <1>6, <2>3, <3>2, <4>1
    <3> QED
      BY <1>2, <3>1, <3>2
  <2>4. CASE i = e + 2
    <3>1. i - 1 = e + 1 /\ i # 2
      BY <1>2, <2>4
    <3> QED
      BY <1>6, <2>4, <3>1
  <2> QED
    BY <1>2, <2>1, <2>2, <2>3, <2>4
<1>10. ASSUME NEW i \in 1 .. e + 2, IsEnd(d, i) PROVE i < e + 2
  BY <1>2, <1>6, <1>10
<1>11. ASSUME NEW i \in 1 .. e + 2, NEW j \in 1 .. e + 2, i < j, IsHour(d, i), IsHour(d, j)
       PROVE  d[i].hour < d[j].hour
  <2>1. j \in 1 .. m \/ j = e + 1
    BY <1>2, <1>6, <1>11
  <2>2. i \in 1 .. m
    BY <1>2, <1>6, <1>11, <2>1
  <2>3. CASE j \in 1 .. m
    BY <1>4, <1>5, <1>8, <1>11, <2>2, <2>3
  <2>4. CASE j = e + 1
    BY <1>1, <1>3, <1>4, <1>5, <1>11, <2>2, <2>4 DEF m
  <2> QED
    BY <2>1, <2>3, <2>4
<1>12. ASSUME NEW i \in 1 .. e + 2, IsValue(d, i) PROVE d[i].offset < HourSecs
  <2>1. i \in 1 .. m \/ i = e + 2
    BY <1>2, <1>6, <1>12
  <2>2. CASE i \in 1 .. m
    BY <1>4, <1>5, <1>8, <1>12, <2>2
  <2>3. CASE i = e + 2
    BY <1>1, <1>3, <2>3
  <2> QED
    BY <2>1, <2>2, <2>3
<1> QED
  BY <1>2, <1>3, <1>9, <1>10, <1>11, <1>12 DEF Blocks, Values, Within, d, x, y

(* A value more in the last block.                                           *)
LEMMA ValueInBlock ==
  ASSUME NEW c \in Seq(Cell), Len(c) >= 2, Blocks(c),
         NEW off \in Nat, off < HourSecs, NEW rank \in Nat
  PROVE  Blocks(Append(c, ValueCell(off, rank)))
<1> DEFINE y == ValueCell(off, rank)
           d == Append(c, y)
           m == Len(c)
<1>1. y \in Cell /\ y.kind = "value" /\ y.offset = off
  BY CellsMade DEF ValueCell
<1> HIDE DEF y
<1>2. /\ m \in Nat /\ m >= 2 /\ d \in Seq(Cell) /\ Len(d) = m + 1 /\ d[m + 1] = y
      /\ \A i \in 1 .. m : d[i] = c[i]
  BY <1>1
<1> HIDE DEF d, m
<1>3. \A i \in 1 .. m : /\ IsHour(d, i) <=> IsHour(c, i)
                        /\ IsEnd(d, i) <=> IsEnd(c, i)
                        /\ IsValue(d, i) <=> IsValue(c, i)
  BY <1>2 DEF IsHour, IsEnd, IsValue
<1>4. ~IsHour(d, m + 1) /\ ~IsEnd(d, m + 1) /\ IsValue(d, m + 1)
  BY <1>1, <1>2 DEF IsHour, IsEnd, IsValue
<1>5. /\ \A i \in 2 .. m : IsHour(c, i) <=> (i = 2 \/ IsEnd(c, i - 1))
      /\ \A i \in 1 .. m : IsEnd(c, i) => i < m
      /\ \A i, j \in 1 .. m : i < j /\ IsHour(c, i) /\ IsHour(c, j) => c[i].hour < c[j].hour
      /\ \A i \in 1 .. m : IsValue(c, i) => c[i].offset < HourSecs
  BY <1>2 DEF Blocks, Values, Within, m
<1>6. ASSUME NEW i \in 2 .. m + 1 PROVE IsHour(d, i) <=> (i = 2 \/ IsEnd(d, i - 1))
  <2>1. CASE i \in 2 .. m
    <3>1. i \in 1 .. m /\ i - 1 \in 1 .. m
      BY <1>2, <2>1
    <3> QED
      BY <1>3, <1>5, <2>1, <3>1
  <2>2. CASE i = m + 1
    <3>1. m \in 1 .. m /\ i - 1 = m /\ i # 2 /\ ~(m < m)
      BY <1>2, <2>2
    <3>2. ~IsEnd(c, m)
      BY <1>5, <3>1
    <3> QED
      BY <1>3, <1>4, <2>2, <3>1, <3>2
  <2> QED
    BY <1>2, <2>1, <2>2
<1>7. ASSUME NEW i \in 1 .. m + 1, IsEnd(d, i) PROVE i < m + 1
  BY <1>2, <1>4, <1>7
<1>8. ASSUME NEW i \in 1 .. m + 1, NEW j \in 1 .. m + 1, i < j, IsHour(d, i), IsHour(d, j)
      PROVE  d[i].hour < d[j].hour
  <2>1. i \in 1 .. m /\ j \in 1 .. m
    BY <1>2, <1>4, <1>8
  <2> QED
    BY <1>2, <1>3, <1>5, <1>8, <2>1
<1>9. ASSUME NEW i \in 1 .. m + 1, IsValue(d, i) PROVE d[i].offset < HourSecs
  <2>1. CASE i \in 1 .. m
    BY <1>2, <1>3, <1>5, <1>9, <2>1
  <2>2. CASE i = m + 1
    BY <1>1, <1>2, <2>2
  <2> QED
    BY <1>2, <2>1, <2>2
<1> QED
  BY <1>2, <1>6, <1>7, <1>8, <1>9 DEF Blocks, Values, Within, d, y

(* The last hour of the index is the largest of the file.                    *)
LEMMA HoursInFile ==
  ASSUME NEW c \in Seq(Cell), Blocks(c), NEW idx, idx # <<>>, EndsInLastHour(c, idx),
         NEW h \in 1 .. Len(c), IsHour(c, h)
  PROVE  c[h].hour \in Nat /\ c[h].hour <= Last(idx).hour
<1>1. Len(c) \in Nat /\ \A i \in 1 .. Len(c) : IsHour(c, i) => c[i].hour \in Nat
  BY CellFields DEF IsHour
<1>2. PICK j \in h .. Len(c) : IsHour(c, j) /\ HourAt(c, Len(c)) = c[j].hour
  BY <1>1, HourFrom
<1>3. HourAt(c, Len(c)) = Last(idx).hour
  BY DEF EndsInLastHour
<1>4. j \in 1 .. Len(c) /\ (h = j \/ h < j)
  BY <1>1, <1>2
<1>5. c[h].hour \in Nat /\ c[j].hour \in Nat
  BY <1>1, <1>2, <1>4
<1>6. h = j \/ c[h].hour < c[j].hour
  BY <1>2, <1>4 DEF Blocks
<1>7. Last(idx).hour = c[j].hour
  BY <1>2, <1>3, Zenon
<1> QED
  BY <1>5, <1>6, <1>7

-----------------------------------------------------------------------------
(* What a step does to the files.                                            *)

Kept ==
  /\ Contents(data') = Contents(data) /\ UNCHANGED <<index, history>>
  /\ info' \in {info, NoInfo} \/ \E c \in Calls : OpenFiles(c)

Created(type) ==
  /\ Contents(data) = <<>> /\ Contents(data') = <<HeaderCell(type)>>
  /\ index = <<>> /\ UNCHANGED <<index, history>>
  /\ info' = FilesInfo(type, 0, 0, 0, 0, 0)

Written(time) ==
  /\ IsOpen /\ call.op \in WriteOps /\ UNCHANGED now
  /\ HourSecs <= time /\ time <= now /\ info.startHour <= time
  /\ LetThrough(time)
  /\ WriteTimeValue(time)

Emptied == Contents(data') = <<>> /\ index' = <<>> /\ history' = <<>> /\ info' = NoInfo

LEMMA CreatedFacts ==
  ASSUME StoreInv, NEW c \in Calls, CreateFiles(c)
  PROVE  /\ TypeOf(c) \in Types /\ Contents(data) = <<>> /\ index = <<>>
         /\ Contents(data') = <<HeaderCell(TypeOf(c))>> /\ data' \in StreamType(Cell)
         /\ AtEnd(data')
<1> DEFINE header == HeaderCell(TypeOf(c))
<1>1. TypeOf(c) \in Types
  <2>1. CASE c.op \in WriteOps
    BY <2>1 DEF Calls, WriteCalls, ReadCalls, TypeOf, WriteOps
  <2>2. CASE c.op \notin WriteOps
    BY <2>2 DEF CreateFiles, TypeOf, WriteOps
  <2> QED
    BY <2>1, <2>2
<1>2. header \in Cell
  BY <1>1, CellsMade, TypesAssumption
<1> HIDE DEF header
<1>3. data \in StreamType(Cell) /\ data.state = "absent"
  <2>1. data.state # "present" /\ data \in StreamType(Cell)
    BY InvFacts DEF CreateFiles, FileExists
  <2> QED
    BY <2>1, Fields
<1>4. Contents(data) = <<>> /\ index = <<>>
  <2>1. Contents(data) = <<>>
    BY <1>3 DEF StoreInv, LogShape
  <2>2. index # <<>> => Len(Contents(data)) >= 3
    BY DEF StoreInv, LogShape
  <2> QED
    BY <2>1, <2>2
<1>5. data.cells = <<>>
  <2>1. Len(data.cells) + Len(data.buf) = 0 /\ Len(data.cells) \in Nat /\ Len(data.buf) \in Nat
    BY <1>3, <1>4, ContentsFacts, Fields
  <2>2. data.cells \in Seq(Cell)
    BY <1>3, Fields
  <2>3. \A a, b \in Nat : a + b = 0 => a = 0
    OBVIOUS
  <2>4. Len(data.cells) = 0
    BY <2>1, <2>3, Zenon
  <2> QED
    BY <2>2, <2>4
<1>6. Open(data) \in StreamType(Cell) /\ Contents(Open(data)) = <<>> /\ AtEnd(Open(data))
  BY <1>3, <1>4, <1>5, OpenFacts
<1>7. data' = Put(Open(data), header)
  BY DEF CreateFiles, header
<1>8. Contents(data') = Append(<<>>, header) /\ data' \in StreamType(Cell) /\ AtEnd(data')
  BY <1>2, <1>6, <1>7, PutFacts
<1> QED
  BY <1>1, <1>4, <1>8 DEF header

LEMMA FileSteps ==
  ASSUME StoreInv, [Next]_vars
  PROVE  \/ Kept
         \/ \E type \in Types : Created(type)
         \/ TimeOfWrite \in Nat /\ Written(TimeOfWrite)
         \/ Emptied
<1>1. data \in StreamType(Cell)
  BY InvFacts
<1>2. CASE GetFilesInfo
  <2>1. PICK c \in Calls : UseOpenFiles(c) \/ OpenFiles(c) \/ OpenFilesFails(c)
                             \/ NoFile(c) \/ CreateFiles(c)
    BY <1>2 DEF GetFilesInfo
  <2>2. UNCHANGED history
    BY <1>2 DEF GetFilesInfo
  <2>3. CASE UseOpenFiles(c) \/ OpenFilesFails(c) \/ NoFile(c)
    BY <2>2, <2>3 DEF UseOpenFiles, OpenFilesFails, NoFile, Kept
  <2>4. CASE OpenFiles(c)
    <3>1. data' = SeekEnd(Open(data)) /\ index' = index
      BY <2>4 DEF OpenFiles
    <3>2. Open(data) \in StreamType(Cell) /\ Contents(Open(data)) = Contents(data)
      BY <1>1, OpenFacts
    <3>3. Contents(data') = Contents(data)
      BY <3>1, <3>2, SeekEndFacts
    <3> QED
      BY <2>2, <2>4, <3>1, <3>3 DEF Kept
  <2>5. CASE CreateFiles(c)
    <3>1. index' = <<>> /\ info' = FilesInfo(TypeOf(c), 0, 0, 0, 0, 0)
      BY <2>5 DEF CreateFiles
    <3> QED
      BY <2>2, <2>5, <3>1, CreatedFacts DEF Created
  <2> QED
    BY <2>1, <2>3, <2>4, <2>5
<1>3. CASE WriteNow \/ WriteOld \/ WriteTime
  <2>1. /\ IsOpen /\ call.op \in WriteOps /\ UNCHANGED now
        /\ TimeOfWrite \in Nat /\ HourSecs <= TimeOfWrite /\ TimeOfWrite <= now
        /\ \/ RefusedByRule(TimeOfWrite)
           \/ /\ LetThrough(TimeOfWrite)
              /\ info.startHour <= TimeOfWrite
              /\ WriteTimeValue(TimeOfWrite)
    BY <1>3, WriteReached
  <2>2. RefusedByRule(TimeOfWrite) => Kept
    BY DEF RefusedByRule, Kept
  <2> QED
    BY <2>1, <2>2 DEF Written
<1>4. CASE ReadHour \/ ReadRange \/ ReadLastValue \/ GetSensorInfo
  <2>1. UNCHANGED info
    BY <1>4 DEF ReadHour, ReadRange, ReadLastValue, GetSensorInfo
  <2> QED
    BY <1>4, <2>1, ReadContent DEF Kept
<1>5. CASE CloseSensor
  <2>1. data' = Close(data) /\ info' = NoInfo /\ UNCHANGED <<index, history>>
    BY <1>5 DEF CloseSensor
  <2> QED
    BY <1>1, <2>1, CloseFacts DEF Kept
<1>6. CASE Remove
  <2>1. data' = Absent /\ index' = <<>> /\ history' = <<>> /\ info' = NoInfo
    BY <1>6 DEF Remove
  <2> QED
    BY <2>1, AbsentFacts DEF Emptied
<1>7. CASE Tick \/ UNCHANGED vars
  BY <1>7 DEF Tick, vars, Kept
<1> QED
  BY <1>2, <1>3, <1>4, <1>5, <1>6, <1>7 DEF Next, Body

-----------------------------------------------------------------------------
(* The blocks stay blocks.                                                   *)

(* A sensor that has an hour has one that began after time 0, and a value    *)
(* that starts an hour starts a later one.                                   *)
LEMMA HourStarts ==
  ASSUME StoreInv, IsOpen, index # <<>>
  PROVE  /\ Len(index) \in 1 .. Len(index) /\ Last(index).hour \in Nat \ {0}
         /\ index[1].hour \in Nat \ {0} /\ index[1].hour <= Last(index).hour
         /\ info.startHour = ToTimeT(Last(index).hour, 0) /\ info.startHour > 0
         /\ info.minHour = index[1].hour /\ info.maxHour = Last(index).hour
         /\ info.indexSize = Len(index)
<1>1. /\ index \in Seq(EntryType) /\ InfoAgrees(info, index) /\ IndexShape(index, now)
  BY InvFacts DEF StoreInv, IsOpen
<1>2. Len(index) \in 1 .. Len(index) /\ 1 \in 1 .. Len(index)
  BY <1>1
<1>3. Last(index).hour \in Nat /\ index[1].hour \in Nat
  BY <1>1, <1>2, EntryFields DEF Last
<1>4. index[1].hour # 0 /\ Len(index) <= Last(index).hour - index[1].hour + 1
  BY <1>1 DEF IndexShape
<1>5. Last(index).hour \in Nat \ {0} /\ index[1].hour <= Last(index).hour
  BY <1>2, <1>3, <1>4
<1>6. \A h \in Nat \ {0} : ToTimeT(h, 0) > 0
  <2>1. \A h, s \in Nat \ {0} : h * s > 0
    OBVIOUS
  <2> QED
    BY <2>1, HourSecsAssumption DEF ToTimeT
<1> QED
  BY <1>1, <1>2, <1>3, <1>4, <1>5, <1>6 DEF InfoAgrees

LEMMA LaterHour ==
  ASSUME StoreInv, IsOpen, index # <<>>, NEW time \in Nat, StartsHour(time)
  PROVE  Last(index).hour < FromTimeT(time)
<1> DEFINE last == Last(index).hour
           hour == FromTimeT(time)
<1>1. last \in Nat /\ time - ToTimeT(last, 0) > HourSecs - 1
  BY HourStarts DEF StartsHour
<1>2. hour \in Nat /\ time < ToTimeT(hour, 0) + HourSecs /\ ToTimeT(hour, 0) \in Nat
  BY HourOfTime
<1> HIDE DEF last, hour
<1>3. ToTimeT(last, 0) \in Nat /\ HourSecs \in Nat
  BY <1>1, TimeTyped, HourSecsAssumption
<1>4. ToTimeT(last, 0) < ToTimeT(hour, 0)
  BY <1>1, <1>2, <1>3
<1> QED
  BY <1>1, <1>2, <1>4, HoursOrdered DEF last, hour

(* An offset of a new value is inside the hour.                              *)
LEMMA OffsetInHour ==
  ASSUME NEW time \in Nat
  PROVE  OffsetIn(FromTimeT(time), time) \in Nat /\ OffsetIn(FromTimeT(time), time) < HourSecs
<1>1. /\ FromTimeT(time) \in Nat /\ ToTimeT(FromTimeT(time), 0) \in Nat
      /\ time < ToTimeT(FromTimeT(time), 0) + HourSecs
      /\ OffsetIn(FromTimeT(time), time) \in Nat /\ HourSecs \in Nat
  BY HourOfTime, HourSecsAssumption
<1> QED
  BY <1>1 DEF OffsetIn

LEMMA NewHourBlocks ==
  ASSUME StoreInv, ContentInv, BlockInv, IsOpen, NEW time \in Nat, WriteInNewHour(time)
  PROVE  BlockInv'
<1> DEFINE c    == Contents(data)
           ce   == Contents(BlockEnd(info.startHour))
           hour == FromTimeT(time)
           off  == OffsetIn(hour, time)
<1>1. /\ c \in Seq(Cell) /\ c # <<>> /\ c[1].kind = "header" /\ Len(c) \in Nat \ {0}
      /\ data \in StreamType(Cell) /\ index \in Seq(EntryType) /\ info.startHour \in Nat
      /\ NextValue \in Nat
  <2>1. c # <<>> /\ c[1].kind = "header" /\ c \in Seq(Cell)
    BY InvFacts DEF StoreInv, LogShape, IsOpen
  <2>2. NextValue \in Nat
    BY InvFacts DEF NextValue
  <2> QED
    BY <2>1, <2>2, InvFacts
<1>2. Contents(data') = Append(Append(ce, HourCell(hour)), ValueCell(off, NextValue))
  BY NewHourWritten
<1>3. hour \in Nat /\ off \in Nat /\ off < HourSecs
  BY HourOfTime, OffsetInHour
<1>4. StartsHour(time) /\ index' = Append(index, Entry(hour, Tellp(BlockEnd(info.startHour))))
  BY DEF WriteInNewHour
<1>5. Blocks(c) /\ (index = <<>> => Len(c) <= 1) /\ EndsInLastHour(c, index)
  BY DEF BlockInv, ContentInv, Content
<1> HIDE DEF c, ce, hour, off
<1> DEFINE d == Append(Append(ce, HourCell(hour)), ValueCell(off, NextValue))
<1>6. ASSUME index = <<>> PROVE Blocks(d)
  <2>1. info.startHour = 0
    BY <1>6 DEF StoreInv, InfoAgrees, IsOpen
  <2>2. ce = c
    BY <2>1 DEF BlockEnd, c, ce
  <2>3. Len(c) = 1
    <3>1. Len(c) <= 1 /\ Len(c) \in Nat \ {0}
      BY <1>1, <1>5, <1>6
    <3>2. \A n \in Nat \ {0} : n <= 1 => n = 1
      OBVIOUS
    <3> QED
      BY <3>1, <3>2, Zenon
  <2>4. \A h \in 1 .. Len(c) : ~IsHour(c, h)
    BY <1>1, <2>3 DEF IsHour
  <2> QED
    BY <1>1, <1>3, <1>5, <2>2, <2>3, <2>4, BlockAppended
<1>7. ASSUME index # <<>> PROVE Blocks(d)
  <2>1. info.startHour > 0
    BY <1>7, HourStarts
  <2>2. ce = Append(c, EndLine)
    <3>1. EndLine \in Cell
      BY CellsMade
    <3>2. ce = Contents(Put(data, EndLine))
      BY <2>1 DEF BlockEnd, ce
    <3> HIDE DEF Cell, EndLine
    <3> QED
      BY <1>1, <3>1, <3>2, PutFacts DEF c
  <2>3. Len(c) >= 2
    BY <1>1, <1>7 DEF StoreInv, LogShape, c
  <2>4. ASSUME NEW h \in 1 .. Len(c), IsHour(c, h) PROVE c[h].hour < hour
    <3>1. Last(index).hour < hour /\ Last(index).hour \in Nat
      BY <1>4, <1>7, LaterHour, HourStarts DEF hour
    <3>2. c[h].hour \in Nat /\ c[h].hour <= Last(index).hour
      BY <1>1, <1>5, <1>7, <2>4, HoursInFile
    <3> QED
      BY <1>3, <3>1, <3>2
  <2>5. ce # c
    <3>1. Len(ce) = Len(c) + 1
      BY <1>1, <2>2, CellsMade
    <3> QED
      BY <1>1, <3>1
  <2> QED
    BY <1>1, <1>3, <1>5, <2>2, <2>3, <2>4, <2>5, BlockAppended
<1>8. Blocks(Contents(data'))
  BY <1>2, <1>6, <1>7
<1>9. index' # <<>>
  BY <1>1, <1>4
<1> QED
  BY <1>8, <1>9 DEF BlockInv

LEMMA SameHourBlocks ==
  ASSUME StoreInv, BlockInv, IsOpen, NEW time \in Nat, info.startHour <= time,
         HourSecs <= time, WriteInHour(time)
  PROVE  BlockInv' /\ index # <<>>
<1> DEFINE c   == Contents(data)
           off == time - info.startHour
           d   == Append(c, ValueCell(off, NextValue))
<1>1. /\ data \in StreamType(Cell) /\ c \in Seq(Cell) /\ info.startHour \in Nat
      /\ NextValue \in Nat
  <2>1. NextValue \in Nat
    BY InvFacts DEF NextValue
  <2> QED
    BY <2>1, InvFacts
<1>2. ~(time - info.startHour > HourSecs - 1) /\ data' = Put(data, ValueCell(off, NextValue))
      /\ index' = index
  BY DEF WriteInHour, StartsHour
<1>3. off \in Nat /\ off < HourSecs
  BY <1>1, <1>2, HourSecsAssumption
<1>4. index # <<>>
  <2>1. index = <<>> => info.startHour = 0
    BY DEF StoreInv, InfoAgrees, IsOpen
  <2> QED
    BY <1>2, <2>1, HourSecsAssumption
<1>5. Contents(data') = d
  <2>1. ValueCell(off, NextValue) \in Cell
    BY <1>1, <1>3, CellsMade
  <2> DEFINE cell == ValueCell(off, NextValue)
  <2> HIDE DEF cell
  <2> QED
    BY <1>1, <1>2, <2>1, PutFacts DEF cell
<1>6. Len(c) >= 2 /\ Blocks(c)
  BY <1>1, <1>4 DEF StoreInv, LogShape, BlockInv
<1> HIDE DEF c, off
<1>7. Blocks(d)
  BY <1>1, <1>3, <1>6, ValueInBlock
<1> QED
  BY <1>2, <1>4, <1>5, <1>7 DEF BlockInv

(* Files without an hour have no block.                                      *)
LEMMA NoBlocks ==
  /\ Blocks(<<>>)
  /\ \A type \in ValueTypes : Blocks(<<HeaderCell(type)>>)
<1>1. Blocks(<<>>)
  BY DEF Blocks, Values, Within
<1>2. ASSUME NEW type \in ValueTypes PROVE Blocks(<<HeaderCell(type)>>)
  <2> DEFINE c == <<HeaderCell(type)>>
  <2>1. Len(c) = 1 /\ c[1].kind = "header"
    BY DEF HeaderCell
  <2> HIDE DEF c
  <2>2. ~IsHour(c, 1) /\ ~IsEnd(c, 1) /\ ~IsValue(c, 1)
    BY <2>1 DEF IsHour, IsEnd, IsValue
  <2>3. Blocks(c)
    BY <2>1, <2>2 DEF Blocks, Values, Within
  <2> QED
    BY <2>3 DEF c
<1> QED
  BY <1>1, <1>2

LEMMA StepBlocks ==
  ASSUME StoreInv, ContentInv, BlockInv, [Next]_vars
  PROVE  BlockInv'
<1>1. CASE Kept
  BY <1>1 DEF Kept, BlockInv
<1>2. ASSUME NEW type \in Types, Created(type) PROVE BlockInv'
  <2>1. Len(<<HeaderCell(type)>>) <= 1 /\ type \in ValueTypes
    BY TypesAssumption
  <2> QED
    BY <1>2, <2>1, NoBlocks DEF Created, BlockInv
<1>3. CASE TimeOfWrite \in Nat /\ Written(TimeOfWrite)
  BY <1>3, NewHourBlocks, SameHourBlocks DEF Written, WriteTimeValue
<1>4. CASE Emptied
  BY <1>4, NoBlocks DEF Emptied, BlockInv
<1> QED
  BY <1>1, <1>2, <1>3, <1>4, FileSteps

(* Whatever is written and read, the data file is a list of blocks.          *)
THEOREM BlocksHold == Spec => []BlockInv
<1>1. Init => BlockInv
  BY AbsentFacts, NoBlocks DEF Init, BlockInv
<1>2. StoreInv /\ ContentInv /\ BlockInv /\ [Next]_vars => BlockInv'
  BY StepBlocks
<1> QED
  BY <1>1, <1>2, InvariantHolds, ContentHolds, PTL DEF Spec

-----------------------------------------------------------------------------
(* Reading an hour.                                                          *)

(* A value decodes to a time of the hour in force.                           *)
LEMMA ValueInHour ==
  ASSUME NEW c \in Seq(Cell), Blocks(c), NEW n, Ranked(c, n), NEW i \in Values(c)
  PROVE  /\ i \in 1 .. Len(c) /\ IsValue(c, i) /\ \E h \in 1 .. i : IsHour(c, h)
         /\ HourAt(c, i) \in Nat /\ c[i].offset \in Nat /\ c[i].offset < HourSecs
         /\ TimeAt(c, i) \in Nat /\ FromTimeT(TimeAt(c, i)) = HourAt(c, i)
<1>1. Len(c) \in Nat /\ i \in 1 .. Len(c) /\ IsValue(c, i)
  BY DEF Values, Within
<1>2. (\E h \in 1 .. i : IsHour(c, h)) /\ c[i].offset < HourSecs
  BY DEF Ranked, Blocks
<1>3. HourAt(c, i) \in Nat /\ c[i].offset \in Nat
  BY <1>1, <1>2, HourInForce, CellFields DEF IsValue
<1> DEFINE hour == HourAt(c, i)
           off  == c[i].offset
<1>4. hour \in Nat /\ off \in Nat /\ off < HourSecs /\ TimeAt(c, i) = ToTimeT(hour, off)
  BY <1>2, <1>3 DEF TimeAt
<1> HIDE DEF hour, off
<1>5. /\ ToTimeT(hour, 0) \in Nat /\ ToTimeT(hour, off) \in Nat
      /\ ToTimeT(hour, off) = ToTimeT(hour, 0) + off /\ HourSecs \in Nat
  BY <1>4, TimeTyped, HourSecsAssumption DEF ToTimeT
<1>6. /\ ToTimeT(hour, 0) <= ToTimeT(hour, off)
      /\ ToTimeT(hour, off) - ToTimeT(hour, 0) <= HourSecs - 1
  BY <1>4, <1>5
<1>7. FromTimeT(ToTimeT(hour, off)) = hour
  BY <1>4, <1>5, <1>6, HourUnique
<1> QED
  BY <1>1, <1>2, <1>3, <1>4, <1>5, <1>7 DEF hour

(* An end mark has an hour behind it, and only the first hour has none       *)
(* before it.                                                                *)
LEMMA EndsAndHours ==
  ASSUME NEW c \in Seq(Cell), Blocks(c)
  PROVE  /\ \A e \in 1 .. Len(c) : IsEnd(c, e) => e + 1 \in 2 .. Len(c) /\ IsHour(c, e + 1)
         /\ \A h \in 3 .. Len(c) : IsHour(c, h) => IsEnd(c, h - 1)
<1>1. ASSUME NEW e \in 1 .. Len(c), IsEnd(c, e)
      PROVE  e + 1 \in 2 .. Len(c) /\ IsHour(c, e + 1)
  <2>1. Len(c) \in Nat /\ e < Len(c)
    BY <1>1 DEF Blocks
  <2> DEFINE h == e + 1
  <2>2. h \in 2 .. Len(c) /\ h - 1 = e
    BY <2>1
  <2> HIDE DEF h
  <2>3. IsHour(c, h)
    BY <1>1, <2>2 DEF Blocks
  <2> QED
    BY <2>2, <2>3 DEF h
<1>2. ASSUME NEW h \in 3 .. Len(c), IsHour(c, h) PROVE IsEnd(c, h - 1)
  <2>1. h \in 2 .. Len(c) /\ h # 2
    BY <1>2
  <2> QED
    BY <1>2, <2>1 DEF Blocks
<1> QED
  BY <1>1, <1>2

(* The loop of an hour collects the values of that hour and no other.        *)
LEMMA BlockOfHour ==
  ASSUME NEW c \in Seq(Cell), c[1].kind = "header", Blocks(c), NEW n, Ranked(c, n),
         NEW p \in 1 .. Len(c), NEW hour \in Nat, c[p] = HourCell(hour)
  PROVE  /\ HourStop(c, p) \in 1 .. Len(c) + 1
         /\ Within(c, p, HourStop(c, p)) = {i \in Values(c) : HourAt(c, i) = hour}
<1> DEFINE stops == {i \in p + 1 .. Len(c) : IsEnd(c, i)}
           stop  == HourStop(c, p)
<1>1. Len(c) \in Nat /\ IsHour(c, p) /\ c[p].hour = hour /\ ~IsEnd(c, p)
  BY DEF IsHour, IsEnd, HourCell
<1>2. /\ stop \in 1 .. Len(c) + 1 /\ stop = FirstOf(c, stops)
      /\ stops # {} => stop \in stops /\ \A j \in stops : stop <= j
      /\ stops = {} => stop = Len(c) + 1
  <2>1. stops \in SUBSET (1 .. Len(c)) /\ stop = FirstOf(c, stops)
    BY <1>1 DEF HourStop
  <2>2. stops = {} => FirstOf(c, stops) = Len(c) + 1
    BY DEF FirstOf
  <2> HIDE DEF stops, stop
  <2> QED
    BY <1>1, <2>1, <2>2, FirstOfInFile
<1>3. \A e \in p + 1 .. Len(c) : IsEnd(c, e) => stop <= e
  BY <1>2
<1>4. stop \in p + 1 .. Len(c) + 1 /\ (stop <= Len(c) => IsEnd(c, stop))
  BY <1>1, <1>2
<1> HIDE DEF stop, stops
<1>5. ASSUME NEW i \in Within(c, p, stop) PROVE i \in Values(c) /\ HourAt(c, i) = hour
  <2>1. i \in p + 1 .. stop - 1 /\ i \in 1 .. Len(c) /\ IsValue(c, i)
    BY <1>1, <1>4 DEF Within
  <2>2. i \in Values(c)
    BY <1>1, <2>1 DEF Values, Within
  <2>3. PICK j \in p .. i : IsHour(c, j) /\ HourAt(c, i) = c[j].hour
    <3>1. i \in Nat /\ p \in 1 .. i
      BY <1>1, <2>1
    <3> QED
      BY <1>1, <3>1, HourFrom
  <2>4. j = p
    <3> SUFFICES ASSUME j # p PROVE FALSE
      OBVIOUS
    <3>1. p # 1
      BY <1>1 DEF IsHour
    <3>2. j \in 3 .. Len(c) /\ j - 1 \in p .. Len(c) /\ ~(stop <= j - 1)
      BY <1>1, <1>4, <2>1, <3>1
    <3>3. IsEnd(c, j - 1)
      BY <2>3, <3>2, EndsAndHours
    <3>4. j - 1 # p
      BY <1>1, <3>3
    <3>5. j - 1 \in p + 1 .. Len(c)
      BY <3>2, <3>4
    <3> QED
      BY <1>3, <3>2, <3>3, <3>5
  <2> QED
    BY <1>1, <2>2, <2>3, <2>4
<1>6. ASSUME NEW i \in Values(c), HourAt(c, i) = hour PROVE i \in Within(c, p, stop)
  <2>1. i \in 1 .. Len(c) /\ IsValue(c, i)
    BY <1>1, ValueInHour
  <2>2. PICK h \in 1 .. i : IsHour(c, h)
    BY ValueInHour
  <2>3. PICK j \in h .. i : /\ IsHour(c, j) /\ HourAt(c, i) = c[j].hour
                            /\ \A k \in j + 1 .. i : ~IsHour(c, k)
    <3>1. i \in Nat
      BY <2>1
    <3> QED
      BY <2>2, <3>1, HourFrom
  <2>4. j \in 1 .. Len(c) /\ j <= i
    BY <1>1, <2>1, <2>2, <2>3
  <2>5. j = p
    <3>1. c[j].hour = c[p].hour /\ c[p].hour \in Nat
      BY <1>1, <1>6, <2>3
    <3>2. ~(j < p) /\ ~(p < j)
      BY <1>1, <2>3, <2>4, <3>1 DEF Blocks
    <3> QED
      BY <2>4, <3>2
  <2>6. i # p
    BY <1>1, <2>1 DEF IsHour, IsValue
  <2>7. i \in p + 1 .. Len(c)
    BY <1>1, <2>1, <2>4, <2>5, <2>6
  <2>8. i < stop
    <3> SUFFICES ASSUME ~(i < stop) PROVE FALSE
      OBVIOUS
    <3>1. stop \in p + 1 .. Len(c) /\ stop <= i
      BY <1>4, <2>7
    <3>2. IsEnd(c, stop) /\ stop # i
      BY <1>4, <2>1, <3>1 DEF IsEnd, IsValue
    <3>3. stop \in 1 .. Len(c)
      BY <3>1
    <3>4. IsHour(c, stop + 1)
      BY <3>2, <3>3, EndsAndHours
    <3>5. stop + 1 \in j + 1 .. i
      BY <2>5, <2>7, <3>1, <3>2
    <3> QED
      BY <2>3, <3>4, <3>5
  <2>9. i \in p + 1 .. stop - 1
    BY <1>4, <2>7, <2>8
  <2> QED
    BY <2>1, <2>9 DEF Within
<1>7. Within(c, p, stop) = {i \in Values(c) : HourAt(c, i) = hour}
  BY <1>5, <1>6
<1> QED
  BY <1>2, <1>7 DEF stop

(* What is decoded from the file are the accepted values.                    *)
LEMMA DecodedIsHistory ==
  ASSUME StoreInv, ContentInv, BlockInv
  PROVE  LET c == Contents(data) IN
         /\ c \in Seq(Cell) /\ Len(c) \in Nat /\ Blocks(c) /\ Ranked(c, Len(history))
         /\ {Stamped(c, i) : i \in Values(c)} = {history[k] : k \in 1 .. Len(history)}
         /\ c # <<>> => c[1].kind = "header"
<1> DEFINE c == Contents(data)
<1>1. c \in Seq(Cell) /\ Len(c) \in Nat /\ Blocks(c)
  BY InvFacts DEF BlockInv
<1>2. c # <<>> => c[1].kind = "header"
  BY DEF StoreInv, LogShape
<1>3. Ranked(c, Len(history)) /\ Decoded(c) = Members(history)
  BY DEF ContentInv, Content
<1> HIDE DEF c
<1> QED
  BY <1>1, <1>2, <1>3 DEF c, Decoded, Members

LEMMA NoneAnswered == NoAnswer.call.op = "Idle" /\ NoAnswer.ok = TRUE /\ NoAnswer.values = {}
<1>1. NoAnswer.call = Idle /\ NoAnswer.ok = TRUE /\ NoAnswer.values = {}
  BY DEF NoAnswer
<1>2. Idle.op = "Idle"
  BY DEF Idle
<1> QED
  BY <1>1, <1>2

AnswerFor(c, ok, values) == answer'.call = c /\ answer'.ok = ok /\ answer'.values = values

LEMMA AnswerGiven ==
  /\ \A ok, error, values : Return(ok, error, values) => AnswerFor(call, ok, values)
  /\ \A c, error : Refuse(c, error) => AnswerFor(c, FALSE, {})
  /\ \A c : Admit(c) => AnswerFor(Idle, TRUE, {})
<1>1. ASSUME NEW ok, NEW error, NEW values, Return(ok, error, values)
      PROVE  AnswerFor(call, ok, values)
  BY <1>1 DEF Return, Answer, AnswerFor
<1>2. ASSUME NEW c, NEW error, Refuse(c, error) PROVE AnswerFor(c, FALSE, {})
  BY <1>2 DEF Refuse, Answer, AnswerFor
<1>3. ASSUME NEW c, Admit(c) PROVE AnswerFor(Idle, TRUE, {})
  BY <1>3 DEF Admit, NoAnswer, Answer, AnswerFor
<1> QED
  BY <1>1, <1>2, <1>3

NoReadAnswered == answer'.ok => answer'.call.op \notin {"ReadHour", "ReadRange"}

LEMMA AnswerSteps ==
  ASSUME StoreInv, [Next]_vars
  PROVE  \/ UNCHANGED <<answer, history>>
         \/ ReadHour
         \/ ReadRange
         \/ NoReadAnswered
<1>1. Idle.op = "Idle"
  BY DEF Idle
<1>2. CASE GetFilesInfo
  <2>1. PICK c \in Calls : \/ \E type : CheckType(c, type)
                           \/ \E error : Refuse(c, error)
                           \/ Admit(c)
    BY <1>2 DEF GetFilesInfo, UseOpenFiles, OpenFiles, OpenFilesFails, NoFile, CreateFiles
  <2>2. Admit(c) \/ \E error : Refuse(c, error)
    BY <2>1 DEF CheckType
  <2> QED
    BY <1>1, <2>2, AnswerGiven DEF NoReadAnswered, AnswerFor
<1>3. CASE WriteNow \/ WriteOld \/ WriteTime
  <2>1. call.op \in WriteOps
    BY <1>3, WriteReached
  <2>2. \E ok, error, values : Return(ok, error, values)
    BY <1>3 DEF WriteNow, WriteOld, WriteTime, WriteDated, WriteTimeValue
  <2>3. answer'.call = call
    BY <2>2, AnswerGiven DEF AnswerFor
  <2> QED
    BY <2>1, <2>3 DEF NoReadAnswered, WriteOps
<1>4. CASE ReadLastValue \/ GetSensorInfo
  <2>1. call.op \in {"ReadLastValue", "GetSensorInfo"}
    BY <1>4 DEF ReadLastValue, GetSensorInfo
  <2>2. \E ok, error, values : Return(ok, error, values)
    BY <1>4 DEF ReadLastValue, GetSensorInfo, ReadMiss, ReadMismatch
  <2>3. answer'.call = call
    BY <2>2, AnswerGiven DEF AnswerFor
  <2> QED
    BY <2>1, <2>3 DEF NoReadAnswered
<1>5. CASE CloseSensor
  BY <1>1, <1>5 DEF CloseSensor, NoAnswer, Answer, NoReadAnswered
<1>6. CASE Remove
  BY <1>6 DEF Remove, Answer, NoReadAnswered
<1>7. CASE Tick \/ UNCHANGED vars
  BY <1>7 DEF Tick, vars
<1> QED
  BY <1>2, <1>3, <1>4, <1>5, <1>6, <1>7 DEF Next, Body

(* The header the index leads to.                                            *)
LEMMA LeadsFacts ==
  ASSUME StoreInv, NEW pos \in Nat, NEW hour, LeadsTo(pos, hour)
  PROVE  /\ pos + 1 \in 1 .. Len(Contents(data)) /\ Contents(data)[pos + 1] = HourCell(hour)
         /\ Contents(data) # <<>> /\ Contents(data)[1].kind = "header"
<1>1. Contents(data) \in Seq(Cell) /\ Len(Contents(data)) \in Nat
  BY InvFacts
<1>2. pos + 1 \in 1 .. Len(Contents(data)) /\ Contents(data)[pos + 1] = HourCell(hour)
  BY <1>1 DEF LeadsTo, HasCell, CellAt
<1>3. Contents(data) # <<>>
  BY <1>1, <1>2
<1> QED
  BY <1>2, <1>3 DEF StoreInv, LogShape

(* What the loop of an hour collects is the whole hour.                      *)
LEMMA HourCollected ==
  ASSUME StoreInv, ContentInv, BlockInv, NEW hour \in Nat, NEW pos \in Nat,
         LeadsTo(pos, hour)
  PROVE  {Stamped(Contents(data), i) :
            i \in Within(Contents(data), pos + 1, HourStop(Contents(data), pos + 1))} =
           {v \in Members(history) : FromTimeT(v.time) = hour}
<1> DEFINE c    == Contents(data)
           stop == HourStop(c, pos + 1)
           read == {Stamped(c, i) : i \in Within(c, pos + 1, stop)}
<1>1. /\ c \in Seq(Cell) /\ Len(c) \in Nat /\ Blocks(c) /\ Ranked(c, Len(history))
      /\ {Stamped(c, i) : i \in Values(c)} = Members(history)
  BY DecodedIsHistory DEF Members
<1>2. pos + 1 \in 1 .. Len(c) /\ c[pos + 1] = HourCell(hour) /\ c[1].kind = "header"
  BY LeadsFacts
<1> HIDE DEF c
<1>3. Within(c, pos + 1, stop) = {i \in Values(c) : HourAt(c, i) = hour}
  BY <1>1, <1>2, BlockOfHour
<1>4. \A i \in Values(c) : FromTimeT(TimeAt(c, i)) = HourAt(c, i)
  BY <1>1, ValueInHour
<1>5. \A i \in Values(c) : Stamped(c, i).time = TimeAt(c, i)
  BY DEF Stamped
<1>6. read = {v \in {Stamped(c, i) : i \in Values(c)} : FromTimeT(v.time) = hour}
  <2> HIDE DEF stop
  <2> QED
    BY <1>3, <1>4, <1>5
<1> QED
  BY <1>1, <1>6 DEF c

(* The hour that was read is the whole hour.                                 *)
LEMMA ReadHourSound ==
  ASSUME StoreInv, ContentInv, BlockInv, ReadHour
  PROVE  HourReadSound'
<1> DEFINE c    == Contents(data)
           pos  == FindHour(call.hour)
           stop == HourStop(c, pos + 1)
           read == {Stamped(c, i) : i \in Within(c, pos + 1, stop)}
           hour == call.hour
<1>1. call.op = "ReadHour" /\ history' = history
  BY DEF ReadHour
<1>2. IsOpen /\ index # <<>> /\ call \in CallType /\ hour \in Nat
  <2>1. IsOpen /\ index # <<>> /\ call \in CallType
    BY <1>1, ReadsOpen, InvFacts DEF ReadOps
  <2> QED
    BY <1>1, <2>1 DEF CallType
<1>3. pos \in Nat
  BY <1>2, FoundInFile
<1>4. CASE ReadMiss \/ ReadMismatch(pos)
  BY <1>4, AnswerGiven DEF ReadMiss, ReadMismatch, AnswerFor, HourReadSound
<1>5. CASE LeadsTo(pos, hour) /\ Return(TRUE, "", read)
  <2>1. answer'.call = call /\ answer'.values = read
    BY <1>5, AnswerGiven DEF AnswerFor
  <2>2. answer'.values = {v \in Members(history) : FromTimeT(v.time) = hour}
    BY <1>2, <1>3, <1>5, <2>1, HourCollected
  <2>3. WantedHour' = answer'.values
    BY <1>1, <2>1, <2>2 DEF WantedHour, Accepted, Members
  <2> QED
    BY <2>3 DEF HourReadSound
<1> QED
  BY <1>4, <1>5 DEF ReadHour

(* ReadValues for an hour answers with the whole hour or with nothing, even  *)
(* when reads have left the stream anywhere and entries lead elsewhere: the  *)
(* hour header it checks and the end mark it stops at delimit the block.     *)
THEOREM HourReadAlwaysSound == Spec => []HourReadSound
<1>1. Init => HourReadSound
  BY NoneAnswered DEF Init, HourReadSound
<1>2. StoreInv /\ ContentInv /\ BlockInv /\ HourReadSound /\ [Next]_vars => HourReadSound'
  <2> SUFFICES ASSUME StoreInv, ContentInv, BlockInv, HourReadSound, [Next]_vars
               PROVE  HourReadSound'
    OBVIOUS
  <2>1. CASE UNCHANGED <<answer, history>>
    BY <2>1 DEF HourReadSound, WantedHour, Accepted
  <2>2. CASE ReadHour
    BY <2>2, ReadHourSound
  <2>3. CASE ReadRange
    <3>1. call.op = "ReadRange" /\ \E ok, error, values : Return(ok, error, values)
      BY <2>3 DEF ReadRange, ReadMiss, ReadMismatch
    <3> QED
      BY <3>1, AnswerGiven DEF AnswerFor, HourReadSound
  <2>4. CASE NoReadAnswered
    BY <2>4 DEF NoReadAnswered, HourReadSound
  <2> QED
    BY <2>1, <2>2, <2>3, <2>4, AnswerSteps
<1> QED
  BY <1>1, <1>2, InvariantHolds, ContentHolds, BlocksHold, PTL DEF Spec

-----------------------------------------------------------------------------
(* The order of the accepted values.                                         *)

(* A value has its rank in the history, and a time the clock has shown.      *)
DatedInv == \A k \in 1 .. Len(history) : history[k].value = k /\ history[k].time <= now

(* The type of an open sensor is the one in its header, written by a caller. *)
KindInv ==
  /\ Contents(data) # <<>> => Contents(data)[1].type \in Types
  /\ IsOpen => info.type = Contents(data)[1].type

LEMMA ClockGrows ==
  ASSUME StoreInv, [Next]_vars
  PROVE  now \in Nat /\ now' \in Nat /\ now <= now'
<1>1. now \in Nat
  BY InvFacts
<1>2. now' \in {now, now + 1}
  <2>1. CASE GetFilesInfo \/ Body \/ CloseSensor \/ Remove \/ UNCHANGED vars
    BY <2>1 DEF GetFilesInfo, Body, WriteNow, WriteOld, WriteTime, ReadHour, ReadRange,
                ReadLastValue, GetSensorInfo, CloseSensor, Remove, vars
  <2>2. CASE Tick
    BY <2>2 DEF Tick
  <2> QED
    BY <2>1, <2>2 DEF Next
<1> QED
  BY <1>1, <1>2

LEMMA HistoryTyped ==
  ASSUME StoreInv
  PROVE  /\ history \in Seq(ValueType) /\ Len(history) \in Nat
         /\ \A k \in 1 .. Len(history) : history[k].time \in Nat /\ history[k].value \in Nat
<1>1. history \in Seq(ValueType) /\ Len(history) \in Nat
  BY InvFacts
<1>2. \A k \in 1 .. Len(history) : history[k] \in ValueType
  BY <1>1
<1>3. \A v \in ValueType : v.time \in Nat /\ v.value \in Nat
  BY DEF ValueType
<1> QED
  BY <1>1, <1>2, <1>3

LEMMA WrittenHistory ==
  ASSUME StoreInv, NEW time \in Nat, Written(time)
  PROVE  /\ history \in Seq(ValueType) /\ Len(history) \in Nat
         /\ Len(history') = Len(history) + 1
         /\ \A k \in 1 .. Len(history) : history'[k] = history[k]
         /\ history'[Len(history) + 1] = [time |-> time, value |-> Len(history) + 1]
<1> DEFINE v == [time |-> time, value |-> Len(history) + 1]
<1>1. history \in Seq(ValueType) /\ Len(history) \in Nat
  BY InvFacts
<1>2. v \in ValueType /\ history' = Append(history, v)
  <2>1. Len(history) + 1 \in Nat
    BY <1>1
  <2>2. v \in ValueType
    BY <2>1 DEF ValueType
  <2>3. history' = Append(history, v)
    BY DEF Written, WriteTimeValue, NextValue
  <2> QED
    BY <2>2, <2>3
<1> HIDE DEF v
<1>3. /\ Len(history') = Len(history) + 1
      /\ \A k \in 1 .. Len(history) : history'[k] = history[k]
      /\ history'[Len(history) + 1] = v
  BY <1>1, <1>2
<1> QED
  BY <1>1, <1>3 DEF v

LEMMA StepDated ==
  ASSUME StoreInv, DatedInv, [Next]_vars
  PROVE  DatedInv'
<1>1. now \in Nat /\ now' \in Nat /\ now <= now'
  BY ClockGrows
<1>2. \A k \in 1 .. Len(history) : history[k].time \in Nat
  BY HistoryTyped
<1>3. CASE UNCHANGED history
  BY <1>1, <1>2, <1>3 DEF DatedInv
<1>4. CASE TimeOfWrite \in Nat /\ Written(TimeOfWrite)
  <2> DEFINE n == Len(history)
  <2>1. /\ n \in Nat /\ Len(history') = n + 1
        /\ \A k \in 1 .. n : history'[k] = history[k]
        /\ history'[n + 1] = [time |-> TimeOfWrite, value |-> n + 1]
    BY <1>4, WrittenHistory
  <2>2. TimeOfWrite <= now /\ TimeOfWrite \in Nat
    BY <1>4 DEF Written
  <2> HIDE DEF n
  <2>3. ASSUME NEW k \in 1 .. n + 1 PROVE history'[k].value = k /\ history'[k].time <= now'
    <3>1. CASE k = n + 1
      BY <1>1, <2>1, <2>2, <3>1
    <3>2. CASE k \in 1 .. n
      BY <1>1, <1>2, <2>1, <3>2 DEF DatedInv, n
    <3> QED
      BY <2>1, <3>1, <3>2
  <2> QED
    BY <2>1, <2>3 DEF DatedInv
<1>5. CASE Emptied
  BY <1>5 DEF Emptied, DatedInv
<1> QED
  BY <1>3, <1>4, <1>5, FileSteps DEF Kept, Created

(* The offset a write leaves in FilesInfo is that of the last cell.          *)
LEMMA WriteEffect ==
  ASSUME StoreInv, NEW time \in Nat, Written(time)
  PROVE  LET d == Contents(data') IN
         /\ Contents(data) # <<>> /\ d # <<>> /\ d[1] = Contents(data)[1]
         /\ d[Len(d)].offset = info'.maxOffset
         /\ info' # NoInfo /\ info'.type = info.type /\ index' # <<>>
<1> DEFINE c == Contents(data)
           d == Contents(data')
<1>1. /\ IsOpen /\ c \in Seq(Cell) /\ c # <<>> /\ data \in StreamType(Cell)
      /\ index \in Seq(EntryType) /\ NextValue \in Nat /\ info.type \in ValueTypes
  <2>1. NextValue \in Nat
    BY InvFacts DEF NextValue
  <2> QED
    BY <2>1, InvFacts DEF Written, StoreInv, LogShape, IsOpen
<1>2. \A type, startHour, minHour, maxHour, maxOffset, indexSize :
        LET f == FilesInfo(type, startHour, minHour, maxHour, maxOffset, indexSize) IN
        f.type = type /\ f.maxOffset = maxOffset
  BY InfoFields
<1>3. ASSUME WriteInNewHour(time)
      PROVE  /\ d # <<>> /\ d[1] = c[1] /\ d[Len(d)].offset = info'.maxOffset
             /\ info'.type = info.type /\ index' # <<>>
  <2> DEFINE hour == FromTimeT(time)
             off  == OffsetIn(hour, time)
             ce   == Contents(BlockEnd(info.startHour))
             x    == HourCell(hour)
             y    == ValueCell(off, NextValue)
  <2>1. ce \in {c, Append(c, EndLine)} /\ d = Append(Append(ce, x), y)
    BY <1>1, <1>3, NewHourWritten
  <2>2. hour \in Nat /\ off \in Nat
    BY HourOfTime
  <2>3. x \in Cell /\ y \in Cell /\ y.offset = off /\ EndLine \in Cell
    BY <1>1, <2>2, CellsMade DEF ValueCell
  <2>4. info'.type = info.type /\ info'.maxOffset = off
    BY <1>2, <1>3 DEF WriteInNewHour
  <2>5. index' # <<>>
    <3>1. index' = Append(index, Entry(hour, Tellp(BlockEnd(info.startHour))))
      BY <1>3 DEF WriteInNewHour
    <3> QED
      BY <1>1, <3>1
  <2> HIDE DEF c, d, ce, x, y, off, hour, EndLine
  <2>6. ce \in Seq(Cell) /\ ce # <<>> /\ ce[1] = c[1]
    <3>1. c \in Seq(Cell) /\ c # <<>> /\ EndLine \in Cell
      BY <1>1, <2>3
    <3>2. /\ Append(c, EndLine) \in Seq(Cell) /\ Append(c, EndLine) # <<>>
          /\ Append(c, EndLine)[1] = c[1]
      BY <3>1, CellsGrow
    <3> QED
      BY <2>1, <3>1, <3>2
  <2>7. /\ d[1] = ce[1] /\ Len(d) = Len(ce) + 2 /\ d[Len(ce) + 2] = y /\ Len(ce) \in Nat
    BY <2>1, <2>3, <2>6, CellsGrow
  <2>8. d # <<>>
    BY <2>7
  <2> QED
    BY <2>3, <2>4, <2>5, <2>6, <2>7, <2>8
<1>4. ASSUME WriteInHour(time)
      PROVE  /\ d # <<>> /\ d[1] = c[1] /\ d[Len(d)].offset = info'.maxOffset
             /\ info'.type = info.type /\ index' # <<>>
  <2> DEFINE off == time - info.startHour
             y   == ValueCell(off, NextValue)
  <2>1. info.startHour \in Nat /\ off \in Nat
    BY InvFacts DEF Written
  <2>2. y \in Cell /\ y.offset = off
    BY <1>1, <2>1, CellsMade DEF ValueCell
  <2>3. info'.type = info.type /\ info'.maxOffset = off /\ index' = index /\ data' = Put(data, y)
    BY <1>2, <1>4 DEF WriteInHour
  <2>4. index # <<>>
    <3>1. index = <<>> => info.startHour = 0
      BY <1>1 DEF StoreInv, InfoAgrees, IsOpen
    <3>2. time - info.startHour <= HourSecs - 1 /\ HourSecs <= time
      BY <1>4, <2>1, HourSecsAssumption DEF WriteInHour, StartsHour, Written
    <3> QED
      BY <3>1, <3>2, HourSecsAssumption
  <2> HIDE DEF y, off
  <2>5. d = Append(c, y)
    BY <1>1, <2>2, <2>3, PutFacts
  <2> HIDE DEF c, d
  <2>6. d[1] = c[1] /\ Len(d) = Len(c) + 1 /\ d[Len(c) + 1] = y /\ d # <<>>
    BY <1>1, <2>2, <2>5, CellsGrow DEF c
  <2> QED
    BY <2>2, <2>3, <2>4, <2>6
<1>5. /\ d # <<>> /\ d[1] = c[1] /\ d[Len(d)].offset = info'.maxOffset
      /\ info'.type = info.type /\ index' # <<>>
  BY <1>3, <1>4 DEF Written, WriteTimeValue
<1>6. info' # NoInfo
  BY <1>1, <1>5 DEF NoInfo, FilesInfo, ValueTypes
<1> QED
  BY <1>1, <1>5, <1>6

LEMMA OpenedFacts ==
  ASSUME NEW c, OpenFiles(c)
  PROVE  /\ ~IsOpen /\ info'.type = Contents(data)[1].type
         /\ info'.maxOffset \in TailOffsets(Contents(data))
  BY InfoFields DEF OpenFiles, OpenedInfo

LEMMA StepKind ==
  ASSUME StoreInv, KindInv, [Next]_vars
  PROVE  KindInv'
<1>1. CASE Kept
  <2>1. CASE info' \in {info, NoInfo}
    BY <1>1, <2>1 DEF Kept, KindInv, IsOpen
  <2>2. ASSUME NEW c \in Calls, OpenFiles(c) PROVE KindInv'
    BY <1>1, <2>2, OpenedFacts DEF Kept, KindInv
  <2> QED
    BY <1>1, <2>1, <2>2 DEF Kept
<1>2. ASSUME NEW type \in Types, Created(type) PROVE KindInv'
  <2>1. <<HeaderCell(type)>>[1].type = type
    BY DEF HeaderCell
  <2>2. info'.type = type /\ Contents(data')[1].type = type
    BY <1>2, <2>1, InfoFields DEF Created
  <2> QED
    BY <2>2 DEF KindInv
<1>3. CASE TimeOfWrite \in Nat /\ Written(TimeOfWrite)
  <2>1. IsOpen
    BY <1>3 DEF Written
  <2> QED
    BY <1>3, <2>1, WriteEffect DEF KindInv
<1>4. CASE Emptied
  BY <1>4 DEF Emptied, KindInv, IsOpen
<1> QED
  BY <1>1, <1>2, <1>3, <1>4, FileSteps

(* The last cell is the last accepted value.                                 *)
LEMMA LastLogged ==
  ASSUME StoreInv, ContentInv, DatedInv, index # <<>>
  PROVE  LET c == Contents(data) IN
         /\ Len(c) \in Values(c)
         /\ history # <<>> /\ Len(history) \in 1 .. Len(history)
         /\ Stamped(c, Len(c)) = Last(history)
<1> DEFINE c == Contents(data)
           m == Len(c)
           n == Len(history)
<1>1. c \in Seq(Cell) /\ m \in Nat /\ m >= 3 /\ IsValue(c, m)
  BY InvFacts DEF StoreInv, LogShape
<1>2. /\ history \in Seq(ValueType) /\ n \in Nat
      /\ \A k \in 1 .. n : history[k].value = k
  BY HistoryTyped DEF DatedInv
<1>3. /\ {Stamped(c, i) : i \in Values(c)} = {history[k] : k \in 1 .. n}
      /\ \A i \in Values(c), j \in Values(c) : i < j => c[i].value < c[j].value
  BY DEF ContentInv, Content, Decoded, Members, Ranked
<1> HIDE DEF c, n
<1>4. \A i \in Values(c) : i \in 1 .. m /\ Stamped(c, i).value = c[i].value
  BY <1>1 DEF Values, Within, Stamped
<1>5. m \in Values(c)
  BY <1>1 DEF Values, Within
<1>6. PICK k \in 1 .. n : history[k] = Stamped(c, m)
  BY <1>3, <1>5
<1>7. c[m].value = k /\ n \in 1 .. n
  BY <1>2, <1>4, <1>5, <1>6
<1>8. PICK i \in Values(c) : Stamped(c, i) = history[n]
  BY <1>3, <1>7
<1>9. c[i].value = n /\ i \in 1 .. m
  BY <1>2, <1>4, <1>7, <1>8
<1>10. i = m
  <2>1. i < m => n < k
    BY <1>3, <1>5, <1>7, <1>9
  <2> QED
    BY <1>1, <1>2, <1>6, <1>9, <2>1
<1>11. history # <<>>
  BY <1>7 DEF n
<1> QED
  BY <1>5, <1>7, <1>8, <1>10, <1>11 DEF Last, c, m, n

-----------------------------------------------------------------------------
(* Types whose record fits the step back of openDataFile.                    *)

FourByteTypes == Types \subseteq {"Float", "Int"}

(* What FilesInfo knows of the last value is what the file says of it.       *)
TailInv ==
  IsOpen /\ index # <<>> => info.maxOffset = Contents(data)[Len(Contents(data))].offset

Ordered == \A j, k \in 1 .. Len(history) : j < k => history[j].time <= history[k].time

LEMMA StepTail ==
  ASSUME StoreInv, KindInv, TailInv, FourByteTypes, [Next]_vars
  PROVE  TailInv'
<1>1. CASE Kept
  <2>1. CASE info' \in {info, NoInfo}
    BY <1>1, <2>1 DEF Kept, TailInv, IsOpen
  <2>2. ASSUME NEW c \in Calls, OpenFiles(c), index # <<>>
        PROVE  info'.maxOffset = Contents(data)[Len(Contents(data))].offset
    <3>1. Contents(data) # <<>>
      BY <2>2, InvFacts DEF StoreInv, LogShape
    <3>2. Contents(data)[1].type \in {"Float", "Int"}
      BY <3>1 DEF KindInv, FourByteTypes
    <3>3. info'.maxOffset \in TailOffsets(Contents(data))
      BY <2>2, OpenedFacts
    <3> QED
      BY <3>2, <3>3 DEF TailOffsets
  <2> QED
    BY <1>1, <2>1, <2>2 DEF Kept, TailInv
<1>2. ASSUME NEW type \in Types, Created(type) PROVE TailInv'
  BY <1>2 DEF Created, TailInv
<1>3. CASE TimeOfWrite \in Nat /\ Written(TimeOfWrite)
  BY <1>3, WriteEffect DEF TailInv
<1>4. CASE Emptied
  BY <1>4 DEF Emptied, TailInv
<1> QED
  BY <1>1, <1>2, <1>3, <1>4, FileSteps

(* The last time, as the rule of writeTimeValue computes it.                 *)
LEMMA LastTime ==
  ASSUME StoreInv, ContentInv, DatedInv, TailInv, IsOpen
  PROVE  /\ index = <<>> <=> history = <<>>
         /\ index = <<>> <=> info.maxHour = 0
         /\ index # <<>> => /\ Last(history).time = ToTimeT(info.maxHour, info.maxOffset)
                            /\ Last(history).time \in Nat
<1>1. index \in Seq(EntryType) /\ Len(index) \in Nat
  BY InvFacts
<1>2. CASE index = <<>>
  <2>1. info.maxHour = 0
    BY <1>2 DEF StoreInv, InfoAgrees, IsOpen
  <2>2. IndexHours(<<>>) = {}
    BY DEF IndexHours
  <2>3. HoursOf(history) = {}
    BY <1>2, <2>2 DEF ContentInv, Content
  <2>4. history = <<>>
    <3>1. history \in Seq(ValueType) /\ Len(history) \in Nat
      BY HistoryTyped
    <3>2. ~(1 \in 1 .. Len(history))
      BY <2>3 DEF HoursOf
    <3> QED
      BY <3>1, <3>2
  <2> QED
    BY <1>2, <2>1, <2>4
<1>3. CASE index # <<>>
  <2> DEFINE c == Contents(data)
  <2>1. Last(index).hour \in Nat \ {0} /\ info.maxHour = Last(index).hour
    BY <1>3, HourStarts
  <2>2. /\ history # <<>> /\ Len(history) \in 1 .. Len(history)
        /\ Stamped(c, Len(c)) = Last(history)
    BY <1>3, LastLogged
  <2>3. HourAt(c, Len(c)) = Last(index).hour
    BY <1>3 DEF ContentInv, Content, EndsInLastHour
  <2>4. info.maxOffset = c[Len(c)].offset
    BY <1>3 DEF TailInv
  <2>5. Last(history).time = ToTimeT(info.maxHour, info.maxOffset)
    BY <2>1, <2>2, <2>3, <2>4 DEF Stamped, TimeAt
  <2>6. Last(history).time \in Nat
    BY <2>2, HistoryTyped DEF Last
  <2> QED
    BY <1>3, <2>1, <2>2, <2>5, <2>6
<1> QED
  BY <1>2, <1>3

(* A write that is let through is at least as recent as every value.         *)
LEMMA WrittenLater ==
  ASSUME StoreInv, ContentInv, DatedInv, TailInv, Ordered,
         TimeOfWrite \in Nat, Written(TimeOfWrite), NEW k \in 1 .. Len(history)
  PROVE  history[k].time <= TimeOfWrite
<1> DEFINE n == Len(history)
<1>1. n \in Nat /\ n \in 1 .. n /\ history # <<>> /\ history[k].time \in Nat
  BY HistoryTyped
<1>2. CASE call.op = "WriteValue"
  BY <1>2 DEF TimeOfWrite, DatedInv
<1>3. CASE call.op # "WriteValue"
  <2>1. IsOpen /\ ~HasMoreRecent(TimeOfWrite)
    BY <1>3 DEF Written, LetThrough
  <2>2. info.maxHour \in Nat /\ info.maxHour # 0 /\ Last(history).time \in Nat
        /\ Last(history).time = ToTimeT(info.maxHour, info.maxOffset)
    BY <1>1, <2>1, InvFacts, LastTime
  <2>3. ~(TimeOfWrite <= Last(history).time)
    BY <2>1, <2>2 DEF HasMoreRecent
  <2>4. history[k].time <= Last(history).time
    BY <1>1, <2>2 DEF Ordered, Last
  <2> HIDE DEF TimeOfWrite
  <2> QED
    BY <1>1, <2>2, <2>3, <2>4
<1> QED
  BY <1>2, <1>3

LEMMA StepOrdered ==
  ASSUME StoreInv, ContentInv, DatedInv, TailInv, Ordered, [Next]_vars
  PROVE  Ordered'
<1>1. CASE UNCHANGED history
  BY <1>1 DEF Ordered
<1>2. CASE TimeOfWrite \in Nat /\ Written(TimeOfWrite)
  <2> DEFINE n == Len(history)
  <2>1. /\ n \in Nat /\ Len(history') = n + 1
        /\ \A k \in 1 .. n : history'[k] = history[k]
        /\ history'[n + 1].time = TimeOfWrite
    <3>1. history'[n + 1] = [time |-> TimeOfWrite, value |-> n + 1]
      BY <1>2, WrittenHistory
    <3>2. history'[n + 1].time = TimeOfWrite
      BY <3>1
    <3> QED
      BY <1>2, <3>2, WrittenHistory
  <2>2. \A k \in 1 .. n : history[k].time <= TimeOfWrite
    BY <1>2, WrittenLater
  <2> HIDE DEF n
  <2>3. ASSUME NEW j \in 1 .. n + 1, NEW k \in 1 .. n + 1, j < k
        PROVE  history'[j].time <= history'[k].time
    <3>1. j \in 1 .. n
      BY <2>1, <2>3
    <3>2. CASE k = n + 1
      BY <2>1, <2>2, <3>1, <3>2
    <3>3. CASE k \in 1 .. n
      BY <2>1, <2>3, <3>1, <3>3 DEF Ordered, n
    <3> QED
      BY <2>1, <3>2, <3>3
  <2> QED
    BY <2>1, <2>3 DEF Ordered
<1>3. CASE Emptied
  BY <1>3 DEF Emptied, Ordered
<1> QED
  BY <1>1, <1>2, <1>3, FileSteps DEF Kept, Created

(* What is known of the accepted values and of the last of them.             *)
OrderInv == KindInv /\ DatedInv /\ TailInv /\ Ordered

LEMMA StepOrder ==
  ASSUME StoreInv, ContentInv, OrderInv, FourByteTypes, [Next]_vars
  PROVE  OrderInv'
  BY StepKind, StepDated, StepTail, StepOrdered DEF OrderInv

(* internalWriteTimeValue (lines 201-204) compares with the last value of    *)
(* the file, also after openDataFile: the log is in order of time.           *)
THEOREM OrderHolds ==
  ASSUME FourByteTypes
  PROVE  Spec => []OrderInv
<1>1. Init => OrderInv
  BY AbsentFacts DEF Init, OrderInv, KindInv, DatedInv, TailInv, Ordered, IsOpen
<1>2. StoreInv /\ ContentInv /\ OrderInv /\ [Next]_vars => OrderInv'
  BY StepOrder
<1> QED
  BY <1>1, <1>2, InvariantHolds, ContentHolds, PTL DEF Spec

(* WriteOldValue and WriteTimeValue accept a value exactly when none at      *)
(* least as recent was accepted, also after a close and an open: what        *)
(* openDataFile finds at the end of the file is the last value.              *)
THEOREM MoreRecentRuleKept ==
  ASSUME FourByteTypes
  PROVE  Spec => MoreRecentRule
<1> DEFINE Rule == call.op \in {"WriteOldValue", "WriteTimeValue"} /\ call' = Idle =>
                     (answer'.ok <=> history = <<>> \/ CallTime > Last(history).time)
<1>1. StoreInv /\ ContentInv /\ OrderInv /\ [Next]_vars => [Rule]_vars
  <2> SUFFICES ASSUME StoreInv, ContentInv, OrderInv, Next,
                      call.op \in {"WriteOldValue", "WriteTimeValue"}, call' = Idle
               PROVE  answer'.ok <=> history = <<>> \/ CallTime > Last(history).time
    OBVIOUS
  <2>1. call # Idle
    BY DEF Idle
  <2>2. WriteOld \/ WriteTime
    BY <2>1 DEF Next, GetFilesInfo, Body, WriteNow, ReadHour, ReadRange, ReadLastValue,
                GetSensorInfo, CloseSensor, Remove, Tick
  <2>3. /\ IsOpen /\ CallTime \in Nat
        /\ \/ RefusedByRule(CallTime)
           \/ ~HasMoreRecent(CallTime) /\ WriteTimeValue(CallTime)
    <3>1. TimeOfWrite = CallTime /\ call.op # "WriteValue"
      BY DEF TimeOfWrite
    <3> HIDE DEF TimeOfWrite
    <3> QED
      BY <2>2, <3>1, WriteReached DEF LetThrough
  <2>4. /\ index = <<>> <=> history = <<>>
        /\ index = <<>> <=> info.maxHour = 0
        /\ index # <<>> => /\ Last(history).time = ToTimeT(info.maxHour, info.maxOffset)
                           /\ Last(history).time \in Nat
    BY <2>3, LastTime DEF OrderInv
  <2>5. info.maxHour \in Nat
    BY InvFacts
  <2>6. HasMoreRecent(CallTime) <=> ~(history = <<>> \/ CallTime > Last(history).time)
    <3> HIDE DEF CallTime
    <3> QED
      BY <2>3, <2>4, <2>5 DEF HasMoreRecent
  <2>7. CASE RefusedByRule(CallTime)
    <3>1. answer'.ok = FALSE
      BY <2>7, AnswerGiven DEF RefusedByRule, AnswerFor
    <3> QED
      BY <2>6, <2>7, <3>1 DEF RefusedByRule
  <2>8. CASE ~HasMoreRecent(CallTime) /\ WriteTimeValue(CallTime)
    <3>1. answer'.ok = TRUE
      BY <2>8, AnswerGiven DEF WriteTimeValue, AnswerFor
    <3> QED
      BY <2>6, <2>8, <3>1
  <2> QED
    BY <2>3, <2>7, <2>8
<1> QED
  BY <1>1, InvariantHolds, ContentHolds, OrderHolds, PTL DEF Spec, MoreRecentRule

-----------------------------------------------------------------------------
(* Reading a range.                                                          *)

(* A value of the log is the accepted value of its rank.                     *)
LEMMA ValueOfRank ==
  ASSUME StoreInv, ContentInv, BlockInv, DatedInv, NEW i \in Values(Contents(data))
  PROVE  /\ Contents(data)[i].value \in 1 .. Len(history)
         /\ history[Contents(data)[i].value] = Stamped(Contents(data), i)
         /\ history[Contents(data)[i].value].time = TimeAt(Contents(data), i)
<1> DEFINE c == Contents(data)
<1>1. PICK k \in 1 .. Len(history) : Stamped(c, i) = history[k]
  BY DecodedIsHistory
<1>2. Stamped(c, i).value = c[i].value /\ Stamped(c, i).time = TimeAt(c, i)
  BY DEF Stamped
<1>3. history[k].value = k
  BY DEF DatedInv
<1> QED
  BY <1>1, <1>2, <1>3

LEMMA LogTimed ==
  ASSUME StoreInv, ContentInv, BlockInv, OrderInv,
         NEW i \in Values(Contents(data)), NEW j \in Values(Contents(data)), i < j
  PROVE  TimeAt(Contents(data), i) <= TimeAt(Contents(data), j)
<1> DEFINE c == Contents(data)
<1>1. c[i].value < c[j].value
  BY DecodedIsHistory DEF Ranked
<1>2. DatedInv /\ Ordered
  BY DEF OrderInv
<1>3. /\ c[i].value \in 1 .. Len(history) /\ c[j].value \in 1 .. Len(history)
      /\ history[c[i].value].time = TimeAt(c, i) /\ history[c[j].value].time = TimeAt(c, j)
  BY <1>2, ValueOfRank
<1> QED
  BY <1>1, <1>2, <1>3 DEF Ordered

LEMMA HourGrows ==
  ASSUME NEW a \in Nat, NEW b \in Nat, a <= b
  PROVE  FromTimeT(a) <= FromTimeT(b)
<1> DEFINE p == FromTimeT(a)
           q == FromTimeT(b)
<1>1. /\ p \in Nat /\ q \in Nat /\ ToTimeT(p, 0) <= a /\ b < ToTimeT(q, 0) + HourSecs
      /\ ToTimeT(p, 0) \in Nat /\ ToTimeT(q, 0) \in Nat
  BY HourOfTime
<1> HIDE DEF p, q
<1>2. p = q + 1 \/ p > q + 1 \/ p <= q
  BY <1>1
<1>3. p > q => ToTimeT(p, 0) >= ToTimeT(q, 0) + HourSecs
  <2>1. \A m, n, s \in Nat : m > n => m * s >= n * s + s
    OBVIOUS
  <2> QED
    BY <1>1, <2>1, HourSecsAssumption DEF ToTimeT
<1>4. ~(p > q)
  BY <1>1, <1>3, HourSecsAssumption
<1> QED
  BY <1>1, <1>4 DEF p, q

(* Behind the first hour of a range, a log in order of time has the whole    *)
(* range before the cell that stops the loop.                                *)
LEMMA RangeOfLog ==
  ASSUME NEW c \in Seq(Cell), Blocks(c), NEW n, Ranked(c, n),
         \A i, j \in Values(c) : i < j => TimeAt(c, i) <= TimeAt(c, j),
         NEW begin \in Nat, NEW end \in Nat, NEW p \in 1 .. Len(c),
         c[p] = HourCell(FromTimeT(begin))
  PROVE  /\ RangeStop(c, p, end) \in 1 .. Len(c) + 1
         /\ {i \in Within(c, p, RangeStop(c, p, end)) : TimeAt(c, i) >= begin} =
              {i \in Values(c) : begin <= TimeAt(c, i) /\ TimeAt(c, i) <= end}
<1> DEFINE hour  == FromTimeT(begin)
           stops == {i \in Within(c, p, Len(c) + 1) : TimeAt(c, i) > end}
           stop  == RangeStop(c, p, end)
<1>1. Len(c) \in Nat /\ IsHour(c, p) /\ c[p].hour = hour /\ hour \in Nat
  BY HourOfTime DEF IsHour, HourCell
<1>2. /\ stop \in 1 .. Len(c) + 1
      /\ stops # {} => stop \in stops /\ \A j \in stops : stop <= j
      /\ stops = {} => stop = Len(c) + 1
  <2>1. stops \in SUBSET (1 .. Len(c)) /\ stop = FirstOf(c, stops)
    BY <1>1 DEF RangeStop, Within
  <2>2. stops = {} => FirstOf(c, stops) = Len(c) + 1
    BY DEF FirstOf
  <2> HIDE DEF stops, stop
  <2> QED
    BY <1>1, <2>1, <2>2, FirstOfInFile
<1>3. /\ stop \in p + 1 .. Len(c) + 1
      /\ stop <= Len(c) => stop \in Values(c) /\ TimeAt(c, stop) > end
      /\ \A i \in Values(c) : p < i /\ TimeAt(c, i) > end => stop <= i
  <2>1. \A i \in Values(c) : p < i <=> i \in Within(c, p, Len(c) + 1)
    BY <1>1 DEF Values, Within
  <2>2. Within(c, p, Len(c) + 1) \subseteq Values(c)
    BY <1>1 DEF Values, Within
  <2>3. \A i \in Values(c) : i \in 1 .. Len(c)
    BY <1>1 DEF Values, Within
  <2>4. stops = {} \/ stop \in stops
    BY <1>2
  <2>5. \A i \in stops : i \in Values(c) /\ p < i /\ TimeAt(c, i) > end
    BY <2>1, <2>2
  <2>6. \A i \in Values(c) : p < i /\ TimeAt(c, i) > end => i \in stops
    BY <2>1
  <2> HIDE DEF stop, stops
  <2>7. stop \in p + 1 .. Len(c) + 1
    BY <1>1, <1>2, <2>3, <2>4, <2>5
  <2>8. stop <= Len(c) => stop \in Values(c) /\ TimeAt(c, stop) > end
    BY <1>1, <1>2, <2>4, <2>5
  <2> QED
    BY <1>2, <2>6, <2>7, <2>8
<1> HIDE DEF stop, stops, hour
<1>4. \A i \in Values(c) : i \in 1 .. Len(c) /\ TimeAt(c, i) \in Nat
  BY ValueInHour
<1>5. \A i \in Within(c, p, stop) : i \in Values(c) /\ p < i /\ i < stop
  BY <1>1, <1>3 DEF Values, Within
<1>6. ASSUME NEW i \in Within(c, p, stop) PROVE TimeAt(c, i) <= end
  <2>1. i \in Values(c) /\ p < i /\ i < stop /\ TimeAt(c, i) \in Nat /\ i \in Nat
    BY <1>4, <1>5
  <2>2. TimeAt(c, i) > end => stop <= i
    BY <1>3, <2>1
  <2> QED
    BY <1>3, <2>1, <2>2
<1>7. ASSUME NEW i \in Values(c), begin <= TimeAt(c, i), TimeAt(c, i) <= end
      PROVE  i \in Within(c, p, stop)
  <2>1. i \in 1 .. Len(c) /\ IsValue(c, i) /\ TimeAt(c, i) \in Nat
    BY ValueInHour
  <2>2. hour <= HourAt(c, i)
    <3>1. FromTimeT(TimeAt(c, i)) = HourAt(c, i)
      BY ValueInHour
    <3> QED
      BY <1>7, <2>1, <3>1, HourGrows DEF hour
  <2>3. PICK h \in 1 .. i : IsHour(c, h)
    BY ValueInHour
  <2>4. PICK j \in h .. i : IsHour(c, j) /\ HourAt(c, i) = c[j].hour
    <3>1. i \in Nat
      BY <2>1
    <3> QED
      BY <2>3, <3>1, HourFrom
  <2>5. j \in 1 .. Len(c) /\ j <= i
    BY <1>1, <2>1, <2>3, <2>4
  <2>6. p <= j
    <3>1. j < p => c[j].hour < c[p].hour
      BY <1>1, <2>4, <2>5 DEF Blocks
    <3>2. HourAt(c, i) \in Nat
      BY ValueInHour
    <3> QED
      BY <1>1, <2>2, <2>4, <2>5, <3>1, <3>2
  <2>7. p < i
    <3>1. p # i
      BY <1>1, <2>1 DEF IsHour, IsValue
    <3> QED
      BY <2>1, <2>5, <2>6, <3>1
  <2>8. i < stop
    <3> SUFFICES ASSUME ~(i < stop) PROVE FALSE
      OBVIOUS
    <3>1. stop \in Values(c) /\ TimeAt(c, stop) > end /\ (stop = i \/ stop < i)
      BY <1>1, <1>3, <2>1
    <3>2. TimeAt(c, stop) <= TimeAt(c, i) /\ TimeAt(c, stop) \in Nat
      BY <1>4, <3>1
    <3> QED
      BY <1>7, <2>1, <3>1, <3>2
  <2> QED
    BY <1>1, <1>3, <2>1, <2>7, <2>8 DEF Within
<1>8. {i \in Within(c, p, stop) : TimeAt(c, i) >= begin} =
        {i \in Values(c) : begin <= TimeAt(c, i) /\ TimeAt(c, i) <= end}
  BY <1>4, <1>5, <1>6, <1>7
<1> QED
  BY <1>2, <1>8 DEF stop

(* What the loop of a range collects is the whole range.                     *)
LEMMA RangeCollected ==
  ASSUME StoreInv, ContentInv, BlockInv, OrderInv, NEW begin \in Nat, NEW end \in Nat,
         NEW pos \in Nat, LeadsTo(pos, FromTimeT(begin))
  PROVE  {v \in {Stamped(Contents(data), i) : i \in
                   Within(Contents(data), pos + 1, RangeStop(Contents(data), pos + 1, end))} :
            v.time >= begin} =
           {v \in Members(history) : begin <= v.time /\ v.time <= end}
<1> DEFINE c    == Contents(data)
           stop == RangeStop(c, pos + 1, end)
           read == {v \in {Stamped(c, i) : i \in Within(c, pos + 1, stop)} : v.time >= begin}
<1>1. /\ c \in Seq(Cell) /\ Len(c) \in Nat /\ Blocks(c) /\ Ranked(c, Len(history))
      /\ {Stamped(c, i) : i \in Values(c)} = Members(history)
  BY DecodedIsHistory DEF Members
<1>2. pos + 1 \in 1 .. Len(c) /\ c[pos + 1] = HourCell(FromTimeT(begin))
  BY LeadsFacts
<1>3. \A i, j \in Values(c) : i < j => TimeAt(c, i) <= TimeAt(c, j)
  BY LogTimed
<1> HIDE DEF c
<1>4. {i \in Within(c, pos + 1, stop) : TimeAt(c, i) >= begin} =
        {i \in Values(c) : begin <= TimeAt(c, i) /\ TimeAt(c, i) <= end}
  BY <1>1, <1>2, <1>3, RangeOfLog
<1>5. \A i : Stamped(c, i).time = TimeAt(c, i)
  BY DEF Stamped
<1>6. read = {v \in {Stamped(c, i) : i \in Values(c)} : begin <= v.time /\ v.time <= end}
  <2> HIDE DEF stop
  <2>1. read = {Stamped(c, i) : i \in {i \in Within(c, pos + 1, stop) : TimeAt(c, i) >= begin}}
    BY <1>5
  <2>2. {v \in {Stamped(c, i) : i \in Values(c)} : begin <= v.time /\ v.time <= end} =
          {Stamped(c, i) : i \in {i \in Values(c) : begin <= TimeAt(c, i) /\ TimeAt(c, i) <= end}}
    BY <1>5
  <2> QED
    BY <1>4, <2>1, <2>2
<1> QED
  BY <1>1, <1>6 DEF c

LEMMA ReadRangeSound ==
  ASSUME StoreInv, ContentInv, BlockInv, OrderInv, ReadRange
  PROVE  RangeReadSound'
<1> DEFINE c     == Contents(data)
           begin == call.begin
           end   == call.end
           hour  == FromTimeT(begin)
           pos   == FindHour(hour)
           stop  == RangeStop(c, pos + 1, end)
           read  == {v \in {Stamped(c, i) : i \in Within(c, pos + 1, stop)} : v.time >= begin}
<1>1. call.op = "ReadRange" /\ history' = history
  BY DEF ReadRange
<1>2. IsOpen /\ index # <<>> /\ begin \in Nat /\ end \in Nat /\ hour \in Nat
  <2>1. IsOpen /\ index # <<>> /\ call \in CallType
    BY <1>1, ReadsOpen, InvFacts DEF ReadOps
  <2>2. begin \in Nat /\ end \in Nat
    BY <1>1, <2>1 DEF CallType
  <2> QED
    BY <2>1, <2>2, HourOfTime
<1>3. pos \in Nat
  BY <1>2, FoundInFile
<1>4. CASE ReadMiss \/ ReadMismatch(pos)
  BY <1>4, AnswerGiven DEF ReadMiss, ReadMismatch, AnswerFor, RangeReadSound
<1>5. CASE LeadsTo(pos, hour) /\ Return(TRUE, "", read)
  <2>1. answer'.call = call /\ answer'.values = read
    BY <1>5, AnswerGiven DEF AnswerFor
  <2>2. answer'.values = {v \in Members(history) : begin <= v.time /\ v.time <= end}
    <3> HIDE DEF pos, begin, end
    <3>1. read = {v \in Members(history) : begin <= v.time /\ v.time <= end}
      BY <1>2, <1>3, <1>5, RangeCollected
    <3> QED
      BY <2>1, <3>1
  <2>3. WantedRange' = answer'.values
    BY <1>1, <2>1, <2>2 DEF WantedRange, Accepted, Members
  <2> QED
    BY <2>3 DEF RangeReadSound
<1> QED
  BY <1>4, <1>5 DEF ReadRange

(* ReadValues between two times answers with the whole range or with         *)
(* nothing, wherever reads have left the stream: the log is in order of time *)
(* because the rule of the writes never lets an older value in.              *)
THEOREM RangeReadAlwaysSound ==
  ASSUME FourByteTypes
  PROVE  Spec => []RangeReadSound
<1>1. Init => RangeReadSound
  BY NoneAnswered DEF Init, RangeReadSound
<1>2. StoreInv /\ ContentInv /\ BlockInv /\ OrderInv /\ RangeReadSound /\ [Next]_vars
        => RangeReadSound'
  <2> SUFFICES ASSUME StoreInv, ContentInv, BlockInv, OrderInv, RangeReadSound, [Next]_vars
               PROVE  RangeReadSound'
    OBVIOUS
  <2>1. CASE UNCHANGED <<answer, history>>
    BY <2>1 DEF RangeReadSound, WantedRange, Accepted
  <2>2. CASE ReadRange
    BY <2>2, ReadRangeSound
  <2>3. CASE ReadHour
    <3>1. call.op = "ReadHour" /\ \E ok, error, values : Return(ok, error, values)
      BY <2>3 DEF ReadHour, ReadMiss, ReadMismatch
    <3> QED
      BY <3>1, AnswerGiven DEF AnswerFor, RangeReadSound
  <2>4. CASE NoReadAnswered
    BY <2>4 DEF NoReadAnswered, RangeReadSound
  <2> QED
    BY <2>1, <2>2, <2>3, <2>4, AnswerSteps
<1> QED
  BY <1>1, <1>2, InvariantHolds, ContentHolds, BlocksHold, OrderHolds, PTL DEF Spec

-----------------------------------------------------------------------------
(* The third part: every read runs to the end of the log.  The stream stays  *)
(* at the end of the file, every entry of the index leads to its hour,       *)
(* closing and opening is invisible, and the files implement TimeSeries.     *)

-----------------------------------------------------------------------------
(* The inductive invariant.                                                  *)

ReadsToEnd == ~HistoryReads

(* A read that is still to run asks for no hour before the last one, or for  *)
(* a range that ends after every value.                                      *)
RunsToEnd ==
  /\ call.op = "ReadHour" => Last(index).hour <= call.hour
  /\ call.op = "ReadRange" => \A k \in 1 .. Len(history) : history[k].time <= call.end

StreamInv ==
  /\ IsOpen => AtEnd(data)
  /\ IndexAccurate
  /\ RunsToEnd

LeadsIn(c, pos, hour) == pos \in 0 .. Len(c) - 1 /\ c[pos + 1] = HourCell(hour)

LEMMA AccurateIn ==
  IndexAccurate <=>
    \A k \in 1 .. Len(index) : LeadsIn(Contents(data), index[k].pos, index[k].hour)
  BY DEF IndexAccurate, Leads, LeadsTo, HasCell, CellAt, LeadsIn

(* What is appended moves no cell the index leads to.                        *)
LEMMA LeadsStays ==
  ASSUME NEW c \in Seq(Cell), NEW x \in Cell, NEW pos \in Nat, NEW hour, LeadsIn(c, pos, hour)
  PROVE  LeadsIn(Append(c, x), pos, hour)
<1>1. pos + 1 \in 1 .. Len(c) /\ c[pos + 1] = HourCell(hour) /\ Len(c) \in Nat
  BY DEF LeadsIn
<1>2. Len(Append(c, x)) = Len(c) + 1 /\ Append(c, x)[pos + 1] = c[pos + 1]
  BY <1>1
<1> QED
  BY <1>1, <1>2 DEF LeadsIn

LEMMA KeptAccurate ==
  ASSUME IndexAccurate, Contents(data') = Contents(data), index' = index
  PROVE  IndexAccurate'
  BY DEF IndexAccurate, Leads, LeadsTo, HasCell, CellAt

-----------------------------------------------------------------------------
(* Writes.                                                                   *)

(* Where the stream stands at the end, tellp is the place of the next hour.  *)
LEMMA NewHourAccurate ==
  ASSUME StoreInv, StreamInv, IsOpen, NEW time \in Nat, WriteInNewHour(time)
  PROVE  IndexAccurate' /\ AtEnd(data')
<1> DEFINE hour  == FromTimeT(time)
           ended == BlockEnd(info.startHour)
           c     == Contents(data)
           ce    == Contents(ended)
           x     == HourCell(hour)
           y     == ValueCell(OffsetIn(hour, time), NextValue)
           e     == Entry(hour, Tellp(ended))
<1>1. /\ data \in StreamType(Cell) /\ c \in Seq(Cell) /\ AtEnd(data) /\ index \in Seq(EntryType)
      /\ info.startHour \in Nat /\ Len(index) \in Nat
      /\ \A k \in 1 .. Len(index) : index[k].pos \in Nat
  BY InvFacts, EntryFields DEF StreamInv
<1>2. x \in Cell /\ y \in Cell /\ EndLine \in Cell
  <2>1. NextValue \in Nat
    BY InvFacts DEF NextValue
  <2> QED
    BY <2>1, HourOfTime, CellsMade
<1>3. ended \in {data, Put(data, EndLine)}
  BY DEF BlockEnd
<1>4. index' = Append(index, e) /\ data' = Put(Put(ended, x), y)
  BY DEF WriteInNewHour
<1> HIDE DEF ended, x, y, hour
<1>5. /\ ended \in StreamType(Cell) /\ AtEnd(ended) /\ ce \in Seq(Cell)
      /\ ce \in {c, Append(c, EndLine)}
  <2> HIDE DEF EndLine
  <2>1. /\ Put(data, EndLine) \in StreamType(Cell) /\ AtEnd(Put(data, EndLine))
        /\ Contents(Put(data, EndLine)) = Append(c, EndLine)
    BY <1>1, <1>2, PutFacts
  <2>2. Append(c, EndLine) \in Seq(Cell)
    BY <1>1, <1>2
  <2> QED
    BY <1>1, <1>3, <2>1, <2>2
<1>6. Tellp(ended) = Len(ce)
  BY <1>5, TellpAtEnd
<1>7. /\ data' \in StreamType(Cell) /\ AtEnd(data')
      /\ Contents(data') = Append(Append(ce, x), y)
  <2> DEFINE mid == Put(ended, x)
  <2>1. /\ mid \in StreamType(Cell) /\ AtEnd(mid) /\ Contents(mid) = Append(ce, x)
    BY <1>2, <1>5, PutFacts
  <2> HIDE DEF mid
  <2>2. data' = Put(mid, y)
    BY <1>4 DEF mid
  <2> QED
    BY <1>2, <2>1, <2>2, PutFacts
<1> HIDE DEF c, ce
<1> DEFINE ch == Append(ce, x)
           d  == Append(ch, y)
<1>8. LeadsIn(d, Len(ce), hour)
  <2>1. Len(ce) \in Nat /\ ch \in Seq(Cell) /\ Len(ch) = Len(ce) + 1 /\ ch[Len(ce) + 1] = x
    BY <1>2, <1>5
  <2>2. LeadsIn(ch, Len(ce), hour)
    BY <2>1 DEF LeadsIn, x
  <2> HIDE DEF ch
  <2> QED
    BY <1>2, <2>1, <2>2, LeadsStays
<1>9. ASSUME NEW k \in 1 .. Len(index) PROVE LeadsIn(d, index[k].pos, index[k].hour)
  <2>1. LeadsIn(c, index[k].pos, index[k].hour) /\ index[k].pos \in Nat
    BY <1>1, AccurateIn DEF StreamInv, c
  <2>2. LeadsIn(ce, index[k].pos, index[k].hour)
    BY <1>1, <1>2, <1>5, <2>1, LeadsStays
  <2>3. LeadsIn(ch, index[k].pos, index[k].hour) /\ ch \in Seq(Cell)
    BY <1>2, <1>5, <2>1, <2>2, LeadsStays
  <2> HIDE DEF ch
  <2> QED
    BY <1>2, <2>1, <2>3, LeadsStays
<1>10. /\ Len(index') = Len(index) + 1 /\ \A k \in 1 .. Len(index) : index'[k] = index[k]
       /\ index'[Len(index) + 1].hour = hour /\ index'[Len(index) + 1].pos = Len(ce)
  <2>1. Tellp(ended) \in Nat /\ hour \in Nat
    BY <1>5, <1>6, HourOfTime DEF hour
  <2>2. e \in EntryType /\ e.hour = hour /\ e.pos = Len(ce)
    BY <1>6, <2>1 DEF Entry, EntryType
  <2> HIDE DEF e
  <2>3. Len(index') = Len(index) + 1 /\ index'[Len(index) + 1] = e
        /\ \A k \in 1 .. Len(index) : index'[k] = index[k]
    BY <1>1, <1>4, <2>2
  <2> QED
    BY <2>2, <2>3
<1> HIDE DEF ch, d, e
<1>11. \A k \in 1 .. Len(index') : LeadsIn(d, index'[k].pos, index'[k].hour)
  <2> SUFFICES ASSUME NEW k \in 1 .. Len(index') PROVE LeadsIn(d, index'[k].pos, index'[k].hour)
    OBVIOUS
  <2>1. k \in 1 .. Len(index) \/ k = Len(index) + 1
    BY <1>1, <1>10
  <2> QED
    BY <1>8, <1>9, <1>10, <2>1
<1>12. Contents(data') = d
  BY <1>7 DEF ch, d
<1>13. IndexAccurate'
  BY <1>11, <1>12 DEF IndexAccurate, Leads, LeadsTo, HasCell, CellAt, LeadsIn
<1> QED
  BY <1>7, <1>13

LEMMA SameHourAccurate ==
  ASSUME StoreInv, StreamInv, IsOpen, NEW time \in Nat, info.startHour <= time,
         WriteInHour(time)
  PROVE  IndexAccurate' /\ AtEnd(data')
<1> DEFINE c == Contents(data)
           y == ValueCell(time - info.startHour, NextValue)
<1>1. /\ data \in StreamType(Cell) /\ c \in Seq(Cell) /\ AtEnd(data) /\ index \in Seq(EntryType)
      /\ \A k \in 1 .. Len(index) : index[k].pos \in Nat
  BY InvFacts, EntryFields DEF StreamInv
<1>2. y \in Cell
  <2>1. NextValue \in Nat /\ time - info.startHour \in Nat
    BY InvFacts DEF NextValue
  <2> QED
    BY <2>1, CellsMade
<1>3. data' = Put(data, y) /\ index' = index
  BY DEF WriteInHour
<1> HIDE DEF y
<1>4. AtEnd(data') /\ Contents(data') = Append(c, y)
  BY <1>1, <1>2, <1>3, PutFacts
<1>5. ASSUME NEW k \in 1 .. Len(index)
      PROVE  LeadsIn(Contents(data'), index[k].pos, index[k].hour)
  <2>1. LeadsIn(c, index[k].pos, index[k].hour)
    BY AccurateIn DEF StreamInv
  <2> HIDE DEF c
  <2> QED
    BY <1>1, <1>2, <1>4, <2>1, LeadsStays
<1>6. IndexAccurate'
  BY <1>3, <1>5 DEF IndexAccurate, Leads, LeadsTo, HasCell, CellAt, LeadsIn
<1> QED
  BY <1>4, <1>6

-----------------------------------------------------------------------------
(* Reads.                                                                    *)

LEMMA FoundLeads ==
  ASSUME StoreInv, IndexAccurate, IsOpen, index # <<>>, NEW hour \in Nat,
         FindHour(hour) # NotFound
  PROVE  FindHour(hour) \in Nat /\ LeadsTo(FindHour(hour), hour)
<1>1. /\ index \in Seq(EntryType) /\ Len(index) \in Nat \ {0}
      /\ info.indexSize = Len(index) /\ info.minHour \in Nat /\ info.maxHour \in Nat
      /\ Len(index) <= info.maxHour - info.minHour + 1
  BY InvFacts, HourStarts DEF StoreInv, IndexShape
<1>2. PICK k \in 1 .. Len(index) : index[k].hour = hour /\ index[k].pos = FindHour(hour)
  BY <1>1, FindIndexSound DEF FindHour
<1>3. index[k].pos \in Nat
  BY <1>1, EntryFields
<1>4. LeadsTo(index[k].pos, index[k].hour)
  BY DEF IndexAccurate, Leads
<1> QED
  BY <1>2, <1>3, <1>4

(* A loop that meets no reason to stop leaves the stream at the end.         *)
LEMMA LeftAtEnd ==
  ASSUME StoreInv, NEW stops, stops = {}, LeaveAt(FirstOf(Contents(data), stops))
  PROVE  AtEnd(data')
<1>1. data \in StreamType(Cell) /\ Len(Contents(data)) \in Nat
  BY InvFacts, ContentsFacts
<1>2. FirstOf(Contents(data), stops) = Len(Contents(data)) + 1
  BY DEF FirstOf
<1>3. data' = SeekTo(data, Len(Contents(data)))
  BY <1>1, <1>2 DEF LeaveAt
<1> QED
  BY <1>1, <1>3, SeekFacts

(* No block follows the one of the last hour.                                *)
LEMMA NoEndAfterLastHour ==
  ASSUME StoreInv, ContentInv, BlockInv, index # <<>>, NEW pos \in Nat, NEW hour \in Nat,
         Last(index).hour <= hour, LeadsTo(pos, hour)
  PROVE  {i \in pos + 2 .. Len(Contents(data)) : IsEnd(Contents(data), i)} = {}
<1> DEFINE c == Contents(data)
<1>1. /\ c \in Seq(Cell) /\ Len(c) \in Nat /\ Blocks(c) /\ EndsInLastHour(c, index)
      /\ pos + 1 \in 1 .. Len(c) /\ c[pos + 1] = HourCell(hour)
  BY LeadsFacts, DecodedIsHistory DEF ContentInv, Content
<1> HIDE DEF c
<1> SUFFICES ASSUME NEW e \in pos + 2 .. Len(c), IsEnd(c, e) PROVE FALSE
  BY DEF c
<1>2. e \in 1 .. Len(c) /\ e + 1 \in 1 .. Len(c) /\ IsHour(c, e + 1) /\ pos + 1 < e + 1
  BY <1>1, EndsAndHours
<1>3. IsHour(c, pos + 1) /\ c[pos + 1].hour = hour
  BY <1>1 DEF IsHour, HourCell
<1>4. c[pos + 1].hour < c[e + 1].hour
  BY <1>1, <1>2, <1>3 DEF Blocks
<1>5. c[e + 1].hour \in Nat /\ c[e + 1].hour <= Last(index).hour
  BY <1>1, <1>2, HoursInFile
<1>6. Last(index).hour \in Nat
  <2>1. Len(index) \in 1 .. Len(index) /\ index \in Seq(EntryType)
    BY InvFacts
  <2> QED
    BY <2>1, EntryFields DEF Last
<1> QED
  BY <1>3, <1>4, <1>5, <1>6

(* A read that runs to the end leaves the stream there.                      *)
LEMMA ReadsStayAtEnd ==
  ASSUME StoreInv, ContentInv, BlockInv, DatedInv, StreamInv,
         ReadHour \/ ReadRange \/ ReadLastValue \/ GetSensorInfo
  PROVE  AtEnd(data')
<1> DEFINE c == Contents(data)
<1>1. IsOpen /\ index # <<>> /\ AtEnd(data) /\ IndexAccurate /\ RunsToEnd
  BY ReadsOpen DEF StreamInv, ReadOps, ReadHour, ReadRange, ReadLastValue, GetSensorInfo
<1>2. CASE ReadHour
  <2> DEFINE pos == FindHour(call.hour)
  <2>1. call.hour \in Nat /\ Last(index).hour <= call.hour
    BY <1>1, <1>2, InvFacts DEF CallType, RunsToEnd, ReadHour, Idle
  <2>2. CASE pos = NotFound
    BY <1>1, <1>2, <2>2 DEF ReadHour, ReadMiss
  <2>3. CASE pos # NotFound
    <3>1. pos \in Nat /\ LeadsTo(pos, call.hour)
      BY <1>1, <2>1, <2>3, FoundLeads
    <3>2. LeaveAt(HourStop(c, pos + 1))
      BY <1>2, <2>3, <3>1 DEF ReadHour
    <3>3. pos + 1 + 1 = pos + 2
      BY <3>1
    <3>4. HourStop(c, pos + 1) = FirstOf(c, {i \in pos + 2 .. Len(c) : IsEnd(c, i)})
      BY <3>3 DEF HourStop
    <3>5. {i \in pos + 2 .. Len(c) : IsEnd(c, i)} = {}
      BY <1>1, <2>1, <3>1, NoEndAfterLastHour
    <3> QED
      BY <3>2, <3>4, <3>5, LeftAtEnd
  <2> QED
    BY <2>2, <2>3
<1>3. CASE ReadRange
  <2> DEFINE hour  == FromTimeT(call.begin)
             pos   == FindHour(hour)
             stops == {i \in Within(c, pos + 1, Len(c) + 1) : TimeAt(c, i) > call.end}
  <2>1. /\ call.begin \in Nat /\ call.end \in Nat /\ hour \in Nat
        /\ \A k \in 1 .. Len(history) : history[k].time <= call.end
    BY <1>1, <1>3, InvFacts, HourOfTime DEF CallType, RunsToEnd, ReadRange, Idle
  <2>2. CASE pos = NotFound
    BY <1>1, <1>3, <2>2 DEF ReadRange, ReadMiss
  <2>3. CASE pos # NotFound
    <3>1. pos \in Nat /\ LeadsTo(pos, hour)
      BY <1>1, <2>1, <2>3, FoundLeads
    <3>2. LeaveAt(FirstOf(c, stops))
      BY <1>3, <2>3, <3>1 DEF ReadRange, RangeStop
    <3>3. stops = {}
      <4> SUFFICES ASSUME NEW i \in stops PROVE FALSE
        OBVIOUS
      <4>1. i \in Values(c) /\ TimeAt(c, i) > call.end
        BY <3>1 DEF Values, Within
      <4>2. /\ c[i].value \in 1 .. Len(history)
            /\ history[c[i].value].time = TimeAt(c, i)
        BY <4>1, ValueOfRank
      <4>3. history[c[i].value].time \in Nat
        BY <4>2, HistoryTyped
      <4> QED
        BY <2>1, <4>1, <4>2, <4>3
    <3> QED
      BY <3>2, <3>3, LeftAtEnd
  <2> QED
    BY <2>2, <2>3
<1>4. CASE ReadLastValue
  <2>1. info.maxHour \in Nat
    BY InvFacts
  <2>2. CASE FindHour(info.maxHour) = NotFound
    BY <1>1, <1>4, <2>2 DEF ReadLastValue, ReadMiss
  <2>3. CASE FindHour(info.maxHour) # NotFound
    <3>1. LeadsTo(FindHour(info.maxHour), info.maxHour)
      BY <1>1, <2>1, <2>3, FoundLeads
    <3>2. data' = SeekEnd(data)
      BY <1>4, <2>3, <3>1 DEF ReadLastValue
    <3> QED
      BY <3>2, InvFacts, SeekEndFacts
  <2> QED
    BY <2>2, <2>3
<1>5. CASE GetSensorInfo
  BY <1>1, <1>5 DEF GetSensorInfo
<1> QED
  BY <1>2, <1>3, <1>4, <1>5

-----------------------------------------------------------------------------
(* The other steps.                                                          *)

(* An admitted read asks for the hour of the clock at the earliest, or for a *)
(* range that ends at the clock at the earliest.                             *)
LEMMA AdmittedToEnd ==
  ASSUME StoreInv, DatedInv, ReadsToEnd, index # <<>>, NEW c \in Calls,
         call' \in {c, Idle}, UNCHANGED <<now, index, history>>
  PROVE  RunsToEnd'
<1>1. /\ now \in Nat /\ Last(index).hour \in Nat /\ ToTimeT(Last(index).hour, 0) <= now
      /\ ~HistoryReads
  <2>1. Len(index) \in 1 .. Len(index) /\ index \in Seq(EntryType)
    BY InvFacts
  <2> QED
    BY <2>1, InvFacts, EntryFields DEF StoreInv, IndexShape, ReadsToEnd, Last
<1>2. Last(index).hour <= FromTimeT(now)
  <2>1. ToTimeT(Last(index).hour, 0) \in Nat
    BY <1>1, TimeTyped
  <2>2. FromTimeT(ToTimeT(Last(index).hour, 0)) <= FromTimeT(now)
    BY <1>1, <2>1, HourGrows
  <2>3. FromTimeT(ToTimeT(Last(index).hour, 0)) = Last(index).hour
    BY <1>1, <2>1, HourUnique, HourSecsAssumption
  <2> QED
    BY <2>2, <2>3
<1>3. FromTimeT(now) \in Nat
  BY <1>1, HourOfTime
<1>4. ASSUME c.op = "ReadHour" PROVE Last(index).hour <= c.hour
  <2>1. c.hour \in Hours /\ c.hour >= FromTimeT(now)
    BY <1>1, <1>4 DEF Calls, WriteCalls, ReadCalls
  <2>2. c.hour \in Int
    BY <2>1 DEF Hours
  <2> QED
    BY <1>1, <1>2, <1>3, <2>1, <2>2
<1>5. ASSUME c.op = "ReadRange", NEW k \in 1 .. Len(history) PROVE history[k].time <= c.end
  <2>1. c.end \in Times /\ c.end >= now
    BY <1>1, <1>5 DEF Calls, WriteCalls, ReadCalls
  <2>2. c.end \in Int
    BY <2>1 DEF Times
  <2>3. history[k].time \in Nat /\ history[k].time <= now
    BY HistoryTyped DEF DatedInv
  <2> QED
    BY <1>1, <2>1, <2>2, <2>3
<1>6. call' = c \/ call'.op = "Idle"
  BY IdleTyped
<1> QED
  BY <1>4, <1>5, <1>6 DEF RunsToEnd

LEMMA ToldToEnd ==
  ASSUME call'.op \in WriteOps \union {"Idle"}
  PROVE  RunsToEnd'
  BY DEF RunsToEnd, WriteOps

LEMMA GetStream ==
  ASSUME StoreInv, DatedInv, StreamInv, ReadsToEnd, GetFilesInfo
  PROVE  StreamInv'
<1>1. /\ call = Idle /\ call.op = "Idle" /\ UNCHANGED <<now, history>>
      /\ data \in StreamType(Cell)
  BY InvFacts, IdleTyped DEF GetFilesInfo
<1>2. PICK c \in Calls : \/ UseOpenFiles(c) \/ OpenFiles(c) \/ OpenFilesFails(c)
                         \/ NoFile(c) \/ CreateFiles(c)
  BY DEF GetFilesInfo
<1>3. CASE UseOpenFiles(c)
  <2>1. index # <<>> /\ UNCHANGED <<data, index, info>> /\ call' \in {c, Idle}
    BY <1>1, <1>3 DEF UseOpenFiles, CheckType, Admit, Refuse, StoreInv, Started, IsOpen, WriteOps
  <2>2. RunsToEnd'
    BY <1>1, <2>1, AdmittedToEnd
  <2>3. IndexAccurate'
    BY <2>1, KeptAccurate DEF StreamInv
  <2>4. AtEnd(data')
    BY <1>3, <2>1 DEF StreamInv, UseOpenFiles
  <2> QED
    BY <2>2, <2>3, <2>4 DEF StreamInv
<1>4. CASE OpenFiles(c)
  <2>1. index # <<>>
    <3>1. data.state = "present" /\ info = NoInfo
      BY <1>4 DEF OpenFiles, FileExists, IsOpen
    <3> QED
      BY <3>1 DEF StoreInv, Started
  <2>2. index' = index /\ data' = SeekEnd(Open(data)) /\ call' \in {c, Idle}
    BY <1>4 DEF OpenFiles, CheckType, Admit, Refuse
  <2>3. Contents(data') = Contents(data) /\ AtEnd(data')
    BY <1>1, <2>2, OpenFacts, SeekEndFacts
  <2>4. RunsToEnd'
    BY <1>1, <2>1, <2>2, AdmittedToEnd
  <2>5. IndexAccurate'
    BY <2>2, <2>3, KeptAccurate DEF StreamInv
  <2> QED
    BY <2>3, <2>4, <2>5 DEF StreamInv
<1>5. CASE OpenFilesFails(c) \/ NoFile(c)
  <2>1. UNCHANGED <<data, index, info>> /\ call' = Idle
    BY <1>5 DEF OpenFilesFails, NoFile, Refuse
  <2>2. RunsToEnd'
    BY <2>1, IdleTyped, ToldToEnd
  <2>3. IndexAccurate'
    BY <2>1, KeptAccurate DEF StreamInv
  <2> QED
    BY <2>1, <2>2, <2>3 DEF StreamInv, IsOpen
<1>6. CASE CreateFiles(c)
  <2>1. index' = <<>> /\ call' = c /\ c.op \in WriteOps /\ AtEnd(data')
    BY <1>6, CreatedFacts, CallsTyped DEF CreateFiles, Admit
  <2>2. RunsToEnd'
    BY <2>1, ToldToEnd
  <2>3. IndexAccurate'
    BY <2>1 DEF IndexAccurate
  <2> QED
    BY <2>1, <2>2, <2>3 DEF StreamInv
<1> QED
  BY <1>2, <1>3, <1>4, <1>5, <1>6

LEMMA StepStream ==
  ASSUME StoreInv, ContentInv, BlockInv, DatedInv, StreamInv, ReadsToEnd, [Next]_vars
  PROVE  StreamInv'
<1>1. CASE GetFilesInfo
  BY <1>1, GetStream
<1>2. CASE WriteNow \/ WriteOld \/ WriteTime
  <2> DEFINE t == TimeOfWrite
  <2>1. /\ IsOpen /\ t \in Nat
        /\ RefusedByRule(t) \/ (info.startHour <= t /\ WriteTimeValue(t))
    BY <1>2, WriteReached
  <2> HIDE DEF t
  <2>2. call' = Idle
    BY <2>1 DEF RefusedByRule, WriteTimeValue, Return
  <2>3. RunsToEnd'
    BY <2>2, IdleTyped, ToldToEnd
  <2>4. CASE RefusedByRule(t)
    <3>1. UNCHANGED <<data, index, info>>
      BY <2>4 DEF RefusedByRule
    <3>2. IndexAccurate'
      BY <3>1, KeptAccurate DEF StreamInv
    <3> QED
      BY <2>3, <3>1, <3>2 DEF StreamInv, IsOpen
  <2>5. CASE info.startHour <= t /\ WriteTimeValue(t)
    <3>1. WriteInNewHour(t) \/ WriteInHour(t)
      BY <2>5 DEF WriteTimeValue
    <3>2. IndexAccurate' /\ AtEnd(data')
      BY <2>1, <2>5, <3>1, NewHourAccurate, SameHourAccurate
    <3> QED
      BY <2>3, <3>2 DEF StreamInv
  <2> QED
    BY <2>1, <2>4, <2>5
<1>3. CASE ReadHour \/ ReadRange \/ ReadLastValue \/ GetSensorInfo
  <2>1. AtEnd(data')
    BY <1>3, ReadsStayAtEnd
  <2>2. call' = Idle
    BY <1>3 DEF ReadHour, ReadRange, ReadLastValue, GetSensorInfo, ReadMiss, ReadMismatch, Return
  <2>3. RunsToEnd'
    BY <2>2, IdleTyped, ToldToEnd
  <2>4. IndexAccurate'
    BY <1>3, ReadContent, KeptAccurate DEF StreamInv
  <2> QED
    BY <2>1, <2>3, <2>4 DEF StreamInv
<1>4. CASE CloseSensor
  <2>1. call' = Idle /\ index' = index /\ info' = NoInfo /\ Contents(data') = Contents(data)
    BY <1>4, InvFacts, CloseFacts DEF CloseSensor
  <2>2. RunsToEnd'
    BY <2>1, IdleTyped, ToldToEnd
  <2>3. IndexAccurate'
    BY <2>1, KeptAccurate DEF StreamInv
  <2> QED
    BY <2>1, <2>2, <2>3 DEF StreamInv, IsOpen
<1>5. CASE Remove
  <2>1. call' = Idle /\ index' = <<>> /\ info' = NoInfo
    BY <1>5 DEF Remove
  <2>2. RunsToEnd'
    BY <2>1, IdleTyped, ToldToEnd
  <2>3. IndexAccurate'
    BY <2>1 DEF IndexAccurate
  <2> QED
    BY <2>1, <2>2, <2>3 DEF StreamInv, IsOpen
<1>6. CASE Tick \/ UNCHANGED vars
  <2>1. UNCHANGED <<data, index, info, call, history>>
    BY <1>6 DEF Tick, vars
  <2>2. RunsToEnd'
    BY <2>1 DEF StreamInv, RunsToEnd, Last
  <2>3. IndexAccurate'
    BY <2>1, KeptAccurate DEF StreamInv
  <2> QED
    BY <2>1, <2>2, <2>3 DEF StreamInv, IsOpen
<1> QED
  BY <1>1, <1>2, <1>3, <1>4, <1>5, <1>6 DEF Next, Body

(* The part of OrderInv that asks nothing of the types.                      *)
THEOREM DatesHold == Spec => []DatedInv
<1>1. Init => DatedInv
  BY DEF Init, DatedInv
<1>2. StoreInv /\ DatedInv /\ [Next]_vars => DatedInv'
  BY StepDated
<1> QED
  BY <1>1, <1>2, InvariantHolds, PTL DEF Spec

(* Reads that run to the end leave the stream there (seekg 0 end, or a loop  *)
(* that meets the end and clears), as writes and opens do.                   *)
THEOREM StreamHolds ==
  ASSUME ReadsToEnd
  PROVE  Spec => []StreamInv
<1>1. Init => StreamInv
  <2> SUFFICES ASSUME Init PROVE StreamInv
    OBVIOUS
  <2>1. ~IsOpen /\ index = <<>> /\ call.op = "Idle"
    BY IdleTyped DEF Init, IsOpen
  <2> QED
    BY <2>1 DEF StreamInv, IndexAccurate, RunsToEnd
<1>2. StoreInv /\ ContentInv /\ BlockInv /\ DatedInv /\ StreamInv /\ [Next]_vars => StreamInv'
  BY StepStream
<1> QED
  BY <1>1, <1>2, InvariantHolds, ContentHolds, BlocksHold, DatesHold, PTL DEF Spec

(* writeTimeValue takes the place of an hour from tellp: as long as reads    *)
(* run to the end of the file, each entry of the index leads to its hour.    *)
THEOREM IndexAlwaysAccurate ==
  ASSUME ReadsToEnd
  PROVE  Spec => []IndexAccurate
<1>1. StreamInv => IndexAccurate
  BY DEF StreamInv
<1> QED
  BY <1>1, StreamHolds, PTL

-----------------------------------------------------------------------------
(* Closing and opening.                                                      *)

LEMMA InfoRebuilt ==
  ASSUME NEW f \in InfoType
  PROVE  f = FilesInfo(f.type, f.startHour, f.minHour, f.maxHour, f.maxOffset, f.indexSize)
  BY DEF InfoType, FilesInfo

(* Between two calls, open files have values: the first write was not left   *)
(* half done.                                                                *)
LEMMA OpenHasValues ==
  ASSUME StoreInv, IsOpen, call = Idle
  PROVE  index # <<>>
  BY IdleTyped DEF StoreInv, Started, IsOpen, WriteOps

(* The last entry leads to its hour, whose last value has come to pass.      *)
LEMMA LastIndexVerified ==
  ASSUME StoreInv, ContentInv, BlockInv, DatedInv, IndexAccurate, index # <<>>
  PROVE  VerifyLastIndex = "OK"
<1> DEFINE c     == Contents(data)
           last  == index[Len(index)]
           stops == {i \in last.pos + 2 .. Len(c) : ~IsValue(c, i)}
           stop  == FirstOf(c, stops)
<1>1. Len(index) \in 1 .. Len(index) /\ last.pos \in Nat
  <2>1. Len(index) \in 1 .. Len(index) /\ index \in Seq(EntryType)
    BY InvFacts
  <2> QED
    BY <2>1, EntryFields
<1>2. LeadsTo(last.pos, last.hour)
  BY <1>1 DEF IndexAccurate, Leads
<1>3. c \in Seq(Cell) /\ Len(c) \in Nat
  BY DecodedIsHistory
<1>4. ASSUME stop > last.pos + 2, LaterThanClock(TimeAt(c, stop - 1)) PROVE FALSE
  <2>1. stops \in SUBSET (1 .. Len(c))
    BY <1>1, <1>3
  <2>2. /\ stop \in 1 .. Len(c) + 1
        /\ stops # {} => \A j \in stops : stop <= j
    BY <1>3, <2>1, FirstOfInFile
  <2> HIDE DEF c, last, stop
  <2>3. stop - 1 \in last.pos + 2 .. Len(c) /\ stop - 1 \in 1 .. Len(c)
    BY <1>1, <1>3, <1>4, <2>2
  <2>4. stop - 1 \notin stops
    BY <2>2, <2>3
  <2>5. stop - 1 \in Values(c)
    BY <1>3, <2>3, <2>4 DEF Values, Within
  <2>6. /\ c[stop - 1].value \in 1 .. Len(history)
        /\ history[c[stop - 1].value].time = TimeAt(c, stop - 1)
    BY <2>5, ValueOfRank DEF c
  <2>7. TimeAt(c, stop - 1) \in Nat /\ TimeAt(c, stop - 1) <= now /\ now \in Nat
    BY <2>6, HistoryTyped, InvFacts DEF DatedInv
  <2> QED
    BY <1>4, <2>7 DEF LaterThanClock
<1>5. ~(~HasCell(data, last.pos) \/ CellAt(data, last.pos) # HourCell(last.hour))
  BY <1>2 DEF LeadsTo
<1> QED
  BY <1>4, <1>5 DEF VerifyLastIndex

LEMMA FourByteTail ==
  ASSUME KindInv, FourByteTypes, Contents(data) # <<>>
  PROVE  TailOffsets(Contents(data)) = {Contents(data)[Len(Contents(data))].offset}
<1>1. Contents(data)[1].type \in {"Float", "Int"}
  BY DEF KindInv, FourByteTypes
<1> QED
  BY <1>1 DEF TailOffsets

(* openFiles computes from the files what the writes maintained.             *)
LEMMA OpenedIsKept ==
  ASSUME StoreInv, OrderInv, FourByteTypes, IsOpen, index # <<>>
  PROVE  {OpenedInfo(offset) : offset \in TailOffsets(Contents(data))} = {info}
<1>1. /\ info.type = Contents(data)[1].type
      /\ info.maxOffset = Contents(data)[Len(Contents(data))].offset
      /\ KindInv
  BY DEF OrderInv, KindInv, TailInv
<1>2. /\ info.startHour = ToTimeT(LastHour, 0) /\ info.minHour = index[1].hour
      /\ info.maxHour = LastHour /\ info.indexSize = Len(index)
  BY HourStarts DEF LastHour, Last
<1>3. Contents(data) # <<>>
  BY DEF StoreInv, TypeOK, LogShape, FileExists
<1>4. TailOffsets(Contents(data)) = {info.maxOffset}
  BY <1>1, <1>3, FourByteTail
<1>5. OpenedInfo(info.maxOffset) = info
  BY <1>1, <1>2, InvFacts, InfoRebuilt DEF OpenedInfo
<1> QED
  BY <1>4, <1>5

(* Close followed by getFilesInfo restores the FilesInfo that was closed: a  *)
(* caller cannot tell whether the files were closed in between.              *)
THEOREM ReopenAlwaysInvisible ==
  ASSUME FourByteTypes, ReadsToEnd
  PROVE  Spec => []ReopenInvisible
<1>1. StoreInv /\ ContentInv /\ BlockInv /\ OrderInv /\ StreamInv => ReopenInvisible
  BY OpenHasValues, LastIndexVerified, OpenedIsKept DEF ReopenInvisible, StreamInv, OrderInv
<1> QED
  BY <1>1, InvariantHolds, ContentHolds, BlocksHold, OrderHolds, StreamHolds, PTL

-----------------------------------------------------------------------------
(* The series: what the steps of TimeSeries ask of the store.                *)

(* A value that is about to be written has the type of the file.             *)
TypedCall == call.op \in WriteOps => call.type = info.type

LEMMA TypeOfCalls ==
  ASSUME NEW c \in Calls
  PROVE  /\ c.op \in WriteOps => TypeOf(c) = c.type /\ c.type \in ValueTypes
         /\ c.op \notin WriteOps => TypeOf(c) = "Undefined" /\ c.op \in ReadOps
         /\ "Undefined" \notin ValueTypes
<1>1. c \in WriteCalls => c.op \in WriteOps /\ c.type \in ValueTypes
  BY TypesAssumption DEF WriteCalls, WriteOps
<1>2. c \in ReadCalls => c.op \in ReadOps /\ c.op \notin WriteOps
  BY DEF ReadCalls, ReadOps, WriteOps
<1>3. TypeOf(c) = IF c.op \in WriteOps THEN c.type ELSE "Undefined"
  BY DEF TypeOf, WriteOps
<1> QED
  BY <1>1, <1>2, <1>3 DEF Calls, ValueTypes

LEMMA IdleTypedCall ==
  ASSUME call' = Idle
  PROVE  TypedCall'
  BY IdleTyped DEF TypedCall, WriteOps

LEMMA CheckedType ==
  ASSUME NEW c \in Calls, NEW type, CheckType(c, type), info'.type = type
  PROVE  TypedCall'
<1>1. CASE call' = Idle
  BY <1>1, IdleTypedCall
<1>2. CASE TypeOf(c) \in {"Undefined", type} /\ call' = c
  BY <1>2, TypeOfCalls DEF TypedCall
<1> QED
  BY <1>1, <1>2 DEF CheckType, Admit, Refuse

LEMMA StepTypedCall ==
  ASSUME StoreInv, TypedCall, [Next]_vars
  PROVE  TypedCall'
<1>1. CASE GetFilesInfo
  <2>1. PICK c \in Calls : \/ UseOpenFiles(c) \/ OpenFiles(c) \/ OpenFilesFails(c)
                           \/ NoFile(c) \/ CreateFiles(c)
    BY <1>1 DEF GetFilesInfo
  <2>2. CASE UseOpenFiles(c)
    BY <2>2, CheckedType DEF UseOpenFiles
  <2>3. CASE OpenFiles(c)
    <3>1. CheckType(c, Contents(data)[1].type)
      BY <2>3 DEF OpenFiles
    <3> QED
      BY <2>3, <3>1, OpenedFacts, CheckedType
  <2>4. CASE OpenFilesFails(c) \/ NoFile(c)
    BY <2>4, IdleTypedCall DEF OpenFilesFails, NoFile, Refuse
  <2>5. CASE CreateFiles(c)
    <3>1. info'.type = TypeOf(c) /\ call' = c
      BY <2>5, InfoFields DEF CreateFiles, Admit
    <3> QED
      BY <3>1, TypeOfCalls DEF TypedCall
  <2> QED
    BY <2>1, <2>2, <2>3, <2>4, <2>5
<1>2. CASE WriteNow \/ WriteOld \/ WriteTime
  <2>1. call' = Idle
    BY <1>2 DEF WriteNow, WriteOld, WriteTime, WriteDated, WriteTimeValue, Return
  <2> QED
    BY <2>1, IdleTypedCall
<1>3. CASE ReadHour \/ ReadRange \/ ReadLastValue \/ GetSensorInfo
  <2>1. call' = Idle
    BY <1>3 DEF ReadHour, ReadRange, ReadLastValue, GetSensorInfo, ReadMiss, ReadMismatch, Return
  <2> QED
    BY <2>1, IdleTypedCall
<1>4. CASE CloseSensor \/ Remove
  BY <1>4, IdleTypedCall DEF CloseSensor, Remove
<1>5. CASE Tick \/ UNCHANGED vars
  BY <1>5 DEF Tick, vars, TypedCall
<1> QED
  BY <1>1, <1>2, <1>3, <1>4, <1>5 DEF Next, Body

(* The hours of the index and those of the series.                           *)
LEMMA EmptyTogether ==
  ASSUME StoreInv, ContentInv
  PROVE  /\ index = <<>> <=> history = <<>>
         /\ index # <<>> => Contents(data) # <<>>
<1>1. /\ index \in Seq(EntryType) /\ history \in Seq(ValueType)
      /\ IndexHours(index) = HoursOf(history)
  BY InvFacts DEF ContentInv, Content
<1>2. index = <<>> <=> IndexHours(index) = {}
  <2>1. CASE index = <<>>
    BY <2>1 DEF IndexHours
  <2>2. CASE index # <<>>
    <3>1. 1 \in 1 .. Len(index)
      BY <1>1, <2>2
    <3>2. index[1].hour \in IndexHours(index)
      BY <3>1, Zenon DEF IndexHours
    <3> QED
      BY <2>2, <3>2
  <2> QED
    BY <2>1, <2>2
<1>3. history = <<>> <=> HoursOf(history) = {}
  <2>1. history # <<>> => 1 \in 1 .. Len(history)
    BY <1>1
  <2> QED
    BY <2>1 DEF HoursOf
<1>4. index # <<>> => Contents(data) # <<>>
  BY DEF StoreInv, LogShape
<1> QED
  BY <1>1, <1>2, <1>3, <1>4

LEMMA EndHours ==
  ASSUME StoreInv, ContentInv, OrderInv, index # <<>>
  PROVE  /\ FromTimeT(history[1].time) = index[1].hour
         /\ FromTimeT(Last(history).time) = Last(index).hour
         /\ \A k \in 1 .. Len(history) : FromTimeT(history[k].time) <= Last(index).hour
         /\ Last(index).hour \in Nat /\ index[1].hour \in Nat
<1> DEFINE n == Len(index)
           m == Len(history)
           H(k) == FromTimeT(history[k].time)
<1>1. /\ index \in Seq(EntryType) /\ Ascending(index) /\ history # <<>>
      /\ {index[k].hour : k \in 1 .. n} = {H(k) : k \in 1 .. m}
  BY InvFacts, EmptyTogether DEF ContentInv, Content, IndexHours, HoursOf, StoreInv, IndexShape
<1>2. /\ n \in Nat \ {0} /\ m \in Nat \ {0} /\ 1 \in 1 .. n /\ n \in 1 .. n
      /\ 1 \in 1 .. m /\ m \in 1 .. m
  BY <1>1, HistoryTyped
<1>3. \A k \in 1 .. n : index[k].hour \in Nat
  BY <1>1, EntryFields
<1>4. \A k \in 1 .. m : history[k].time \in Nat /\ H(k) \in Nat
  BY HistoryTyped, HourOfTime
<1>5. \A k \in 1 .. n : index[1].hour <= index[k].hour /\ index[k].hour <= index[n].hour
  <2> SUFFICES ASSUME NEW k \in 1 .. n
               PROVE  index[1].hour <= index[k].hour /\ index[k].hour <= index[n].hour
    OBVIOUS
  <2>1. CASE k = 1
    BY <1>1, <1>2, <1>3, <2>1 DEF Ascending
  <2>2. CASE k = n
    BY <1>1, <1>2, <1>3, <2>2 DEF Ascending
  <2>3. CASE k # 1 /\ k # n
    BY <1>1, <1>2, <1>3, <2>3 DEF Ascending
  <2> QED
    BY <2>1, <2>2, <2>3
<1>6. \A j, k \in 1 .. m : j < k => H(j) <= H(k)
  BY <1>4, HourGrows DEF OrderInv, Ordered
<1>7. \A k \in 1 .. m : H(1) <= H(k) /\ H(k) <= H(m)
  <2> SUFFICES ASSUME NEW k \in 1 .. m PROVE H(1) <= H(k) /\ H(k) <= H(m)
    OBVIOUS
  <2> HIDE DEF H
  <2>1. H(1) \in Nat /\ H(k) \in Nat /\ H(m) \in Nat
    BY <1>2, <1>4
  <2>2. (k = 1 \/ 1 < k) /\ (k = m \/ k < m)
    BY <1>2
  <2> QED
    BY <1>2, <1>6, <2>1, <2>2
<1> HIDE DEF H
<1>8. PICK i \in 1 .. n : index[i].hour = H(1)
  BY <1>1, <1>2
<1>9. PICK j \in 1 .. m : H(j) = index[1].hour
  BY <1>1, <1>2
<1>10. PICK p \in 1 .. n : index[p].hour = H(m)
  BY <1>1, <1>2
<1>11. PICK q \in 1 .. m : H(q) = index[n].hour
  BY <1>1, <1>2
<1>12. H(1) = index[1].hour
  BY <1>2, <1>3, <1>4, <1>5, <1>7, <1>8, <1>9
<1>13. H(m) = index[n].hour
  BY <1>2, <1>3, <1>4, <1>5, <1>7, <1>10, <1>11
<1> QED
  BY <1>2, <1>3, <1>7, <1>12, <1>13 DEF H, Last

-----------------------------------------------------------------------------
(* Every step of the store is a step of the series, or changes nothing of it.*)

SeriesInv ==
  StoreInv /\ ContentInv /\ BlockInv /\ OrderInv /\ StreamInv /\ TypedCall

Kind == IF history = <<>> THEN "Undefined" ELSE Contents(data)[1].type

LEMMA SeriesReplies ==
  ASSUME NEW c, NEW ok, NEW values, AnswerFor(c, ok, values)
  PROVE  Series!Reply(c, ok, values)
  BY DEF AnswerFor, Series!Reply

LEMMA KindKept ==
  ASSUME UNCHANGED history, Contents(data') = Contents(data) \/ history = <<>>
  PROVE  Kind' = Kind
  BY DEF Kind

LEMMA Resumes ==
  ASSUME AnswerFor(Idle, TRUE, {}), UNCHANGED <<now, history>>, Kind' = Kind
  PROVE  Series!TNext
<1>1. Series!Reply([op |-> "Idle"], TRUE, {})
  BY SeriesReplies DEF Idle
<1> QED
  BY <1>1 DEF Series!TNext, Series!Resume, Kind

(* A read of a sensor that has no file is refused.                           *)
LEMMA RefusesRead ==
  ASSUME NEW c, c.op \in ReadOps, AnswerFor(c, FALSE, {}), history = <<>>,
         UNCHANGED <<now, history>>
  PROVE  Series!TNext
<1>1. Series!Reply(c, FALSE, {})
  BY SeriesReplies
<1>2. Kind' = Kind
  BY KindKept
<1>3. Series!RefuseRead(c)
  BY <1>1, <1>2 DEF Series!RefuseRead, Kind
<1>4. answer'.call = c
  BY DEF AnswerFor
<1> QED
  BY <1>3, <1>4 DEF Series!TNext, Series!Answered, ReadOps

LEMMA RefusesValue ==
  ASSUME NEW c, c.op \in WriteOps, AnswerFor(c, FALSE, {}),
         UNCHANGED <<now, history>>, Contents(data') = Contents(data),
         Kind \notin {"Undefined", c.type} \/ ~Series!MoreRecent(c)
  PROVE  Series!TNext
<1>1. Series!Reply(c, FALSE, {})
  BY SeriesReplies
<1>2. Kind' = Kind
  BY KindKept
<1>3. Series!RefuseValue(c)
  BY <1>1, <1>2 DEF Series!RefuseValue, Kind
<1>4. answer'.call = c
  BY DEF AnswerFor
<1> QED
  BY <1>3, <1>4 DEF Series!TNext, Series!Answered, WriteOps

(* getFilesInfo on open files, or after openFiles: the call is admitted, or  *)
(* refused because the file has values of another type.                      *)
LEMMA CheckedStep ==
  ASSUME SeriesInv, index # <<>>, NEW c \in Calls,
         CheckType(c, Contents(data)[1].type),
         Contents(data') = Contents(data), UNCHANGED <<now, history>>
  PROVE  Series!TNext
<1> DEFINE type == Contents(data)[1].type
<1>1. history # <<>> /\ Contents(data) # <<>>
  BY EmptyTogether DEF SeriesInv
<1>2. Kind = type /\ type \in ValueTypes
  BY <1>1, TypesAssumption DEF Kind, SeriesInv, OrderInv, KindInv
<1>3. CASE Admit(c)
  BY <1>3, AnswerGiven, KindKept, Resumes
<1>4. CASE TypeOf(c) \notin {"Undefined", type} /\ Refuse(c, "MISMATCH")
  <2>1. c.op \in WriteOps /\ c.type # type
    BY <1>4, TypeOfCalls
  <2>2. Kind \notin {"Undefined", c.type}
    BY <1>2, <2>1, TypeOfCalls
  <2>3. AnswerFor(c, FALSE, {})
    BY <1>4, AnswerGiven
  <2> QED
    BY <2>1, <2>2, <2>3, RefusesValue
<1> QED
  BY <1>3, <1>4 DEF CheckType

LEMMA GetSeries ==
  ASSUME SeriesInv, GetFilesInfo
  PROVE  Series!TNext
<1>1. /\ call = Idle /\ UNCHANGED <<now, history>> /\ StoreInv /\ ContentInv
      /\ data \in StreamType(Cell)
  BY InvFacts DEF GetFilesInfo, SeriesInv
<1>2. PICK c \in Calls : \/ UseOpenFiles(c) \/ OpenFiles(c) \/ OpenFilesFails(c)
                         \/ NoFile(c) \/ CreateFiles(c)
  BY DEF GetFilesInfo
<1>3. CASE UseOpenFiles(c)
  <2>1. index # <<>> /\ info.type = Contents(data)[1].type
    BY <1>1, <1>3, OpenHasValues DEF UseOpenFiles, SeriesInv, OrderInv, KindInv
  <2> QED
    BY <1>1, <1>3, <2>1, CheckedStep DEF UseOpenFiles
<1>4. ASSUME FileExists(data), ~IsOpen PROVE index # <<>>
  BY <1>1, <1>4 DEF StoreInv, Started, FileExists, IsOpen
<1>5. CASE OpenFiles(c)
  <2>1. index # <<>> /\ CheckType(c, Contents(data)[1].type) /\ data' = SeekEnd(Open(data))
    BY <1>4, <1>5 DEF OpenFiles
  <2>2. Contents(data') = Contents(data)
    BY <1>1, <2>1, OpenFacts, SeekEndFacts
  <2> QED
    BY <1>1, <2>1, <2>2, CheckedStep
<1>6. CASE OpenFilesFails(c)
  <2>1. index # <<>> /\ VerifyLastIndex # "OK"
    BY <1>4, <1>6 DEF OpenFilesFails
  <2> QED
    BY <2>1, LastIndexVerified DEF SeriesInv, OrderInv, StreamInv
<1>7. ASSUME ~FileExists(data) PROVE history = <<>>
  <2>1. index = <<>>
    BY <1>1, <1>7 DEF StoreInv, LogShape, FileExists, StreamType
  <2> QED
    BY <1>1, <2>1, EmptyTogether
<1>8. CASE NoFile(c)
  <2>1. history = <<>> /\ c.op \in ReadOps /\ AnswerFor(c, FALSE, {})
    BY <1>7, <1>8, TypeOfCalls, AnswerGiven DEF NoFile
  <2> QED
    BY <1>1, <2>1, RefusesRead
<1>9. CASE CreateFiles(c)
  <2>1. history = <<>> /\ AnswerFor(Idle, TRUE, {})
    BY <1>7, <1>9, AnswerGiven DEF CreateFiles
  <2> QED
    BY <1>1, <2>1, KindKept, Resumes
<1> QED
  BY <1>2, <1>3, <1>5, <1>6, <1>8, <1>9

(* The rule of the more recent value is the one of the series: maxHour and   *)
(* maxOffset stand for the time of the last value.                           *)
LEMMA RuleOfSeries ==
  ASSUME SeriesInv, call.op \in WriteOps, TimeOfWrite \in Nat, TimeOfWrite <= now
  PROVE  /\ LetThrough(TimeOfWrite) => Series!MoreRecent(call)
         /\ call.op # "WriteValue" /\ HasMoreRecent(TimeOfWrite) => ~Series!MoreRecent(call)
<1> DEFINE t == TimeOfWrite
<1>1. /\ IsOpen /\ StoreInv /\ ContentInv /\ DatedInv /\ TailInv /\ now \in Nat
  BY InvFacts, IdleTyped DEF SeriesInv, OrderInv, WriteOps, IsOpen
<1>2. Series!TimeOf(call) = t
  BY DEF Series!TimeOf, TimeOfWrite, CallTime, WriteOps
<1>3. Series!MoreRecent(call) <=> \/ history = <<>>
                                  \/ t > Last(history).time
                                  \/ call.op = "WriteValue" /\ t = Last(history).time
  <2> HIDE DEF t
  <2> QED
    BY <1>2 DEF Series!MoreRecent, Series!Last, Last
<1>4. CASE history = <<>>
  <2>1. info.maxHour = 0
    BY <1>1, <1>4, LastTime
  <2> QED
    BY <1>3, <1>4, <2>1 DEF HasMoreRecent
<1>5. CASE history # <<>>
  <2>1. /\ info.maxHour # 0 /\ info.maxHour \in Nat
        /\ Last(history).time = ToTimeT(info.maxHour, info.maxOffset)
        /\ Last(history).time \in Nat
    BY <1>1, <1>5, LastTime, InvFacts
  <2>2. Last(history).time <= now
    <3>1. Len(history) \in 1 .. Len(history)
      BY <1>1, <1>5, LastLogged, EmptyTogether
    <3> QED
      BY <1>1, <3>1 DEF DatedInv, Last
  <2>3. HasMoreRecent(t) <=> t <= Last(history).time
    BY <2>1 DEF HasMoreRecent
  <2>4. call.op = "WriteValue" => t = now
    BY DEF TimeOfWrite
  <2>5. t \in Nat
    OBVIOUS
  <2> HIDE DEF t
  <2>6. call.op = "WriteValue" => Series!MoreRecent(call)
    BY <1>1, <1>3, <2>1, <2>2, <2>4, <2>5
  <2>7. call.op # "WriteValue" => (Series!MoreRecent(call) <=> ~HasMoreRecent(t))
    BY <1>3, <1>5, <2>1, <2>3, <2>5
  <2> QED
    BY <2>6, <2>7 DEF LetThrough, t
<1> QED
  BY <1>4, <1>5

LEMMA WriteSeries ==
  ASSUME SeriesInv, WriteNow \/ WriteOld \/ WriteTime
  PROVE  Series!TNext
<1> DEFINE t == TimeOfWrite
<1>1. /\ StoreInv /\ ContentInv /\ IsOpen /\ call.op \in WriteOps /\ UNCHANGED now
      /\ t \in Nat /\ HourSecs <= t /\ t <= now
      /\ \/ call.op # "WriteValue" /\ RefusedByRule(t)
         \/ LetThrough(t) /\ info.startHour <= t /\ WriteTimeValue(t)
  BY WriteReached DEF SeriesInv
<1>2. CASE call.op # "WriteValue" /\ RefusedByRule(t)
  <2>1. /\ HasMoreRecent(t) /\ AnswerFor(call, FALSE, {}) /\ UNCHANGED <<data, history>>
    BY <1>2, AnswerGiven DEF RefusedByRule
  <2>2. ~Series!MoreRecent(call)
    BY <1>1, <1>2, <2>1, RuleOfSeries
  <2> QED
    BY <1>1, <2>1, <2>2, RefusesValue
<1>3. CASE LetThrough(t) /\ info.startHour <= t /\ WriteTimeValue(t)
  <2>1. Written(t)
    BY <1>1, <1>3 DEF Written
  <2>2. Series!MoreRecent(call)
    BY <1>1, <1>3, RuleOfSeries
  <2>3. /\ history' = Append(history, [time |-> t, value |-> Len(history) + 1])
        /\ AnswerFor(call, TRUE, {})
    BY <1>3, AnswerGiven DEF WriteTimeValue, NextValue
  <2>4. info.type = call.type /\ info.type = Contents(data)[1].type
    BY <1>1 DEF SeriesInv, TypedCall, OrderInv, KindInv
  <2>5. Kind \in {"Undefined", call.type}
    BY <2>4 DEF Kind
  <2>6. history' # <<>>
    <3>1. Len(history') = Len(history) + 1 /\ Len(history) \in Nat
      BY <1>1, <2>1, WrittenHistory
    <3> QED
      BY <3>1
  <2>7. Contents(data')[1] = Contents(data)[1]
    BY <1>1, <2>1, WriteEffect
  <2>8. Kind' = call.type
    BY <2>4, <2>6, <2>7 DEF Kind
  <2>9. Series!TimeOf(call) = t
    BY <1>1 DEF Series!TimeOf, TimeOfWrite, CallTime, WriteOps
  <2>10. Series!Reply(call, TRUE, {})
    BY <2>3, SeriesReplies
  <2>11. answer'.call = call
    BY <2>3 DEF AnswerFor
  <2> HIDE DEF t
  <2>12. Series!Accept(call)
    BY <1>1, <2>2, <2>3, <2>5, <2>8, <2>9, <2>10 DEF Series!Accept, Kind
  <2> QED
    BY <1>1, <2>11, <2>12 DEF Series!TNext, Series!Answered, WriteOps
<1> QED
  BY <1>1, <1>2, <1>3

(* The search finds the hours at the ends of the index: what it returns      *)
(* there leads to an hour, so it is not the place of the header.             *)
LEMMA EndIsFound ==
  ASSUME SeriesInv, IsOpen, index # <<>>, NEW hour \in {index[1].hour, Last(index).hour}
  PROVE  FindHour(hour) # NotFound
<1>1. /\ StoreInv /\ IndexAccurate /\ hour \in {info.minHour, info.maxHour}
      /\ 1 \in 1 .. Len(index) /\ Len(index) \in 1 .. Len(index)
  <2>1. index \in Seq(EntryType) /\ StoreInv /\ IndexAccurate
    BY InvFacts DEF SeriesInv, StreamInv
  <2> QED
    BY <2>1, HourStarts
<1>2. PICK k \in 1 .. Len(index) : FindHour(hour) = index[k].pos
  BY <1>1, EndsAreFound DEF EndsFound, Last
<1>3. LeadsTo(index[k].pos, index[k].hour) /\ index[k].pos \in Nat
  BY <1>1, InvFacts, EntryFields DEF IndexAccurate, Leads
<1>4. SUFFICES ASSUME index[k].pos = 0 PROVE FALSE
  BY <1>2 DEF NotFound
<1>5. Contents(data)[1] = HourCell(index[k].hour) /\ Contents(data)[1].kind = "header"
  BY <1>1, <1>3, <1>4, LeadsFacts
<1> QED
  BY <1>5 DEF HourCell

LEMMA ReadFacts ==
  ASSUME SeriesInv, ReadHour \/ ReadRange \/ ReadLastValue \/ GetSensorInfo
  PROVE  /\ StoreInv /\ ContentInv /\ BlockInv /\ OrderInv /\ IndexAccurate /\ RunsToEnd
         /\ IsOpen /\ index # <<>> /\ history # <<>> /\ call \in CallType
         /\ UNCHANGED <<now, history>> /\ Kind' = Kind
<1>1. call.op \in ReadOps /\ UNCHANGED now
  BY DEF ReadOps, ReadHour, ReadRange, ReadLastValue, GetSensorInfo
<1>2. /\ StoreInv /\ ContentInv /\ BlockInv /\ OrderInv /\ IndexAccurate /\ RunsToEnd
      /\ IsOpen /\ index # <<>>
  BY <1>1, ReadsOpen DEF SeriesInv, StreamInv
<1>3. history # <<>> /\ call \in CallType
  BY <1>2, EmptyTogether, InvFacts
<1>4. Contents(data') = Contents(data) /\ UNCHANGED history
  BY <1>2, ReadContent
<1> QED
  BY <1>1, <1>2, <1>3, <1>4, KindKept

LEMMA ReadHourSeries ==
  ASSUME SeriesInv, ReadHour
  PROVE  Series!TNext
<1> DEFINE hour   == call.hour
           pos    == FindHour(hour)
           c      == Contents(data)
           wanted == {v \in Members(history) : FromTimeT(v.time) = hour}
<1>1. /\ StoreInv /\ ContentInv /\ BlockInv /\ OrderInv /\ IndexAccurate /\ RunsToEnd
      /\ IsOpen /\ index # <<>> /\ history # <<>> /\ call \in CallType
      /\ UNCHANGED <<now, history>> /\ Kind' = Kind
  BY ReadFacts
<1>2. call.op = "ReadHour" /\ hour \in Nat /\ Last(index).hour <= hour
  BY <1>1 DEF ReadHour, CallType, RunsToEnd, Idle
<1>3. AnswerFor(call, TRUE, wanted)
  <2>1. CASE pos = NotFound
    <3>1. AnswerFor(call, TRUE, {})
      BY <1>1, <2>1, AnswerGiven DEF ReadHour, ReadMiss
    <3>2. hour # Last(index).hour
      BY <1>1, <2>1, EndIsFound
    <3>3. ASSUME NEW k \in 1 .. Len(history) PROVE FromTimeT(history[k].time) # hour
      <4>1. FromTimeT(history[k].time) <= Last(index).hour /\ Last(index).hour \in Nat
        BY <1>1, EndHours
      <4>2. FromTimeT(history[k].time) \in Nat
        BY <1>1, HistoryTyped, HourOfTime
      <4> HIDE DEF hour
      <4> QED
        BY <1>2, <3>2, <4>1, <4>2
    <3>4. wanted = {}
      BY <3>3 DEF Members
    <3> QED
      BY <3>1, <3>4
  <2>2. CASE pos # NotFound
    <3>1. pos \in Nat /\ LeadsTo(pos, hour)
      BY <1>1, <1>2, <2>2, FoundLeads
    <3>2. Return(TRUE, "", {Stamped(c, i) : i \in Within(c, pos + 1, HourStop(c, pos + 1))})
      BY <2>2, <3>1 DEF ReadHour
    <3> HIDE DEF pos, hour
    <3>3. {Stamped(c, i) : i \in Within(c, pos + 1, HourStop(c, pos + 1))} = wanted
      BY <1>1, <1>2, <3>1, HourCollected
    <3> QED
      BY <3>2, <3>3, AnswerGiven
  <2> QED
    BY <2>1, <2>2
<1>4. wanted = {v \in Series!Values : Series!Hour(v.time) = call.hour}
  BY DEF Members, Series!Values, Series!Hour, FromTimeT
<1> HIDE DEF wanted
<1>5. Series!TellHour(call)
  BY <1>1, <1>3, <1>4, SeriesReplies DEF Series!TellHour, Kind
<1>6. answer'.call = call
  BY <1>3 DEF AnswerFor
<1> QED
  BY <1>2, <1>5, <1>6 DEF Series!TNext, Series!Answered

LEMMA ReadRangeSeries ==
  ASSUME SeriesInv, ReadRange
  PROVE  Series!TNext
<1> DEFINE begin  == call.begin
           end    == call.end
           hour   == FromTimeT(begin)
           pos    == FindHour(hour)
           c      == Contents(data)
           stop   == RangeStop(c, pos + 1, end)
           read   == {v \in {Stamped(c, i) : i \in Within(c, pos + 1, stop)} : v.time >= begin}
           wanted == {v \in Members(history) : begin <= v.time /\ v.time <= end}
<1>1. /\ StoreInv /\ ContentInv /\ BlockInv /\ OrderInv /\ IndexAccurate
      /\ IsOpen /\ index # <<>> /\ history # <<>> /\ call \in CallType
      /\ UNCHANGED <<now, history>> /\ Kind' = Kind
  BY ReadFacts
<1>2. call.op = "ReadRange" /\ begin \in Nat /\ end \in Nat /\ hour \in Nat
  BY <1>1, HourOfTime DEF ReadRange, CallType, Idle
<1>3. wanted = {v \in Series!Values : call.begin <= v.time /\ v.time <= call.end}
  BY DEF Members, Series!Values
<1>4. CASE pos = NotFound
  <2>1. AnswerFor(call, TRUE, {})
    BY <1>1, <1>4, AnswerGiven DEF ReadRange, ReadMiss
  <2>2. hour \notin {FromTimeT(history[1].time), FromTimeT(Last(history).time)}
    BY <1>1, <1>4, EndIsFound, EndHours
  <2>3. Series!Hour(call.begin) \notin
          {Series!Hour(history[1].time), Series!Hour(Series!Last.time)}
    BY <2>2 DEF Series!Hour, Series!Last, Last, FromTimeT
  <2>4. Series!TellRange(call)
    BY <1>1, <2>1, <2>3, SeriesReplies DEF Series!TellRange, Kind
  <2>5. answer'.call = call
    BY <2>1 DEF AnswerFor
  <2> QED
    BY <1>2, <2>4, <2>5 DEF Series!TNext, Series!Answered
<1>5. CASE pos # NotFound
  <2>1. pos \in Nat /\ LeadsTo(pos, hour)
    BY <1>1, <1>2, <1>5, FoundLeads
  <2>2. Return(TRUE, "", read)
    BY <1>5, <2>1 DEF ReadRange
  <2>3. read = wanted
    <3> HIDE DEF pos, begin, end
    <3> QED
      BY <1>1, <1>2, <2>1, RangeCollected
  <2>4. AnswerFor(call, TRUE, wanted)
    BY <2>2, <2>3, AnswerGiven
  <2> HIDE DEF wanted
  <2>5. Series!TellRange(call)
    BY <1>1, <1>3, <2>4, SeriesReplies DEF Series!TellRange, Kind
  <2>6. answer'.call = call
    BY <2>4 DEF AnswerFor
  <2> QED
    BY <1>2, <2>5, <2>6 DEF Series!TNext, Series!Answered
<1> QED
  BY <1>4, <1>5

LEMMA ReadLastSeries ==
  ASSUME SeriesInv, ReadLastValue
  PROVE  Series!TNext
<1> DEFINE hour == info.maxHour
           c    == Contents(data)
           told == [time |-> ToTimeT(hour, c[Len(c)].offset), value |-> c[Len(c)].value]
<1>1. /\ StoreInv /\ ContentInv /\ OrderInv /\ DatedInv /\ IndexAccurate
      /\ IsOpen /\ index # <<>> /\ history # <<>>
      /\ UNCHANGED <<now, history>> /\ Kind' = Kind
  BY ReadFacts DEF OrderInv
<1>2. hour \in Nat /\ hour = Last(index).hour
  BY <1>1, HourStarts
<1>3. FindHour(hour) # NotFound
  BY <1>1, <1>2, EndIsFound
<1>4. LeadsTo(FindHour(hour), hour)
  BY <1>1, <1>2, <1>3, FoundLeads
<1>5. Return(TRUE, "", {told})
  BY <1>3, <1>4 DEF ReadLastValue
<1>6. told = Last(history)
  <2>1. Stamped(c, Len(c)) = Last(history)
    BY <1>1, LastLogged
  <2>2. HourAt(c, Len(c)) = hour
    BY <1>1, <1>2 DEF ContentInv, Content, EndsInLastHour
  <2> HIDE DEF c, hour
  <2> QED
    BY <2>1, <2>2 DEF Stamped, TimeAt
<1>7. AnswerFor(call, TRUE, {Series!Last})
  <2>1. AnswerFor(call, TRUE, {told})
    BY <1>5, AnswerGiven
  <2> HIDE DEF told
  <2> QED
    BY <1>6, <2>1 DEF Series!Last, Last
<1>8. Series!TellLast(call)
  BY <1>1, <1>7, SeriesReplies DEF Series!TellLast, Kind
<1>9. answer'.call = call /\ call.op = "ReadLastValue"
  BY <1>7 DEF AnswerFor, ReadLastValue
<1> QED
  BY <1>8, <1>9 DEF Series!TNext, Series!Answered

LEMMA SensorInfoSeries ==
  ASSUME SeriesInv, GetSensorInfo
  PROVE  Series!TNext
<1>1. /\ StoreInv /\ ContentInv /\ OrderInv /\ IsOpen /\ index # <<>> /\ history # <<>>
      /\ UNCHANGED <<now, history>> /\ Kind' = Kind
  BY ReadFacts
<1>2. /\ info.minHour = FromTimeT(history[1].time) /\ info.minHour \in Nat
      /\ info.maxHour = FromTimeT(Last(history).time) /\ info.maxHour \in Nat
  BY <1>1, EndHours, HourStarts
<1>3. \A h \in Nat : ToTimeT(h, 0) = HourSecs * h
  BY HourSecsAssumption DEF ToTimeT
<1>4. /\ ToTimeT(info.minHour, 0) = HourSecs * Series!Hour(history[1].time)
      /\ ToTimeT(info.maxHour, 0) = HourSecs * Series!Hour(Series!Last.time)
  <2>1. /\ Series!Hour(history[1].time) = info.minHour
        /\ Series!Hour(Series!Last.time) = info.maxHour
    BY <1>2 DEF Series!Hour, Series!Last, Last, FromTimeT
  <2> QED
    BY <1>2, <1>3, <2>1
<1>5. AnswerFor(call, TRUE, {[time |-> ToTimeT(info.minHour, 0), value |-> 0],
                             [time |-> ToTimeT(info.maxHour, 0), value |-> 0]})
  BY AnswerGiven DEF GetSensorInfo
<1>6. AnswerFor(call, TRUE,
                {[time |-> HourSecs * Series!Hour(history[1].time), value |-> 0],
                 [time |-> HourSecs * Series!Hour(Series!Last.time), value |-> 0]})
  BY <1>4, <1>5, Zenon
<1>7. Series!TellInfo(call)
  BY <1>1, <1>6, SeriesReplies DEF Series!TellInfo, Kind
<1>8. answer'.call = call /\ call.op = "GetSensorInfo"
  BY <1>6 DEF AnswerFor, GetSensorInfo
<1> QED
  BY <1>7, <1>8 DEF Series!TNext, Series!Answered

LEMMA CloseSeries ==
  ASSUME SeriesInv, CloseSensor
  PROVE  Series!TNext
<1>1. Contents(data') = Contents(data) /\ UNCHANGED <<now, history>> /\ answer' = NoAnswer
  BY InvFacts, CloseFacts DEF CloseSensor, SeriesInv
<1>2. AnswerFor(Idle, TRUE, {})
  BY <1>1 DEF AnswerFor, NoAnswer
<1> QED
  BY <1>1, <1>2, KindKept, Resumes

(* Remove says whether there was a file, which is whether there were values. *)
LEMMA RemoveSeries ==
  ASSUME SeriesInv, Remove
  PROVE  Series!TNext
<1>1. call.op = "Idle" /\ StoreInv /\ ContentInv
  BY IdleTyped DEF Remove, SeriesInv
<1>2. FileExists(data) <=> history # <<>>
  <2>1. FileExists(data) => index # <<>>
    BY <1>1 DEF StoreInv, TypeOK, Started, FileExists, WriteOps, IsOpen
  <2>2. index # <<>> => FileExists(data)
    BY <1>1, EmptyTogether, InvFacts DEF StoreInv, LogShape, FileExists, StreamType
  <2> QED
    BY <1>1, <2>1, <2>2, EmptyTogether
<1>3. FileExists(data) = (history # <<>>)
  BY <1>2 DEF FileExists
<1>4. AnswerFor([op |-> "Remove"], history # <<>>, {})
  <2>1. answer' = Answer([op |-> "Remove"], FileExists(data),
                         IF FileExists(data) THEN "" ELSE "REMOVE_DAT", {})
    BY DEF Remove
  <2>2. AnswerFor([op |-> "Remove"], FileExists(data), {})
    BY <2>1 DEF AnswerFor, Answer
  <2> QED
    BY <1>3, <2>2
<1>5. Kind' = "Undefined" /\ history' = <<>> /\ UNCHANGED now
  BY DEF Remove, Kind
<1>6. Series!Reply([op |-> "Remove"], history # <<>>, {})
  BY <1>4, SeriesReplies
<1> QED
  BY <1>5, <1>6 DEF Series!TNext, Series!Forget, Kind

LEMMA StepSeries ==
  ASSUME SeriesInv, [Next]_vars
  PROVE  [Series!TNext]_Series!tvars
<1>1. CASE GetFilesInfo
  BY <1>1, GetSeries
<1>2. CASE WriteNow \/ WriteOld \/ WriteTime
  BY <1>2, WriteSeries
<1>3. CASE ReadHour \/ ReadRange \/ ReadLastValue \/ GetSensorInfo
  BY <1>3, ReadHourSeries, ReadRangeSeries, ReadLastSeries, SensorInfoSeries
<1>4. CASE CloseSensor \/ Remove
  BY <1>4, CloseSeries, RemoveSeries
<1>5. CASE Tick
  <2>1. now' = now + 1 /\ UNCHANGED <<data, history, answer>>
    BY <1>5 DEF Tick
  <2> QED
    BY <2>1 DEF Series!TNext, Series!Advance
<1>6. CASE UNCHANGED vars
  BY <1>6 DEF vars, Series!tvars
<1> QED
  BY <1>1, <1>2, <1>3, <1>4, <1>5, <1>6 DEF Next, Body

LEMMA InitSeries ==
  ASSUME Init
  PROVE  Series!TInit
  BY NoneAnswered DEF Init, Series!TInit, NoAnswer, Idle

(* The files, the index and the buffers are invisible: every call of the     *)
(* class is a step of a series that only grows at its end and whose answers  *)
(* are functions of the series, as long as every read runs to the end.       *)
THEOREM FilesImplementSeries ==
  ASSUME FourByteTypes, ReadsToEnd
  PROVE  Spec => ImplementsTimeSeries
<1>1. Init => TypedCall
  BY IdleTyped DEF Init, TypedCall, WriteOps
<1>2. StoreInv /\ TypedCall /\ [Next]_vars => TypedCall'
  BY StepTypedCall
<1>3. Spec => []TypedCall
  BY <1>1, <1>2, InvariantHolds, PTL DEF Spec
<1>4. StoreInv /\ ContentInv /\ BlockInv /\ OrderInv /\ StreamInv /\ TypedCall => SeriesInv
  BY DEF SeriesInv
<1>5. Spec => []SeriesInv
  BY <1>3, <1>4, InvariantHolds, ContentHolds, BlocksHold, OrderHolds, StreamHolds, PTL
<1>6. SeriesInv /\ [Next]_vars => [Series!TNext]_Series!tvars
  BY StepSeries
<1>7. Init => Series!TInit
  BY InitSeries
<1> QED
  BY <1>5, <1>6, <1>7, PTL DEF Spec, ImplementsTimeSeries, Series!TSpec
=============================================================================
