-------------------------- MODULE ClockStepsProofs ---------------------------
(* The store under a clock that is stepped back, proved for every length of  *)
(* an hour, every buffer, every set of value types and any number of steps   *)
(* of the clock in both directions.                                          *)
EXTENDS ClockSteps, SensorStoreProofs

(* Values are dated by the caller, none of them in the hour 0, and an offset *)
(* fits in its 16 bits without being an end mark.                            *)
OffsetsFit == HourSecs <= 65534

DatedLife == "WriteValue" \notin Writes /\ FirstDate = HourSecs /\ OffsetsFit

-----------------------------------------------------------------------------
(* The inductive invariant.                                                  *)

(* The last entry of the index leads to the last block of the data file,     *)
(* which ends in the last value that was accepted.                           *)
EndsInBlock(c, idx, h) ==
  LET last == Last(idx)
  IN  idx # <<>> =>
        /\ h # <<>>
        /\ last.pos + 2 <= Len(c) /\ c[last.pos + 1] = HourCell(last.hour)
        /\ \A i \in last.pos + 2 .. Len(c) : IsValue(c, i)
        /\ Last(h).time = ToTimeT(last.hour, c[Len(c)].offset)

(* The date a call that is still to run writes at.                           *)
DatedCall(c, clock) ==
  /\ c.op # "WriteValue"
  /\ c.op = "WriteOldValue" =>
       c.offset \in Nat /\ HourSecs <= clock - c.offset /\ clock - c.offset <= MaxTime
  /\ c.op = "WriteTimeValue" => c.time \in Nat /\ HourSecs <= c.time /\ c.time <= MaxTime

ClockFiles ==
  /\ now \in Nat /\ HourSecs <= now /\ now <= MaxTime
  /\ data \in StreamType(Cell) /\ index \in Seq(EntryType) /\ info \in InfoType
  /\ history \in Seq(ValueType)
  /\ IsOpen => FileExists(data) /\ AtEnd(data) /\ InfoAgrees(info, index)
  /\ LogShape(data, index)
  /\ IndexShape(index, MaxTime)
  /\ EndsInBlock(Contents(data), index, history)
  /\ index = <<>> => history = <<>>

ClockInv ==
  /\ ClockFiles
  /\ call # Idle => IsOpen
  /\ DatedCall(call, now)
  /\ Started(index, data, info, call)

-----------------------------------------------------------------------------
(* The invariant, unfolded once.                                             *)

LEMMA ClockFacts ==
  ASSUME ClockInv
  PROVE  /\ now \in Nat /\ HourSecs <= now /\ now <= MaxTime
         /\ data \in StreamType(Cell) /\ Contents(data) \in Seq(Cell)
         /\ Len(Contents(data)) \in Nat
         /\ index \in Seq(EntryType) /\ Len(index) \in Nat
         /\ history \in Seq(ValueType) /\ Len(history) \in Nat
         /\ info \in InfoType /\ info.startHour \in Nat /\ info.maxHour \in Nat
         /\ info.minHour \in Nat /\ info.maxOffset \in Nat
<1>1. info \in InfoType /\ data \in StreamType(Cell) /\ history \in Seq(ValueType)
  BY DEF ClockInv, ClockFiles
<1>2. /\ info.startHour \in Nat /\ info.maxHour \in Nat /\ info.minHour \in Nat
      /\ info.maxOffset \in Nat
  BY <1>1 DEF InfoType
<1>3. Contents(data) \in Seq(Cell) /\ Len(Contents(data)) \in Nat
  BY <1>1, ContentsFacts
<1>4. Len(history) \in Nat
  BY <1>1
<1>5. index \in Seq(EntryType)
  BY DEF ClockInv, ClockFiles
<1>6. Len(index) \in Nat
  BY <1>5
<1> QED
  BY <1>1, <1>2, <1>3, <1>4, <1>5, <1>6 DEF ClockInv, ClockFiles

(* FilesInfo of an open sensor that has an hour.                             *)
LEMMA LastHourOpen ==
  ASSUME ClockInv, IsOpen, index # <<>>
  PROVE  /\ Last(index).hour \in Nat \ {0} /\ Last(index).pos \in Nat
         /\ info.maxHour = Last(index).hour
         /\ info.startHour = ToTimeT(Last(index).hour, 0) /\ info.startHour > 0
         /\ info.minHour # 0
<1>1. /\ index \in Seq(EntryType) /\ InfoAgrees(info, index) /\ IndexShape(index, MaxTime)
  BY DEF ClockInv, ClockFiles
<1>2. Len(index) \in 1 .. Len(index) /\ 1 \in 1 .. Len(index)
  BY <1>1
<1>3. Last(index).hour \in Nat /\ index[1].hour \in Nat /\ Last(index).pos \in Nat
  BY <1>1, <1>2, EntryFields DEF Last
<1>4. index[1].hour # 0 /\ Len(index) <= Last(index).hour - index[1].hour + 1
  BY <1>1 DEF IndexShape
<1>5. Last(index).hour \in Nat \ {0}
  BY <1>2, <1>3, <1>4
<1>6. \A h \in Nat \ {0} : ToTimeT(h, 0) > 0
  <2>1. \A h, s \in Nat \ {0} : h * s > 0
    OBVIOUS
  <2> QED
    BY <2>1, HourSecsAssumption DEF ToTimeT
<1> QED
  BY <1>1, <1>2, <1>3, <1>4, <1>5, <1>6 DEF InfoAgrees

LEMMA NoHourOpen ==
  ASSUME ClockInv, IsOpen, index = <<>>
  PROVE  info.maxHour = 0 /\ info.startHour = 0 /\ info.minHour = 0 /\ info.indexSize = 0
<1>1. InfoAgrees(info, index)
  BY DEF ClockInv, ClockFiles
<1>2. Len(<<>>) = 0
  OBVIOUS
<1> QED
  BY <1>1, <1>2 DEF InfoAgrees

(* A date that the rule lets through: before the first hour there is none,   *)
(* later it is not before the running hour.                                  *)
LEMMA DateLetThrough ==
  ASSUME ClockInv, IsOpen, NEW time \in Nat, HourSecs <= time, ~HasMoreRecent(time)
  PROVE  /\ info.startHour <= time
         /\ index = <<>> => StartsHour(time)
         /\ index # <<>> /\ StartsHour(time) => Last(index).hour < FromTimeT(time)
<1>1. CASE index = <<>>
  <2>1. info.startHour = 0
    BY <1>1, NoHourOpen
  <2> QED
    BY <1>1, <2>1, HourSecsAssumption DEF StartsHour
<1>2. CASE index # <<>>
  <2> DEFINE last  == Last(index).hour
             start == ToTimeT(last, 0)
             hour  == FromTimeT(time)
  <2>1. /\ last \in Nat \ {0} /\ info.maxHour = last /\ info.startHour = start
        /\ info.maxOffset \in Nat /\ start \in Nat
    BY <1>2, LastHourOpen, ClockFacts, TimeTyped
  <2>2. ToTimeT(last, info.maxOffset) = start + info.maxOffset
    BY <2>1, HourSecsAssumption DEF ToTimeT
  <2>3. start + info.maxOffset < time
    BY <2>1, <2>2 DEF HasMoreRecent
  <2>4. start <= time
    BY <2>1, <2>3
  <2>5. ASSUME StartsHour(time) PROVE last < hour
    <3>1. time - start > HourSecs - 1
      BY <2>1, <2>5 DEF StartsHour
    <3>2. hour \in Nat /\ time < ToTimeT(hour, 0) + HourSecs /\ ToTimeT(hour, 0) \in Nat
      BY HourOfTime
    <3> HIDE DEF hour, last, start
    <3>3. start < ToTimeT(hour, 0)
      BY <2>1, <3>1, <3>2, HourSecsAssumption
    <3> QED
      BY <2>1, <3>2, <3>3, HoursOrdered DEF start
  <2> QED
    BY <1>2, <2>1, <2>4, <2>5
<1> QED
  BY <1>1, <1>2

-----------------------------------------------------------------------------
(* Writes.                                                                   *)

(* The cells of a new hour behind a data file.                               *)
LEMMA NewHourCells ==
  ASSUME NEW c \in Seq(Cell), c # <<>>, NEW ce \in {c, Append(c, EndLine)},
         NEW x \in Cell, NEW y \in Cell, NEW d, d = Append(Append(ce, x), y)
  PROVE  /\ ce \in Seq(Cell) /\ Len(ce) \in Nat \ {0}
         /\ Len(d) = Len(ce) + 2 /\ d # <<>> /\ d[1] = c[1]
         /\ d[Len(ce) + 1] = x /\ d[Len(ce) + 2] = y
<1>1. EndLine \in Cell
  BY CellsMade
<1>2. ce \in Seq(Cell) /\ ce # <<>> /\ ce[1] = c[1]
  <2> HIDE DEF EndLine
  <2>1. Append(c, EndLine) \in Seq(Cell) /\ Append(c, EndLine) # <<>> /\ Append(c, EndLine)[1] = c[1]
    BY <1>1, CellsGrow
  <2> QED
    BY <2>1
<1>3. Len(ce) \in Nat \ {0}
  BY <1>2
<1>4. /\ Append(Append(ce, x), y)[1] = ce[1] /\ Len(Append(Append(ce, x), y)) = Len(ce) + 2
      /\ Append(Append(ce, x), y)[Len(ce) + 1] = x /\ Append(Append(ce, x), y)[Len(ce) + 2] = y
  BY <1>2, CellsGrow
<1>5. d # <<>>
  BY <1>3, <1>4
<1> QED
  BY <1>2, <1>3, <1>4, <1>5

(* The stream and the index behind a write that begins an hour.              *)
LEMMA NewHourPut ==
  ASSUME ClockInv, IsOpen, NEW time \in Nat, WriteInNewHour(time)
  PROVE  /\ data' \in StreamType(Cell) /\ data'.state = "present" /\ AtEnd(data')
         /\ \E ce \in {Contents(data), Append(Contents(data), EndLine)} :
              /\ Contents(data') =
                   Append(Append(ce, HourCell(FromTimeT(time))),
                          ValueCell(OffsetIn(FromTimeT(time), time), NextValue))
              /\ index' = Append(index, Entry(FromTimeT(time), Len(ce)))
<1> DEFINE hour  == FromTimeT(time)
           ended == BlockEnd(info.startHour)
           c     == Contents(data)
           ce    == Contents(ended)
           x     == HourCell(hour)
           y     == ValueCell(OffsetIn(hour, time), NextValue)
<1>1. /\ data \in StreamType(Cell) /\ AtEnd(data) /\ data.state = "present"
  BY DEF ClockInv, ClockFiles, FileExists
<1>2. x \in Cell /\ y \in Cell /\ EndLine \in Cell
  <2>1. NextValue \in Nat
    BY ClockFacts DEF NextValue
  <2> QED
    BY <2>1, HourOfTime, CellsMade
<1>3. ended \in {data, Put(data, EndLine)}
  BY DEF BlockEnd
<1>4. index' = Append(index, Entry(hour, Tellp(ended))) /\ data' = Put(Put(ended, x), y)
  BY DEF WriteInNewHour
<1> HIDE DEF ended, x, y, hour
<1>5. /\ ended \in StreamType(Cell) /\ AtEnd(ended) /\ ended.state = "present"
      /\ ce \in {c, Append(c, EndLine)}
  <2> HIDE DEF EndLine
  <2>1. /\ Put(data, EndLine) \in StreamType(Cell) /\ AtEnd(Put(data, EndLine))
        /\ Contents(Put(data, EndLine)) = Append(c, EndLine)
        /\ Put(data, EndLine).state = "present"
    BY <1>1, <1>2, PutFacts
  <2> QED
    BY <1>1, <1>3, <2>1
<1>6. Tellp(ended) = Len(ce)
  BY <1>5, TellpAtEnd
<1>7. /\ data' \in StreamType(Cell) /\ AtEnd(data') /\ data'.state = "present"
      /\ Contents(data') = Append(Append(ce, x), y)
  <2> DEFINE mid == Put(ended, x)
  <2>1. /\ mid \in StreamType(Cell) /\ AtEnd(mid) /\ Contents(mid) = Append(ce, x)
        /\ mid.state = "present"
    BY <1>2, <1>5, PutFacts
  <2> HIDE DEF mid
  <2>2. data' = Put(mid, y)
    BY <1>4 DEF mid
  <2> QED
    BY <1>2, <2>1, <2>2, PutFacts
<1> QED
  BY <1>4, <1>5, <1>6, <1>7 DEF x, y, hour

LEMMA AcceptedLast ==
  ASSUME ClockInv, NEW time \in Nat,
         history' = Append(history, [time |-> time, value |-> NextValue])
  PROVE  /\ history' \in Seq(ValueType) /\ history' # <<>> /\ Last(history').time = time
         /\ Len(history') = Len(history) + 1
         /\ \A k \in 1 .. Len(history) : history'[k] = history[k]
<1> DEFINE v == [time |-> time, value |-> NextValue]
<1>1. history \in Seq(ValueType) /\ Len(history) \in Nat /\ NextValue \in Nat
  BY ClockFacts DEF NextValue
<1>2. v \in ValueType /\ v.time = time
  BY <1>1 DEF ValueType
<1> HIDE DEF v
<1>3. /\ Append(history, v) \in Seq(ValueType) /\ Append(history, v) # <<>>
      /\ Len(Append(history, v)) = Len(history) + 1
      /\ Append(history, v)[Len(history) + 1] = v
      /\ \A k \in 1 .. Len(history) : Append(history, v)[k] = history[k]
  BY <1>1, <1>2
<1> QED
  BY <1>2, <1>3 DEF Last, v

LEMMA NewHourKeeps ==
  ASSUME ClockInv, IsOpen, NEW time \in Nat, HourSecs <= time, time <= MaxTime,
         ~HasMoreRecent(time), WriteInNewHour(time), UNCHANGED now,
         history' = Append(history, [time |-> time, value |-> NextValue])
  PROVE  /\ ClockFiles' /\ IsOpen' /\ index' # <<>>
         /\ info'.maxOffset = Contents(data')[Len(Contents(data'))].offset
         /\ Contents(data')[1] = Contents(data)[1]
<1> DEFINE hour == FromTimeT(time)
           off  == OffsetIn(hour, time)
           c    == Contents(data)
           d    == Contents(data')
<1>1. /\ data' \in StreamType(Cell) /\ data'.state = "present" /\ AtEnd(data')
  BY NewHourPut
<1>2. PICK ce \in {c, Append(c, EndLine)} :
        /\ d = Append(Append(ce, HourCell(hour)), ValueCell(off, NextValue))
        /\ index' = Append(index, Entry(hour, Len(ce)))
  BY NewHourPut
<1>3. /\ hour \in Nat \ {0} /\ off \in Nat /\ NextValue \in Nat
      /\ ToTimeT(hour, 0) \in Nat /\ ToTimeT(hour, 0) <= time
      /\ ToTimeT(hour, off) = time
  <2>1. /\ hour \in Nat /\ off \in Nat /\ ToTimeT(hour, 0) \in Nat /\ ToTimeT(hour, 0) <= time
        /\ hour # 0
    BY HourOfTime
  <2>2. ToTimeT(hour, off) = time
    BY <2>1, HourSecsAssumption DEF OffsetIn, ToTimeT
  <2>3. NextValue \in Nat
    BY ClockFacts DEF NextValue
  <2> QED
    BY <2>1, <2>2, <2>3
<1>4. c \in Seq(Cell) /\ c # <<>> /\ c[1].kind = "header"
  BY ClockFacts DEF ClockInv, ClockFiles, LogShape, FileExists
<1>5. /\ HourCell(hour) \in Cell /\ HourCell(hour).kind = "hour"
      /\ ValueCell(off, NextValue) \in Cell /\ ValueCell(off, NextValue).kind = "value"
      /\ ValueCell(off, NextValue).offset = off
  BY <1>3, CellsMade DEF ValueCell
<1>6. /\ Len(ce) \in Nat \ {0} /\ Len(d) = Len(ce) + 2 /\ d # <<>> /\ d[1] = c[1]
      /\ d[Len(ce) + 1] = HourCell(hour) /\ d[Len(ce) + 2] = ValueCell(off, NextValue)
  <2> DEFINE x == HourCell(hour)
             y == ValueCell(off, NextValue)
  <2>1. x \in Cell /\ y \in Cell /\ d = Append(Append(ce, x), y)
    BY <1>2, <1>5
  <2> HIDE DEF c, d, x, y
  <2>2. /\ Len(ce) \in Nat \ {0} /\ Len(d) = Len(ce) + 2 /\ d # <<>> /\ d[1] = c[1]
        /\ d[Len(ce) + 1] = x /\ d[Len(ce) + 2] = y
    BY ONLY <1>2, <1>4, <2>1, NewHourCells
  <2> QED
    BY <2>2 DEF x, y
<1>7. /\ index' \in Seq(EntryType) /\ IndexShape(index', MaxTime)
  <2>1. /\ index \in Seq(EntryType) /\ MaxTime \in Nat /\ IndexShape(index, MaxTime)
        /\ ToTimeT(hour, 0) <= MaxTime
    BY <1>3, BoundsAssumption DEF ClockInv, ClockFiles
  <2>2. index # <<>> => Last(index).hour < hour
    <3>1. StartsHour(time)
      BY DEF WriteInNewHour
    <3> QED
      BY <3>1, DateLetThrough
  <2> HIDE DEF hour
  <2> QED
    BY <1>2, <1>3, <1>6, <2>1, <2>2, IndexGrows
<1>8. /\ index' # <<>> /\ Last(index') = Entry(hour, Len(ce)) /\ Len(index') = Len(index) + 1
      /\ index # <<>> => index'[1] = index[1]
      /\ index = <<>> => index'[1] = Entry(hour, Len(ce))
  <2> DEFINE e == Entry(hour, Len(ce))
  <2>1. index \in Seq(EntryType) /\ Len(index) \in Nat /\ e \in EntryType
    BY <1>3, <1>6, ClockFacts DEF Entry, EntryType
  <2> HIDE DEF e
  <2>2. index' = Append(index, e)
    BY <1>2 DEF e
  <2>3. /\ Append(index, e) # <<>> /\ Len(Append(index, e)) = Len(index) + 1
        /\ Append(index, e)[Len(index) + 1] = e
        /\ \A k \in 1 .. Len(index) : Append(index, e)[k] = index[k]
    <3>1. Append(index, e) \in Seq(EntryType) /\ Len(Append(index, e)) = Len(index) + 1
      BY <2>1
    <3>2. /\ Append(index, e)[Len(index) + 1] = e
          /\ \A k \in 1 .. Len(index) : Append(index, e)[k] = index[k]
      BY <2>1
    <3> QED
      BY <2>1, <3>1, <3>2
  <2>4. index # <<>> => 1 \in 1 .. Len(index)
    BY <2>1
  <2>5. index = <<>> => Len(index) + 1 = 1
    BY <2>1
  <2> QED
    BY <2>2, <2>3, <2>4, <2>5 DEF Last, e
<1>9. Entry(hour, Len(ce)).hour = hour /\ Entry(hour, Len(ce)).pos = Len(ce)
  BY DEF Entry
<1>10. /\ info' \in InfoType /\ info' # NoInfo /\ InfoAgrees(info', index')
       /\ info'.maxOffset = off
  <2>1. InfoAgrees(info, index) /\ info.minHour \in Nat /\ info.indexSize \in Nat
        /\ info.indexSize = Len(index)
    BY ClockFacts DEF ClockInv, ClockFiles, InfoAgrees
  <2> DEFINE lo == IF info.minHour = 0 THEN hour ELSE info.minHour
  <2>2. lo \in Nat /\ lo = index'[1].hour
    <3>1. CASE index = <<>>
      BY <1>3, <1>8, <1>9, <3>1, NoHourOpen
    <3>2. CASE index # <<>>
      BY <1>8, <2>1, <3>2, LastHourOpen DEF InfoAgrees
    <3> QED
      BY <3>1, <3>2
  <2>3. info' = FilesInfo(info.type, ToTimeT(hour, 0), lo, hour, off, info.indexSize + 1)
    BY DEF WriteInNewHour
  <2>4. info.type \in ValueTypes
    BY <2>1 DEF InfoAgrees
  <2> HIDE DEF lo, hour, off
  <2>5. ToTimeT(hour, 0) \in Nat /\ hour \in Nat /\ off \in Nat /\ info.indexSize + 1 \in Nat
    BY <1>3, <2>1
  <2>6. info' \in InfoType /\ info' # NoInfo
    BY <2>2, <2>3, <2>4, <2>5, InfoTyped
  <2>7. /\ info'.type = info.type /\ info'.startHour = ToTimeT(hour, 0) /\ info'.minHour = lo
        /\ info'.maxHour = hour /\ info'.maxOffset = off /\ info'.indexSize = info.indexSize + 1
    BY <2>3, InfoFields
  <2> QED
    BY <1>8, <1>9, <2>1, <2>2, <2>4, <2>6, <2>7 DEF InfoAgrees
<1>11. history' \in Seq(ValueType) /\ history' # <<>> /\ Last(history').time = time
  BY AcceptedLast
<1> HIDE DEF c, d, hour, off
<1>12. LogShape(data', index')
  BY <1>1, <1>4, <1>5, <1>6 DEF LogShape, IsValue, IsHour, d
<1>13. EndsInBlock(d, index', history')
  <2>1. \A i \in Len(ce) + 2 .. Len(d) : i = Len(ce) + 2
    BY <1>6
  <2>2. \A i \in Len(ce) + 2 .. Len(d) : IsValue(d, i)
    BY <1>5, <1>6, <2>1 DEF IsValue
  <2>3. d[Len(d)].offset = off
    BY <1>5, <1>6
  <2> QED
    BY <1>3, <1>6, <1>8, <1>9, <1>11, <2>2, <2>3 DEF EndsInBlock
<1>14. d[Len(d)].offset = off
  BY <1>5, <1>6
<1> QED
  BY <1>1, <1>6, <1>7, <1>8, <1>10, <1>11, <1>12, <1>13, <1>14
  DEF ClockInv, ClockFiles, IsOpen, FileExists, c, d

LEMMA OffsetKept ==
  ASSUME OffsetsFit, NEW off \in Nat, off < HourSecs
  PROVE  off % 65536 = off /\ off # 65534
<1>1. off < 65534
  BY HourSecsAssumption DEF OffsetsFit
<1> QED
  BY <1>1

(* A write inside the running hour: its offset is one of the hour, so the    *)
(* record is a record.                                                       *)
LEMMA SameHourKeeps ==
  ASSUME ClockInv, IsOpen, OffsetsFit, NEW time \in Nat, HourSecs <= time,
         ~HasMoreRecent(time), CastInHour(time), UNCHANGED now,
         history' = Append(history, [time |-> time, value |-> NextValue])
  PROVE  /\ ClockFiles' /\ IsOpen' /\ index' # <<>>
         /\ info'.maxOffset = Contents(data')[Len(Contents(data'))].offset
         /\ Contents(data')[1] = Contents(data)[1]
<1> DEFINE c    == Contents(data)
           d    == Contents(data')
           off  == time - info.startHour
           y    == ValueCell(off, NextValue)
           last == Last(index)
<1>1. info.startHour \in Nat /\ HourSecs \in Nat /\ ~(off > HourSecs - 1)
  BY ClockFacts, HourSecsAssumption DEF CastInHour, StartsHour
<1>2. index # <<>> /\ info.startHour <= time
  BY DateLetThrough DEF CastInHour
<1>3. off \in Nat /\ off < HourSecs
  <2> HIDE DEF off
  <2> QED
    BY <1>1, <1>2 DEF off
<1>4. CastOffset(time) = off /\ PutRecord(data, off, NextValue) = Put(data, y)
  <2>1. off % 65536 = off /\ off # 65534
    <3> HIDE DEF off
    <3> QED
      BY <1>3, OffsetKept
  <2>2. CastOffset(time) = off
    BY <2>1 DEF CastOffset
  <2> HIDE DEF off
  <2> QED
    BY <2>1, <2>2 DEF PutRecord
<1>5. NextValue \in Nat /\ y \in Cell /\ y.kind = "value" /\ y.offset = off
  <2>1. NextValue \in Nat
    BY ClockFacts DEF NextValue
  <2> HIDE DEF off
  <2> QED
    BY <1>3, <2>1, CellsMade DEF ValueCell
<1>6. data' = Put(data, y) /\ index' = index
  BY <1>4 DEF CastInHour
<1>7. /\ data \in StreamType(Cell) /\ AtEnd(data) /\ data.state = "present"
      /\ c \in Seq(Cell) /\ c # <<>> /\ c[1].kind = "header" /\ Len(c) \in Nat
  BY ClockFacts DEF ClockInv, ClockFiles, LogShape, FileExists
<1>8. /\ data' \in StreamType(Cell) /\ AtEnd(data') /\ data'.state = "present"
      /\ d = Append(c, y)
  <2>1. y \in Cell /\ data' = Put(data, y) /\ data \in StreamType(Cell) /\ AtEnd(data)
        /\ data.state = "present"
    BY <1>5, <1>6, <1>7
  <2> HIDE DEF y
  <2> QED
    BY <2>1, PutFacts
<1>9. /\ d # <<>> /\ d[1] = c[1] /\ Len(d) = Len(c) + 1 /\ d[Len(c) + 1] = y
      /\ \A i \in 1 .. Len(c) : d[i] = c[i]
  <2> HIDE DEF c, y
  <2>1. /\ Append(c, y) # <<>> /\ Append(c, y)[1] = c[1] /\ Len(Append(c, y)) = Len(c) + 1
        /\ Append(c, y)[Len(c) + 1] = y
    BY <1>5, <1>7, CellsGrow
  <2>2. \A i \in 1 .. Len(c) : Append(c, y)[i] = c[i]
    BY <1>5, <1>7
  <2> QED
    BY <1>8, <2>1, <2>2
<1>10. /\ last.hour \in Nat \ {0} /\ last.pos \in Nat /\ info.startHour = ToTimeT(last.hour, 0)
  BY <1>2, LastHourOpen
<1>11. ToTimeT(last.hour, off) = time
  <2> HIDE DEF last
  <2> QED
    BY <1>1, <1>3, <1>10, HourSecsAssumption DEF ToTimeT
<1>12. /\ last.pos + 2 <= Len(c) /\ c[last.pos + 1] = HourCell(last.hour)
       /\ \A i \in last.pos + 2 .. Len(c) : IsValue(c, i)
  BY <1>2 DEF ClockInv, ClockFiles, EndsInBlock
<1>13. history' \in Seq(ValueType) /\ history' # <<>> /\ Last(history').time = time
  BY AcceptedLast
<1>14. info' \in InfoType /\ info' # NoInfo /\ InfoAgrees(info', index') /\ info'.maxOffset = off
  <2>1. InfoAgrees(info, index) /\ info \in InfoType
    BY ClockFacts DEF ClockInv, ClockFiles
  <2>2. /\ info.type \in ValueTypes /\ info.startHour \in Nat /\ info.minHour \in Nat
        /\ info.maxHour \in Nat /\ info.indexSize \in Nat
    BY <2>1 DEF InfoAgrees, InfoType
  <2>3. info' = FilesInfo(info.type, info.startHour, info.minHour, info.maxHour, off,
                          info.indexSize)
    BY <1>4 DEF CastInHour
  <2> HIDE DEF off
  <2>4. info' \in InfoType /\ info' # NoInfo
    BY <1>3, <2>2, <2>3, InfoTyped
  <2>5. /\ info'.type = info.type /\ info'.startHour = info.startHour
        /\ info'.minHour = info.minHour /\ info'.maxHour = info.maxHour
        /\ info'.indexSize = info.indexSize /\ info'.maxOffset = off
    BY <2>3, InfoFields
  <2> QED
    BY <1>6, <2>1, <2>4, <2>5 DEF InfoAgrees
<1> HIDE DEF c, d, off, y, last
<1>15. d[Len(d)] = y
  BY <1>7, <1>9
<1>16. IsValue(c, Len(c)) /\ Len(c) >= 2
  BY <1>7, <1>10, <1>12
<1>17. LogShape(data', index')
  <2>1. Len(d) >= 3 /\ IsValue(d, Len(d))
    BY <1>5, <1>7, <1>9, <1>15, <1>16 DEF IsValue
  <2>2. IsValue(d, Len(d) - 1)
    <3>1. Len(d) - 1 = Len(c) /\ Len(c) \in 1 .. Len(c)
      BY <1>7, <1>9, <1>16
    <3> QED
      BY <1>9, <1>16, <3>1 DEF IsValue
  <2> QED
    BY <1>7, <1>8, <1>9, <2>1, <2>2 DEF LogShape, d
<1>18. EndsInBlock(d, index', history')
  <2>1. last.pos + 2 <= Len(d)
    BY <1>7, <1>9, <1>10, <1>12
  <2>2. last.pos + 1 \in 1 .. Len(c)
    BY <1>7, <1>10, <1>12
  <2>3. d[last.pos + 1] = HourCell(last.hour)
    BY <1>9, <1>12, <2>2
  <2>4. ASSUME NEW i \in last.pos + 2 .. Len(d) PROVE IsValue(d, i)
    <3>1. CASE i = Len(c) + 1
      BY <1>5, <1>9, <3>1 DEF IsValue
    <3>2. CASE i # Len(c) + 1
      <4>1. i \in last.pos + 2 .. Len(c) /\ i \in 1 .. Len(c)
        BY <1>7, <1>9, <1>10, <3>2
      <4> QED
        BY <1>9, <1>12, <4>1 DEF IsValue
    <3> QED
      BY <3>1, <3>2
  <2> QED
    BY <1>5, <1>6, <1>11, <1>13, <1>15, <2>1, <2>3, <2>4 DEF EndsInBlock, last
<1>19. d[Len(d)].offset = off
  BY <1>5, <1>15
<1> QED
  BY <1>2, <1>6, <1>8, <1>9, <1>13, <1>14, <1>17, <1>18, <1>19
  DEF ClockInv, ClockFiles, IsOpen, FileExists, c, d

-----------------------------------------------------------------------------
(* The two ends of a dated call.                                             *)

LEMMA IdleCall == DatedCall(Idle, now) /\ DatedCall(Idle, now') /\ Idle.op = "Idle"
<1>1. Idle.op = "Idle"
  BY DEF Idle
<1> QED
  BY <1>1 DEF DatedCall

(* A write is dated, in an open sensor and not in the hour 0.                *)
LEMMA DateOfWrite ==
  ASSUME ClockInv, Write
  PROVE  /\ IsOpen /\ call.op \in {"WriteOldValue", "WriteTimeValue"} /\ UNCHANGED now
         /\ TimeToWrite \in Nat /\ HourSecs <= TimeToWrite /\ TimeToWrite <= MaxTime
<1>1. call.op \in {"WriteOldValue", "WriteTimeValue"} /\ DatedCall(call, now) /\ UNCHANGED now
  BY DEF Write, ClockInv, DatedCall
<1>2. IsOpen
  BY <1>1, IdleCall DEF ClockInv
<1>3. now \in Nat /\ HourSecs \in Nat
  BY ClockFacts, HourSecsAssumption
<1>4. CASE call.op = "WriteOldValue"
  <2>1. TimeToWrite = now - call.offset
    BY <1>4 DEF TimeToWrite
  <2>2. call.offset \in Nat /\ HourSecs <= now - call.offset /\ now - call.offset <= MaxTime
    BY <1>1, <1>4 DEF DatedCall
  <2>3. now - call.offset \in Nat
    BY <1>3, <2>2
  <2> QED
    BY <1>1, <1>2, <2>1, <2>2, <2>3
<1>5. CASE call.op = "WriteTimeValue"
  <2>1. TimeToWrite = call.time
    BY <1>5 DEF TimeToWrite
  <2> QED
    BY <1>1, <1>2, <1>5, <2>1 DEF DatedCall
<1> QED
  BY <1>1, <1>4, <1>5

LEMMA CastEnds ==
  ASSUME NEW time, CastWrite(time)
  PROVE  /\ call.op = "WriteValue" \/ ~HasMoreRecent(time)
         /\ WriteInNewHour(time) \/ CastInHour(time)
         /\ history' = Append(history, [time |-> time, value |-> NextValue])
         /\ call' = Idle /\ answer' = Answer(call, TRUE, "", {})
  BY DEF CastWrite, Return

LEMMA RefusalEnded ==
  ASSUME NEW time, RefuseOlder(time)
  PROVE  /\ call.op # "WriteValue" /\ HasMoreRecent(time)
         /\ call' = Idle /\ answer' = Answer(call, FALSE, "WRITE_MRV", {})
         /\ UNCHANGED <<data, index, info, history>>
  BY DEF RefuseOlder, Return

LEMMA ClockWriteKeeps ==
  ASSUME ClockInv, OffsetsFit, Write
  PROVE  ClockInv'
<1> DEFINE t == TimeToWrite
<1>1. /\ IsOpen /\ call.op # "WriteValue" /\ UNCHANGED now
      /\ t \in Nat /\ HourSecs <= t /\ t <= MaxTime
  BY DateOfWrite
<1>2. CastWrite(t) \/ RefuseOlder(t)
  BY DEF Write
<1> HIDE DEF t
<1>3. call' = Idle /\ DatedCall(call', now')
  <2>1. call' = Idle
    BY <1>2, CastEnds, RefusalEnded
  <2> QED
    BY <2>1, IdleCall
<1>4. CASE CastWrite(t)
  <2>1. /\ ~HasMoreRecent(t)
        /\ history' = Append(history, [time |-> t, value |-> NextValue])
        /\ WriteInNewHour(t) \/ CastInHour(t)
    BY <1>1, <1>4, CastEnds
  <2>2. ClockFiles' /\ IsOpen' /\ index' # <<>>
    BY <1>1, <2>1, NewHourKeeps, SameHourKeeps
  <2> QED
    BY <1>3, <2>2 DEF ClockInv, Started
<1>5. CASE RefuseOlder(t)
  <2>1. UNCHANGED <<data, index, info, history>> /\ info.maxHour > 0
    BY <1>5, RefusalEnded DEF HasMoreRecent
  <2>2. index # <<>>
    BY <1>1, <2>1, NoHourOpen
  <2> QED
    BY <1>1, <1>3, <2>1, <2>2 DEF ClockInv, ClockFiles, IsOpen, FileExists, Started
<1> QED
  BY <1>2, <1>4, <1>5

-----------------------------------------------------------------------------
(* Calls are admitted and refused.                                           *)

LEMMA FreeCallDated ==
  ASSUME ClockInv, DatedLife, NEW c \in FreeCalls
  PROVE  /\ DatedCall(c, now)
         /\ (c.op \in WriteOps /\ TypeOf(c) \in Types) \/ TypeOf(c) = "Undefined"
<1>1. now \in Nat /\ HourSecs \in Nat /\ now <= MaxTime /\ MaxTime \in Nat /\ FirstDate = HourSecs
  BY ClockFacts, HourSecsAssumption, BoundsAssumption DEF DatedLife
<1>2. c.op # "WriteValue"
  <2>1. \A d \in FreeCalls : d.op \in Writes \/ d.op \in {"ReadLastValue", "GetSensorInfo"}
    BY DEF FreeCalls
  <2> QED
    BY <2>1 DEF DatedLife
<1>3. CASE c \in [op : {"WriteValue"}, type : Types]
  BY <1>2, <1>3
<1>4. CASE c \in [op : {"WriteOldValue"}, type : Types, offset : 0 .. now - FirstDate]
  <2>1. c.op = "WriteOldValue" /\ c.type \in Types /\ c.offset \in 0 .. now - HourSecs
    BY <1>1, <1>4
  <2>2. c.offset \in Nat /\ HourSecs <= now - c.offset /\ now - c.offset <= MaxTime
    BY <1>1, <2>1
  <2> QED
    BY <2>1, <2>2 DEF DatedCall, TypeOf, WriteOps
<1>5. CASE c \in [op : {"WriteTimeValue"}, type : Types, time : Dates]
  <2>1. c.op = "WriteTimeValue" /\ c.type \in Types /\ c.time \in HourSecs .. MaxTime
    BY <1>1, <1>5 DEF Dates
  <2>2. c.time \in Nat /\ HourSecs <= c.time /\ c.time <= MaxTime
    BY <1>1, <2>1
  <2> QED
    BY <2>1, <2>2 DEF DatedCall, TypeOf, WriteOps
<1>6. CASE c \in {[op |-> "ReadLastValue"], [op |-> "GetSensorInfo"]}
  BY <1>6 DEF DatedCall, TypeOf
<1> QED
  BY <1>3, <1>4, <1>5, <1>6 DEF FreeCalls

(* Where an opened sensor has its last offset from.                          *)
LEMMA OffsetTyped ==
  ASSUME NEW c \in Seq(Cell), NEW n, n = Len(c), n >= 3, IsValue(c, n),
         IsValue(c, n - 1) \/ IsHour(c, n - 1), NEW offset \in TailOffsets(c)
  PROVE  offset \in Nat
<1>1. n \in 1 .. n /\ n - 1 \in 1 .. n /\ c[n] \in Cell /\ c[n - 1] \in Cell
  <2>1. n \in Nat
    OBVIOUS
  <2>2. n \in 1 .. Len(c) /\ n - 1 \in 1 .. Len(c)
    BY <2>1
  <2> QED
    BY <2>2
<1>2. c[n].offset \in Nat /\ (IsValue(c, n - 1) => c[n - 1].offset \in Nat)
  BY <1>1, CellFields DEF IsValue
<1>3. ~IsValue(c, n - 1) => HourAt(c, n) \in Nat
  BY <1>1, HourInForce
<1>4. ~IsValue(c, n - 1) => (HourAt(c, n) \div 256) % 65536 \in Nat
  BY <1>3
<1>5. CASE c[1].type \in {"Float", "Int"}
  BY <1>2, <1>5 DEF TailOffsets
<1>6. CASE c[1].type = "Bool" /\ IsValue(c, n - 1)
  BY <1>2, <1>6 DEF TailOffsets
<1>7. CASE c[1].type = "Bool" /\ ~IsValue(c, n - 1)
  BY <1>4, <1>7 DEF TailOffsets
<1>8. CASE c[1].type \notin {"Float", "Int", "Bool"}
  <2>1. TailOffsets(c) = Shorts
    BY <1>8 DEF TailOffsets
  <2> QED
    BY <2>1 DEF Shorts
<1> QED
  BY <1>5, <1>6, <1>7, <1>8

LEMMA ClockOpens ==
  ASSUME ClockInv, NEW c, OpenFiles(c), UNCHANGED <<now, history>>
  PROVE  ClockFiles' /\ IsOpen' /\ index' # <<>> /\ Contents(data') = Contents(data)
<1>1. ~IsOpen /\ FileExists(data) /\ index' = index /\ data' = SeekEnd(Open(data))
  BY DEF OpenFiles
<1>2. index # <<>>
  BY <1>1 DEF ClockInv, Started, IsOpen, FileExists
<1>3. /\ data' \in StreamType(Cell) /\ Contents(data') = Contents(data)
      /\ data'.state = "present" /\ AtEnd(data')
  <2>1. /\ Open(data) \in StreamType(Cell) /\ Contents(Open(data)) = Contents(data)
        /\ Open(data).state = "present"
    BY ClockFacts, OpenFacts
  <2> QED
    BY <1>1, <2>1, SeekEndFacts
<1>4. PICK offset \in TailOffsets(Contents(data)) : info' = OpenedInfo(offset)
  BY DEF OpenFiles
<1>5. /\ index[1].hour \in Nat /\ LastHour \in Nat /\ Last(index).hour = LastHour
      /\ Len(index) \in Nat
  <2>1. index \in Seq(EntryType) /\ 1 \in 1 .. Len(index) /\ Len(index) \in 1 .. Len(index)
    BY <1>2, ClockFacts
  <2> QED
    BY <2>1, ClockFacts, EntryFields DEF LastHour, Last
<1>6. /\ Contents(data) \in Seq(Cell) /\ Len(Contents(data)) >= 3
      /\ Contents(data)[1].kind = "header" /\ Contents(data)[1] \in Cell
      /\ IsValue(Contents(data), Len(Contents(data)))
      /\ \/ IsValue(Contents(data), Len(Contents(data)) - 1)
         \/ IsHour(Contents(data), Len(Contents(data)) - 1)
  <2>1. Contents(data) \in Seq(Cell) /\ Len(Contents(data)) \in Nat
    BY ClockFacts
  <2>2. /\ Len(Contents(data)) >= 3 /\ IsValue(Contents(data), Len(Contents(data)))
        /\ \/ IsValue(Contents(data), Len(Contents(data)) - 1)
           \/ IsHour(Contents(data), Len(Contents(data)) - 1)
    BY <1>2 DEF ClockInv, ClockFiles, LogShape
  <2>3. Contents(data) # <<>> => Contents(data)[1].kind = "header"
    BY DEF ClockInv, ClockFiles, LogShape
  <2>4. 1 \in 1 .. Len(Contents(data)) /\ Contents(data) # <<>>
    BY <2>1, <2>2
  <2>5. Contents(data)[1] \in Cell
    BY <2>1, <2>4
  <2> QED
    BY <2>1, <2>2, <2>3, <2>4, <2>5
<1>7. offset \in Nat
  BY <1>6, OffsetTyped
<1>8. Contents(data)[1].type \in ValueTypes
  BY <1>6, CellFields
<1>9. info' \in InfoType /\ info' # NoInfo /\ InfoAgrees(info', index')
  <2>1. ToTimeT(LastHour, 0) \in Nat
    BY <1>5, TimeTyped
  <2>2. info' = FilesInfo(Contents(data)[1].type, ToTimeT(LastHour, 0), index[1].hour,
                          LastHour, offset, Len(index))
    BY <1>4 DEF OpenedInfo
  <2>3. info' \in InfoType /\ info' # NoInfo
    BY <1>5, <1>7, <1>8, <2>1, <2>2, InfoTyped
  <2>4. /\ info'.type = Contents(data)[1].type /\ info'.startHour = ToTimeT(LastHour, 0)
        /\ info'.minHour = index[1].hour /\ info'.maxHour = LastHour
        /\ info'.indexSize = Len(index)
    BY <2>2, InfoFields
  <2> QED
    BY <1>1, <1>2, <1>5, <1>8, <2>3, <2>4 DEF InfoAgrees
<1>10. LogShape(data', index')
  <2>1. data.state = "present"
    BY <1>1 DEF FileExists
  <2>2. Contents(data') # <<>>
    BY <1>3, <1>6
  <2> QED
    BY <1>1, <1>3, <1>6, <2>2 DEF LogShape
<1> QED
  BY <1>1, <1>2, <1>3, <1>9, <1>10 DEF ClockInv, ClockFiles, IsOpen, FileExists

LEMMA ClockCreates ==
  ASSUME ClockInv, NEW c, TypeOf(c) \in Types, CreateFiles(c), UNCHANGED <<now, history>>
  PROVE  /\ ClockFiles' /\ IsOpen'
         /\ index' = <<>> /\ Contents(data') = <<HeaderCell(TypeOf(c))>>
<1> DEFINE header == HeaderCell(TypeOf(c))
<1>1. header \in Cell /\ header.kind = "header" /\ TypeOf(c) \in ValueTypes
  BY CellsMade, TypesAssumption
<1>2. data \in StreamType(Cell) /\ data.state = "absent" /\ Contents(data) = <<>>
  <2>1. data.state # "present" /\ data \in StreamType(Cell)
    BY ClockFacts DEF CreateFiles, FileExists
  <2>2. data.state = "absent"
    BY <2>1, Fields
  <2> QED
    BY <2>1, <2>2 DEF ClockInv, ClockFiles, LogShape
<1>3. index = <<>> /\ history = <<>>
  <2>1. index # <<>> => Len(Contents(data)) >= 3
    BY DEF ClockInv, ClockFiles, LogShape
  <2>2. index = <<>>
    BY <1>2, <2>1
  <2> QED
    BY <2>2 DEF ClockInv, ClockFiles
<1>4. data.cells = <<>>
  <2>1. Len(data.cells) + Len(data.buf) = 0 /\ Len(data.cells) \in Nat /\ Len(data.buf) \in Nat
    BY <1>2, ContentsFacts, Fields
  <2>2. data.cells \in Seq(Cell)
    BY <1>2, Fields
  <2>3. \A a, b \in Nat : a + b = 0 => a = 0
    OBVIOUS
  <2>4. Len(data.cells) = 0
    BY <2>1, <2>3, Zenon
  <2> QED
    BY <2>2, <2>4
<1>5. /\ Open(data) \in StreamType(Cell) /\ Contents(Open(data)) = <<>> /\ AtEnd(Open(data))
      /\ Open(data).state = "present"
  BY <1>2, <1>4, OpenFacts
<1>6. data' = Put(Open(data), header) /\ index' = <<>>
      /\ info' = FilesInfo(TypeOf(c), 0, 0, 0, 0, 0)
  BY DEF CreateFiles
<1> HIDE DEF header
<1>7. /\ data' \in StreamType(Cell) /\ data'.state = "present" /\ AtEnd(data')
      /\ Contents(data') = Append(<<>>, header)
  BY <1>1, <1>5, <1>6, PutFacts
<1>8. info' \in InfoType /\ info' # NoInfo /\ InfoAgrees(info', index')
  <2>1. info' \in InfoType /\ info' # NoInfo
    BY <1>1, <1>6, InfoTyped
  <2>2. /\ info'.type = TypeOf(c) /\ info'.startHour = 0 /\ info'.minHour = 0
        /\ info'.maxHour = 0 /\ info'.indexSize = 0
    BY <1>6, InfoFields
  <2> QED
    BY <1>1, <1>6, <2>1, <2>2 DEF InfoAgrees
<1>9. LogShape(data', index') /\ IndexShape(index', MaxTime)
  <2>1. Append(<<>>, header) # <<>> /\ Append(<<>>, header)[1] = header
    OBVIOUS
  <2> QED
    BY <1>1, <1>6, <1>7, <2>1 DEF LogShape, IndexShape, Ascending
<1>10. EndsInBlock(Contents(data'), index', history')
  BY <1>6 DEF EndsInBlock
<1>11. index' \in Seq(EntryType) /\ history' = <<>>
  BY <1>3, <1>6
<1> QED
  BY <1>3, <1>6, <1>7, <1>8, <1>9, <1>10, <1>11
  DEF ClockInv, ClockFiles, IsOpen, FileExists, header

LEMMA EnterKeeps ==
  ASSUME ClockInv, DatedLife, Enter
  PROVE  ClockInv'
<1>1. call = Idle /\ UNCHANGED <<now, history>>
  BY DEF Enter
<1>2. PICK c \in FreeCalls : UseOpenFiles(c) \/ OpenFiles(c) \/ OpenFilesFails(c)
                               \/ NoFile(c) \/ CreateFiles(c)
  BY DEF Enter
<1>3. /\ DatedCall(c, now)
      /\ (c.op \in WriteOps /\ TypeOf(c) \in Types) \/ TypeOf(c) = "Undefined"
  BY FreeCallDated
<1>4. CASE UseOpenFiles(c)
  <2>1. IsOpen /\ UNCHANGED <<data, index, info>> /\ call' \in {c, Idle}
    BY <1>4 DEF UseOpenFiles, CheckType, Admit, Refuse
  <2>2. index # <<>>
    BY <1>1, <2>1, IdleCall DEF ClockInv, Started, IsOpen, WriteOps
  <2>3. DatedCall(call', now')
    BY <1>1, <1>3, <2>1, IdleCall
  <2> QED
    BY <1>1, <2>1, <2>2, <2>3 DEF ClockInv, ClockFiles, IsOpen, FileExists, Started
<1>5. CASE OpenFiles(c)
  <2>1. call' \in {c, Idle}
    BY <1>5 DEF OpenFiles, CheckType, Admit, Refuse
  <2>2. DatedCall(call', now')
    BY <1>1, <1>3, <2>1, IdleCall
  <2>3. ClockFiles' /\ IsOpen' /\ index' # <<>>
    BY <1>1, <1>5, ClockOpens
  <2> QED
    BY <2>2, <2>3 DEF ClockInv, Started
<1>6. CASE OpenFilesFails(c) \/ NoFile(c)
  <2>1. UNCHANGED <<data, index, info>> /\ call' = Idle
    BY <1>6 DEF OpenFilesFails, NoFile, Refuse
  <2> QED
    BY <1>1, <2>1 DEF ClockInv, ClockFiles, IsOpen, FileExists, Started
<1>7. CASE CreateFiles(c)
  <2>1. call' = c /\ TypeOf(c) # "Undefined"
    BY <1>7 DEF CreateFiles, Admit
  <2>2. ClockFiles' /\ IsOpen' /\ c.op \in WriteOps
    BY <1>1, <1>3, <1>7, <2>1, ClockCreates
  <2> QED
    BY <1>1, <1>3, <2>1, <2>2 DEF ClockInv, Started, IsOpen
<1> QED
  BY <1>2, <1>4, <1>5, <1>6, <1>7

-----------------------------------------------------------------------------
(* Reads, the clock, and the ends of a sensor.                               *)

LEMMA FoundEntry ==
  ASSUME index \in Seq(EntryType), Len(index) \in Nat \ {0}, info.indexSize = Len(index),
         info.minHour \in Nat, info.maxHour \in Nat,
         Len(index) <= info.maxHour - info.minHour + 1,
         NEW hour \in Nat, FindHour(hour) # NotFound
  PROVE  \E k \in 1 .. Len(index) : index[k].hour = hour /\ index[k].pos = FindHour(hour)
<1> DEFINE lo   == info.minHour
           hi   == info.maxHour
           n    == Len(index)
           slot == Slot(n, lo, hi, hour) + 1
<1>1. lo \in Nat /\ hi \in Nat /\ n \in Nat \ {0} /\ n <= hi - lo + 1
  OBVIOUS
<1>2. FindHour(hour) = FindIndex(index, n, lo, hi, hour)
  BY DEF FindHour
<1> HIDE DEF lo, hi, n
<1>3. hour \in lo .. hi
  BY <1>2 DEF FindIndex
<1>4. slot \in 1 .. n
  <2>1. Slot(n, lo, hi, hour) \in 0 .. n - 1
    BY <1>1, <1>3, SlotInIndex
  <2> QED
    BY <1>1, <2>1
<1> HIDE DEF slot
<1>5. FindIndex(index, n, lo, hi, hour) =
        IF index[slot].hour = hour THEN index[slot].pos
        ELSE IF index[slot].hour > hour THEN WalkBack(index, slot - 1, hour) ELSE NotFound
  BY <1>3 DEF FindIndex, slot
<1>6. CASE index[slot].hour = hour
  BY <1>2, <1>4, <1>5, <1>6 DEF n
<1>7. CASE index[slot].hour # hour
  <2>1. FindHour(hour) = WalkBack(index, slot - 1, hour)
    BY <1>2, <1>5, <1>7
  <2>2. slot - 1 \in 0 .. Len(index)
    BY <1>1, <1>4 DEF n
  <2>3. PICK k \in 1 .. slot - 1 : /\ index[k].hour = hour
                                  /\ index[k].pos = WalkBack(index, slot - 1, hour)
    BY <2>1, <2>2, WalkBackSound
  <2> QED
    BY <1>1, <1>4, <2>1, <2>3 DEF n
<1> QED
  BY <1>6, <1>7

(* The search finds no other entry for the last hour than the last one.      *)
LEMMA LastHourLeads ==
  ASSUME ClockInv, IsOpen, index # <<>>, FindHour(info.maxHour) # NotFound
  PROVE  LeadsTo(FindHour(info.maxHour), info.maxHour)
<1> DEFINE n   == Len(index)
           hour == info.maxHour
<1>1. /\ index \in Seq(EntryType) /\ Ascending(index) /\ n \in Nat \ {0}
      /\ info.indexSize = n /\ info.minHour \in Nat /\ hour \in Nat
      /\ n <= hour - info.minHour + 1 /\ hour = index[n].hour
      /\ info.minHour = index[1].hour /\ FindHour(hour) # NotFound
  BY ClockFacts DEF ClockInv, ClockFiles, InfoAgrees, IndexShape, Last
<1>2. PICK k \in 1 .. n : index[k].hour = hour /\ index[k].pos = FindHour(hour)
  <2>1. /\ index \in Seq(EntryType) /\ Len(index) \in Nat \ {0}
        /\ info.indexSize = Len(index) /\ info.minHour \in Nat /\ info.maxHour \in Nat
        /\ Len(index) <= info.maxHour - info.minHour + 1
    BY <1>1
  <2> QED
    BY <1>1, <2>1, FoundEntry
<1>3. k = n
  <2>1. index[k].hour \in Nat /\ index[n].hour \in Nat /\ n \in 1 .. n
    BY <1>1, EntryFields
  <2>2. k < n => index[k].hour < index[n].hour
    BY <1>1, <2>1 DEF Ascending
  <2> QED
    BY <1>1, <1>2, <2>1, <2>2
<1>4. /\ Last(index).pos + 2 <= Len(Contents(data))
      /\ Contents(data)[Last(index).pos + 1] = HourCell(Last(index).hour)
      /\ Last(index).pos \in Nat /\ Len(Contents(data)) \in Nat
  BY LastHourOpen, ClockFacts DEF ClockInv, ClockFiles, EndsInBlock
<1>5. FindHour(hour) = Last(index).pos /\ hour = Last(index).hour
  BY <1>1, <1>2, <1>3 DEF Last
<1> QED
  BY <1>4, <1>5 DEF LeadsTo, HasCell, CellAt

LEMMA ClockReadKeeps ==
  ASSUME ClockInv, ReadLastValue \/ GetSensorInfo
  PROVE  /\ ClockInv'
         /\ Contents(data') = Contents(data) /\ UNCHANGED <<index, info, history>>
<1>1. /\ call.op \in {"ReadLastValue", "GetSensorInfo"} /\ call' = Idle
      /\ UNCHANGED <<now, index, info, history>>
  BY DEF ReadLastValue, GetSensorInfo, ReadMiss, ReadMismatch, Return
<1>2. IsOpen /\ index # <<>>
  <2>1. IsOpen
    BY <1>1, IdleCall DEF ClockInv
  <2> QED
    BY <1>1, <2>1 DEF ClockInv, Started, IsOpen, WriteOps
<1>3. data' = data \/ data' = SeekEnd(data)
  <2>1. CASE GetSensorInfo
    BY <2>1 DEF GetSensorInfo
  <2>2. CASE ReadLastValue /\ FindHour(info.maxHour) = NotFound
    BY <2>2 DEF ReadLastValue, ReadMiss
  <2>3. CASE ReadLastValue /\ FindHour(info.maxHour) # NotFound
    <3>1. LeadsTo(FindHour(info.maxHour), info.maxHour)
      BY <1>2, <2>3, LastHourLeads
    <3> QED
      BY <2>3, <3>1 DEF ReadLastValue
  <2> QED
    BY <2>1, <2>2, <2>3
<1>4. data \in StreamType(Cell) /\ data.state = "present" /\ AtEnd(data)
  BY <1>2 DEF ClockInv, ClockFiles, FileExists
<1>5. /\ data' \in StreamType(Cell) /\ data'.state = "present" /\ AtEnd(data')
      /\ Contents(data') = Contents(data)
  BY <1>3, <1>4, SeekEndFacts
<1>6. LogShape(data', index')
  BY <1>1, <1>4, <1>5 DEF ClockInv, ClockFiles, LogShape
<1> QED
  BY <1>1, <1>2, <1>4, <1>5, <1>6, IdleCall
  DEF ClockInv, ClockFiles, IsOpen, FileExists, Started

LEMMA ClockCloseKeeps ==
  ASSUME ClockInv, CloseSensor
  PROVE  /\ ClockInv'
         /\ Contents(data') = Contents(data) /\ info' = NoInfo /\ UNCHANGED <<index, history>>
<1>1. /\ call = Idle /\ IsOpen /\ data' = Close(data) /\ info' = NoInfo
      /\ UNCHANGED <<now, index, call, history>>
  BY DEF CloseSensor
<1>2. index # <<>>
  BY <1>1, IdleCall DEF ClockInv, Started, IsOpen, WriteOps
<1>3. /\ data' \in StreamType(Cell) /\ Contents(data') = Contents(data)
      /\ data'.state = data.state
  BY <1>1, ClockFacts, CloseFacts
<1>4. LogShape(data', index')
  BY <1>1, <1>3 DEF ClockInv, ClockFiles, LogShape
<1>5. NoInfo \in InfoType
  BY DEF NoInfo, FilesInfo, InfoType, AllTypes
<1> QED
  BY <1>1, <1>2, <1>3, <1>4, <1>5 DEF ClockInv, ClockFiles, IsOpen, Started

LEMMA EmptiedFiles ==
  ASSUME now' \in Nat, HourSecs <= now', now' <= MaxTime, data' = Absent, index' = <<>>,
         info' = NoInfo, history' = <<>>, call' = Idle
  PROVE  ClockInv'
<1>1. /\ data' \in StreamType(Cell) /\ Contents(data') = <<>> /\ data'.state = "absent"
  BY AbsentFacts
<1>2. NoInfo \in InfoType
  BY DEF NoInfo, FilesInfo, InfoType, AllTypes
<1>3. /\ LogShape(data', index') /\ IndexShape(index', MaxTime)
      /\ EndsInBlock(Contents(data'), index', history')
      /\ Started(index', data', info', call')
  BY <1>1 DEF LogShape, IndexShape, Ascending, EndsInBlock, Started
<1>4. index' \in Seq(EntryType) /\ history' \in Seq(ValueType)
  OBVIOUS
<1> QED
  BY <1>1, <1>2, <1>3, <1>4, IdleCall DEF ClockInv, ClockFiles, IsOpen

LEMMA TimeMoved ==
  ASSUME ClockInv, DatedLife, Tick \/ StepBack
  PROVE  ClockInv' /\ UNCHANGED <<data, index, info, call, history>>
<1>1. UNCHANGED <<data, index, info, call, answer, history>>
  BY DEF Tick, StepBack
<1>2. now \in Nat /\ HourSecs \in Nat /\ MaxTime \in Nat /\ HourSecs <= now /\ now <= MaxTime
  BY ClockFacts, HourSecsAssumption, BoundsAssumption
<1>3. /\ now' \in Nat /\ HourSecs <= now' /\ now' <= MaxTime /\ DatedCall(call, now')
  <2>1. CASE Tick
    <3>1. now' = now + 1 /\ now < MaxTime
      BY <2>1 DEF Tick
    <3>2. CASE call.op = "WriteOldValue"
      <4>1. /\ call.offset \in Nat /\ HourSecs <= now - call.offset
            /\ now - call.offset <= MaxTime
        BY <3>2 DEF ClockInv, DatedCall
      <4>2. HourSecs <= now + 1 - call.offset /\ now + 1 - call.offset <= MaxTime
        BY <1>2, <3>1, <4>1
      <4> QED
        BY <1>2, <3>1, <3>2, <4>1, <4>2 DEF DatedCall
    <3>3. CASE call.op # "WriteOldValue"
      BY <1>2, <3>1, <3>3 DEF ClockInv, DatedCall
    <3> QED
      BY <3>2, <3>3
  <2>2. CASE StepBack
    <3>1. now' \in HourSecs .. now - 1
          /\ (call.op = "WriteOldValue" => now' - call.offset >= HourSecs)
      BY <2>2 DEF StepBack, DatedLife
    <3>2. now' \in Nat /\ HourSecs <= now' /\ now' <= MaxTime
      BY <1>2, <3>1
    <3>3. CASE call.op = "WriteOldValue"
      <4>1. call.offset \in Nat
        BY <3>3 DEF ClockInv, DatedCall
      <4>2. HourSecs <= now' - call.offset /\ now' - call.offset <= MaxTime
        BY <1>2, <3>1, <3>2, <3>3, <4>1
      <4> QED
        BY <3>2, <3>3, <4>1, <4>2 DEF DatedCall
    <3>4. CASE call.op # "WriteOldValue"
      BY <3>2, <3>4 DEF ClockInv, DatedCall
    <3> QED
      BY <3>2, <3>3, <3>4
  <2> QED
    BY <2>1, <2>2
<1> QED
  BY <1>1, <1>3 DEF ClockInv, ClockFiles, IsOpen, FileExists, Started

LEMMA ClockInductive == DatedLife /\ ClockInv /\ [ClockNext]_clockVars => ClockInv'
<1> SUFFICES ASSUME DatedLife, ClockInv, [ClockNext]_clockVars PROVE ClockInv'
  OBVIOUS
<1>1. CASE Enter
  BY <1>1, EnterKeeps
<1>2. CASE Write
  BY <1>2, ClockWriteKeeps DEF DatedLife
<1>3. CASE ReadLastValue \/ GetSensorInfo
  BY <1>3, ClockReadKeeps
<1>4. CASE CloseSensor
  BY <1>4, ClockCloseKeeps
<1>5. CASE Remove
  <2>1. /\ data' = Absent /\ index' = <<>> /\ info' = NoInfo /\ history' = <<>> /\ call' = Idle
        /\ now' = now
    BY <1>5 DEF Remove
  <2> QED
    BY <2>1, ClockFacts, EmptiedFiles
<1>6. CASE Tick \/ StepBack
  BY <1>6, TimeMoved
<1>7. CASE UNCHANGED clockVars
  BY <1>7 DEF clockVars, vars, ClockInv, ClockFiles, IsOpen, FileExists, Started
<1> QED
  BY <1>1, <1>2, <1>3, <1>4, <1>5, <1>6, <1>7 DEF ClockNext

LEMMA ClockInvariant ==
  ASSUME DatedLife
  PROVE  ClockSpec => []ClockInv
<1>1. ClockInit => ClockInv
  <2> SUFFICES ASSUME ClockInit PROVE ClockInv
    OBVIOUS
  <2>1. /\ now = HourSecs /\ data = Absent /\ index = <<>> /\ info = NoInfo /\ call = Idle
        /\ history = <<>>
    BY DEF ClockInit, Init
  <2>2. now \in Nat /\ HourSecs <= now /\ now <= MaxTime
    BY <2>1, HourSecsAssumption, BoundsAssumption
  <2>3. /\ data \in StreamType(Cell) /\ Contents(data) = <<>> /\ data.state = "absent"
    BY <2>1, AbsentFacts
  <2>4. NoInfo \in InfoType
    BY DEF NoInfo, FilesInfo, InfoType, AllTypes
  <2>5. /\ LogShape(data, index) /\ IndexShape(index, MaxTime)
        /\ EndsInBlock(Contents(data), index, history)
        /\ Started(index, data, info, call)
    BY <2>1, <2>3 DEF LogShape, IndexShape, Ascending, EndsInBlock, Started
  <2>6. index \in Seq(EntryType) /\ history \in Seq(ValueType)
    BY <2>1
  <2> QED
    BY <2>1, <2>2, <2>3, <2>4, <2>5, <2>6, IdleCall DEF ClockInv, ClockFiles, IsOpen
<1>2. ClockInv /\ [ClockNext]_clockVars => ClockInv'
  BY ClockInductive
<1> QED
  BY <1>1, <1>2, PTL DEF ClockSpec

-----------------------------------------------------------------------------
(* What openFiles says of a sensor that is closed.                           *)

(* The walk of VerifyDataHourlyTimestamp ends at the last value of the file, *)
(* whose time is that of the last accepted one.                              *)
LEMMA WalkEndsAtLast ==
  ASSUME ClockInv, index # <<>>
  PROVE  VerifyLastIndex = IF LaterThanClock(Last(history).time) THEN "OPEN_COR2" ELSE "OK"
<1> DEFINE c     == Contents(data)
           last  == Last(index)
           stops == {i \in last.pos + 2 .. Len(c) : ~IsValue(c, i)}
<1>1. /\ c \in Seq(Cell) /\ Len(c) \in Nat
      /\ index \in Seq(EntryType) /\ Len(index) \in Nat
  BY ClockFacts
<1>2. last.pos \in Nat /\ last.hour \in Nat /\ last = index[Len(index)]
  <2>1. Len(index) \in 1 .. Len(index) /\ last = index[Len(index)]
    BY <1>1 DEF Last
  <2> QED
    BY <1>1, <2>1, EntryFields
<1>3. /\ last.pos + 2 <= Len(c) /\ c[last.pos + 1] = HourCell(last.hour)
      /\ \A i \in last.pos + 2 .. Len(c) : IsValue(c, i)
      /\ Last(history).time = ToTimeT(last.hour, c[Len(c)].offset)
  BY DEF ClockInv, ClockFiles, EndsInBlock
<1>4. HasCell(data, last.pos) /\ CellAt(data, last.pos) = HourCell(last.hour)
  BY <1>1, <1>2, <1>3 DEF HasCell, CellAt
<1>5. FirstOf(c, stops) = Len(c) + 1
  <2>1. stops = {}
    BY <1>3
  <2> QED
    BY <2>1 DEF FirstOf
<1> HIDE DEF c, last
<1>6. HourAt(c, Len(c)) = last.hour
  <2>1. last.pos + 1 \in 1 .. Len(c) /\ IsHour(c, last.pos + 1) /\ c[last.pos + 1].hour = last.hour
    BY <1>1, <1>2, <1>3 DEF IsHour, HourCell
  <2>2. PICK j \in last.pos + 1 .. Len(c) : IsHour(c, j) /\ HourAt(c, Len(c)) = c[j].hour
    BY <1>1, <2>1, HourFrom
  <2>3. j = last.pos + 1
    <3>1. j \in last.pos + 2 .. Len(c) => FALSE
      BY <1>3, <2>2 DEF IsHour, IsValue
    <3> QED
      BY <1>1, <1>2, <2>2, <3>1
  <2> QED
    BY <2>1, <2>2, <2>3
<1>7. TimeAt(c, FirstOf(c, stops) - 1) = Last(history).time
  <2>1. FirstOf(c, stops) - 1 = Len(c)
    BY <1>1, <1>5
  <2>2. TimeAt(c, Len(c)) = ToTimeT(last.hour, c[Len(c)].offset)
    BY <1>6 DEF TimeAt
  <2> QED
    BY <1>3, <2>1, <2>2
<1>8. FirstOf(c, stops) > last.pos + 2
  BY <1>1, <1>2, <1>3, <1>5
<1> HIDE DEF stops
<1>9. VerifyLastIndex =
        IF FirstOf(c, stops) > last.pos + 2 /\ LaterThanClock(TimeAt(c, FirstOf(c, stops) - 1))
        THEN "OPEN_COR2" ELSE "OK"
  BY <1>2, <1>4 DEF VerifyLastIndex, c, last, stops
<1> QED
  BY <1>7, <1>8, <1>9

LEMMA LastAccepted ==
  ASSUME ClockInv, index # <<>>
  PROVE  /\ Len(history) \in Nat \ {0} /\ Last(history) = history[Len(history)]
         /\ \A k \in 1 .. Len(history) : history[k].time \in Nat
         /\ Last(history).time \in Nat
<1>1. history \in Seq(ValueType) /\ history # <<>> /\ Len(history) \in Nat
  BY ClockFacts DEF ClockInv, ClockFiles, EndsInBlock
<1>2. Len(history) \in 1 .. Len(history) /\ Last(history) = history[Len(history)]
  BY <1>1 DEF Last
<1>3. \A k \in 1 .. Len(history) : history[k].time \in Nat
  <2>1. \A k \in 1 .. Len(history) : history[k] \in ValueType
    BY <1>1
  <2> QED
    BY <2>1 DEF ValueType
<1> QED
  BY <1>2, <1>3

(* A sensor with values later than the clock is refused with OPEN_COR2, and  *)
(* with nothing else, until the clock has reached them: however often it was *)
(* stepped back, and whatever dates the callers gave from the hour 1 on, the *)
(* last entry of the index leads to the block that ends in the last value.   *)
THEOREM RefusedOnlyUntilReached ==
  ASSUME DatedLife
  PROVE  ClockSpec => []RefusedUntilReached
<1>1. ClockInv => RefusedUntilReached
  <2> SUFFICES ASSUME ClockInv, FileExists(data), ~IsOpen
               PROVE  /\ VerifyLastIndex \in {"OK", "OPEN_COR2"}
                      /\ VerifyLastIndex = "OK" <=> Last(history).time <= now
    BY DEF RefusedUntilReached
  <2>1. index # <<>>
    BY DEF ClockInv, Started, IsOpen, FileExists
  <2>2. VerifyLastIndex = IF LaterThanClock(Last(history).time) THEN "OPEN_COR2" ELSE "OK"
    BY <2>1, WalkEndsAtLast
  <2>3. Last(history).time \in Nat /\ now \in Nat
    BY <2>1, LastAccepted, ClockFacts
  <2> QED
    BY <2>2, <2>3 DEF LaterThanClock
<1> QED
  BY <1>1, ClockInvariant, PTL

-----------------------------------------------------------------------------
(* The more-recent rule.                                                     *)

(* The type in the header, maxOffset of an open sensor, and the order of the *)
(* accepted values.                                                          *)
HeaderKnown(c) == c # <<>> => c[1].type \in {"Float", "Int"}

OffsetOfLast(c, idx, inf) == inf # NoInfo /\ idx # <<>> => inf.maxOffset = c[Len(c)].offset

LastIsLatest(h) == \A k \in 1 .. Len(h) : h[k].time <= Last(h).time

RuleInv ==
  /\ HeaderKnown(Contents(data))
  /\ OffsetOfLast(Contents(data), index, info)
  /\ LastIsLatest(history)

(* The rule of an open sensor says what the accepted values say.             *)
LEMMA RuleOfHistory ==
  ASSUME ClockInv, RuleInv, IsOpen, NEW time \in Nat
  PROVE  HasMoreRecent(time) <=> \E k \in 1 .. Len(history) : time <= history[k].time
<1>1. CASE index = <<>>
  <2>1. info.maxHour = 0 /\ history = <<>>
    BY <1>1, NoHourOpen DEF ClockInv, ClockFiles
  <2> QED
    BY <2>1 DEF HasMoreRecent
<1>2. CASE index # <<>>
  <2>1. /\ info.maxHour = Last(index).hour /\ info.maxHour > 0
        /\ info.maxOffset = Contents(data)[Len(Contents(data))].offset
    BY <1>2, LastHourOpen DEF RuleInv, OffsetOfLast, IsOpen
  <2>2. Last(history).time = ToTimeT(info.maxHour, info.maxOffset)
    BY <1>2, <2>1 DEF ClockInv, ClockFiles, EndsInBlock
  <2>3. HasMoreRecent(time) <=> time <= Last(history).time
    BY <2>1, <2>2 DEF HasMoreRecent
  <2>4. /\ Len(history) \in 1 .. Len(history) /\ Last(history) = history[Len(history)]
        /\ \A k \in 1 .. Len(history) : history[k].time \in Nat
        /\ Last(history).time \in Nat
    BY <1>2, LastAccepted
  <2>5. \A k \in 1 .. Len(history) : history[k].time <= Last(history).time
    BY DEF RuleInv, LastIsLatest
  <2> QED
    BY <2>3, <2>4, <2>5
<1> QED
  BY <1>1, <1>2

(* A write that is accepted is the last one and the latest one.              *)
LEMMA RuleWriteKeeps ==
  ASSUME ClockInv, RuleInv, OffsetsFit, Write
  PROVE  RuleInv'
<1> DEFINE t == TimeToWrite
<1>1. /\ IsOpen /\ call.op # "WriteValue" /\ UNCHANGED now
      /\ t \in Nat /\ HourSecs <= t /\ t <= MaxTime
  BY DateOfWrite
<1>2. CastWrite(t) \/ RefuseOlder(t)
  BY DEF Write
<1> HIDE DEF t
<1>3. CASE CastWrite(t)
  <2>1. /\ ~HasMoreRecent(t)
        /\ history' = Append(history, [time |-> t, value |-> NextValue])
        /\ WriteInNewHour(t) \/ CastInHour(t)
    BY <1>1, <1>3, CastEnds
  <2>2. /\ info'.maxOffset = Contents(data')[Len(Contents(data'))].offset
        /\ Contents(data')[1] = Contents(data)[1]
    BY <1>1, <2>1, NewHourKeeps, SameHourKeeps
  <2>3. Contents(data) # <<>>
    BY <1>1 DEF ClockInv, ClockFiles, LogShape, FileExists
  <2>4. HeaderKnown(Contents(data'))
    BY <2>2, <2>3 DEF RuleInv, HeaderKnown
  <2>5. OffsetOfLast(Contents(data'), index', info')
    BY <2>2 DEF OffsetOfLast
  <2>6. LastIsLatest(history')
    <3>1. /\ history' \in Seq(ValueType) /\ Last(history').time = t
          /\ Len(history') = Len(history) + 1
          /\ \A k \in 1 .. Len(history) : history'[k] = history[k]
      BY <1>1, <2>1, AcceptedLast
    <3>2. \A k \in 1 .. Len(history) : ~(t <= history[k].time)
      BY <1>1, <2>1, RuleOfHistory
    <3>3. \A k \in 1 .. Len(history) : history[k].time \in Nat
      <4>1. \A k \in 1 .. Len(history) : history[k] \in ValueType
        BY ClockFacts
      <4> QED
        BY <4>1 DEF ValueType
    <3>4. Last(history') = history'[Len(history) + 1]
      BY <3>1 DEF Last
    <3> SUFFICES ASSUME NEW k \in 1 .. Len(history') PROVE history'[k].time <= t
      BY <3>1 DEF LastIsLatest
    <3>5. CASE k \in 1 .. Len(history)
      BY <1>1, <3>1, <3>2, <3>3, <3>5
    <3>6. CASE k = Len(history) + 1
      BY <1>1, <3>1, <3>4, <3>6
    <3> QED
      BY <3>1, <3>5, <3>6, ClockFacts
  <2> QED
    BY <2>4, <2>5, <2>6 DEF RuleInv
<1>4. CASE RefuseOlder(t)
  BY <1>4, RefusalEnded DEF RuleInv
<1> QED
  BY <1>2, <1>3, <1>4

LEMMA RuleEnterKeeps ==
  ASSUME ClockInv, RuleInv, DatedLife, FourByteTypes, Enter
  PROVE  RuleInv'
<1>1. UNCHANGED <<now, history>>
  BY DEF Enter
<1>2. PICK c \in FreeCalls : UseOpenFiles(c) \/ OpenFiles(c) \/ OpenFilesFails(c)
                               \/ NoFile(c) \/ CreateFiles(c)
  BY DEF Enter
<1>3. CASE UseOpenFiles(c) \/ OpenFilesFails(c) \/ NoFile(c)
  BY <1>1, <1>3 DEF UseOpenFiles, OpenFilesFails, NoFile, RuleInv
<1>4. CASE OpenFiles(c)
  <2>1. Contents(data') = Contents(data) /\ index' = index
    BY <1>1, <1>4, ClockOpens DEF OpenFiles
  <2>2. Contents(data) # <<>>
    BY <1>4 DEF OpenFiles, ClockInv, ClockFiles, LogShape, FileExists
  <2>3. TailOffsets(Contents(data)) = {Contents(data)[Len(Contents(data))].offset}
    BY <2>2 DEF RuleInv, HeaderKnown, TailOffsets
  <2>4. info' = OpenedInfo(Contents(data)[Len(Contents(data))].offset)
    BY <1>4, <2>3 DEF OpenFiles
  <2>5. info'.maxOffset = Contents(data)[Len(Contents(data))].offset
    BY <2>4, InfoFields DEF OpenedInfo
  <2> QED
    BY <1>1, <2>1, <2>5 DEF RuleInv, OffsetOfLast
<1>5. CASE CreateFiles(c)
  <2>1. TypeOf(c) \in Types
    BY <1>2, <1>5, FreeCallDated DEF CreateFiles
  <2>2. index' = <<>> /\ Contents(data') = <<HeaderCell(TypeOf(c))>>
    BY <1>1, <1>5, <2>1, ClockCreates
  <2>3. HeaderCell(TypeOf(c)).type \in {"Float", "Int"}
    BY <2>1 DEF HeaderCell, FourByteTypes
  <2>4. HeaderKnown(Contents(data'))
    BY <2>2, <2>3 DEF HeaderKnown
  <2> QED
    BY <1>1, <2>2, <2>4 DEF RuleInv, OffsetOfLast
<1> QED
  BY <1>2, <1>3, <1>4, <1>5

LEMMA RuleInductive ==
  DatedLife /\ FourByteTypes /\ ClockInv /\ RuleInv /\ [ClockNext]_clockVars => RuleInv'
<1> SUFFICES ASSUME DatedLife, FourByteTypes, ClockInv, RuleInv, [ClockNext]_clockVars
             PROVE  RuleInv'
  OBVIOUS
<1>1. CASE Enter
  BY <1>1, RuleEnterKeeps
<1>2. CASE Write
  BY <1>2, RuleWriteKeeps DEF DatedLife
<1>3. CASE ReadLastValue \/ GetSensorInfo
  <2>1. Contents(data') = Contents(data) /\ UNCHANGED <<index, info, history>>
    BY <1>3, ClockReadKeeps
  <2> QED
    BY <2>1 DEF RuleInv
<1>4. CASE CloseSensor
  <2>1. /\ Contents(data') = Contents(data) /\ info' = NoInfo
        /\ UNCHANGED <<index, history>>
    BY <1>4, ClockCloseKeeps
  <2> QED
    BY <2>1 DEF RuleInv, OffsetOfLast
<1>5. CASE Remove
  <2>1. data' = Absent /\ index' = <<>> /\ info' = NoInfo /\ history' = <<>>
    BY <1>5 DEF Remove
  <2>2. Contents(data') = <<>>
    BY <2>1, AbsentFacts
  <2> QED
    BY <2>1, <2>2 DEF RuleInv, HeaderKnown, OffsetOfLast, LastIsLatest
<1>6. CASE Tick \/ StepBack
  <2>1. UNCHANGED <<data, index, info, history>>
    BY <1>6, TimeMoved
  <2> QED
    BY <2>1 DEF RuleInv
<1>7. CASE UNCHANGED clockVars
  BY <1>7 DEF clockVars, vars, RuleInv
<1> QED
  BY <1>1, <1>2, <1>3, <1>4, <1>5, <1>6, <1>7 DEF ClockNext

LEMMA RuleInvariant ==
  ASSUME DatedLife, FourByteTypes
  PROVE  ClockSpec => []RuleInv
<1>1. ClockInit => RuleInv
  <2> SUFFICES ASSUME ClockInit PROVE RuleInv
    OBVIOUS
  <2>1. data = Absent /\ index = <<>> /\ info = NoInfo /\ history = <<>>
    BY DEF ClockInit, Init
  <2>2. Contents(data) = <<>>
    BY <2>1, AbsentFacts
  <2> QED
    BY <2>1, <2>2 DEF RuleInv, HeaderKnown, OffsetOfLast, LastIsLatest
<1>2. ClockInv /\ RuleInv /\ [ClockNext]_clockVars => RuleInv'
  BY RuleInductive
<1> QED
  BY <1>1, <1>2, ClockInvariant, PTL DEF ClockSpec

(* A dated call that ends is a write that was accepted or refused.           *)
LEMMA DatedCallEnds ==
  ASSUME ClockInv, [ClockNext]_clockVars, call.op \in {"WriteOldValue", "WriteTimeValue"},
         call' = Idle
  PROVE  Write
<1>1. call # Idle
  BY IdleCall
<1>2. CASE Enter \/ CloseSensor \/ Remove
  BY <1>1, <1>2 DEF Enter, CloseSensor, Remove
<1>3. CASE ReadLastValue \/ GetSensorInfo
  BY <1>3 DEF ReadLastValue, GetSensorInfo
<1>4. CASE Tick \/ StepBack
  BY <1>1, <1>4 DEF Tick, StepBack
<1>5. CASE UNCHANGED clockVars
  BY <1>1, <1>5 DEF clockVars, vars
<1> QED
  BY <1>2, <1>3, <1>4, <1>5 DEF ClockNext

(* The more-recent rule compares with what was written, never with the       *)
(* clock: however the clock moves, a dated write is accepted exactly when it *)
(* is later than every accepted value, also after the files were closed and  *)
(* opened again.  The values have four bytes, where openDataFile finds the   *)
(* last offset (for the other types it does not).                            *)
THEOREM RuleHoldsWhateverClock ==
  ASSUME DatedLife, FourByteTypes
  PROVE  ClockSpec => RuleWhateverClock
<1> DEFINE Rule == call.op \in {"WriteOldValue", "WriteTimeValue"} /\ call' = Idle =>
                     (answer'.ok <=> \A k \in 1 .. Len(history) : history[k].time < TimeToWrite)
<1>1. ClockInv /\ RuleInv /\ [ClockNext]_clockVars => [Rule]_clockVars
  <2> SUFFICES ASSUME ClockInv, RuleInv, [ClockNext]_clockVars,
                      call.op \in {"WriteOldValue", "WriteTimeValue"}, call' = Idle
               PROVE  answer'.ok <=> \A k \in 1 .. Len(history) : history[k].time < TimeToWrite
    OBVIOUS
  <2> DEFINE t == TimeToWrite
  <2>1. Write
    BY DatedCallEnds
  <2>2. IsOpen /\ call.op # "WriteValue" /\ t \in Nat
    BY <2>1, DateOfWrite
  <2>3. CastWrite(t) \/ RefuseOlder(t)
    BY <2>1 DEF Write
  <2> HIDE DEF t
  <2>4. \A k \in 1 .. Len(history) : history[k].time \in Nat
    <3>1. \A k \in 1 .. Len(history) : history[k] \in ValueType
      BY ClockFacts
    <3> QED
      BY <3>1 DEF ValueType
  <2>5. HasMoreRecent(t) <=> ~ \A k \in 1 .. Len(history) : history[k].time < t
    BY <2>2, <2>4, RuleOfHistory
  <2>6. CASE CastWrite(t)
    <3>1. ~HasMoreRecent(t) /\ answer' = Answer(call, TRUE, "", {})
      BY <2>2, <2>6, CastEnds
    <3>2. answer'.ok
      BY <3>1 DEF Answer
    <3> QED
      BY <2>5, <3>1, <3>2 DEF t
  <2>7. CASE RefuseOlder(t)
    <3>1. HasMoreRecent(t) /\ answer' = Answer(call, FALSE, "WRITE_MRV", {})
      BY <2>7, RefusalEnded
    <3>2. ~answer'.ok
      BY <3>1 DEF Answer
    <3> QED
      BY <2>5, <3>1, <3>2 DEF t
  <2> QED
    BY <2>3, <2>6, <2>7
<1> QED
  BY <1>1, ClockInvariant, RuleInvariant, PTL DEF ClockSpec, RuleWhateverClock
=============================================================================
