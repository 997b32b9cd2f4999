----------------------------- MODULE StoreLemmas -----------------------------
(* What the operators of the store do, for all their arguments: times and    *)
(* hours; the stream operations to the contents and to the position, for     *)
(* every set of cells and every size of the buffer; the loops over the cells *)
(* of a file; and findIndex, for every ascending index and every hour.       *)
EXTENDS DataFile, IndexSearch, TLAPS, WellFoundedInduction

-----------------------------------------------------------------------------
(* Times.                                                                    *)

(* The hour of a time begins at or before it, and ends after it.             *)
LEMMA HourOfTime ==
  ASSUME NEW time \in Nat
  PROVE  /\ FromTimeT(time) \in Nat /\ ToTimeT(FromTimeT(time), 0) \in Nat
         /\ ToTimeT(FromTimeT(time), 0) <= time
         /\ time < ToTimeT(FromTimeT(time), 0) + HourSecs
         /\ OffsetIn(FromTimeT(time), time) \in Nat
         /\ HourSecs <= time => FromTimeT(time) # 0
  BY HourSecsAssumption DEF FromTimeT, ToTimeT, OffsetIn

LEMMA TimeTyped ==
  ASSUME NEW hour \in Nat, NEW offset \in Nat
  PROVE  ToTimeT(hour, offset) \in Nat
  BY HourSecsAssumption DEF ToTimeT

LEMMA HoursOrdered ==
  ASSUME NEW a \in Nat, NEW b \in Nat, ToTimeT(a, 0) < ToTimeT(b, 0)
  PROVE  a < b
  BY HourSecsAssumption DEF ToTimeT

-----------------------------------------------------------------------------
(* Streams.                                                                  *)

(* The descriptor stands at the end of the file.                             *)
AtEnd(f) == f.pos = Len(f.cells)

LEMMA Fields ==
  ASSUME NEW C, NEW f \in StreamType(C)
  PROVE  /\ f.state \in {"absent", "present"} /\ f.pos \in Nat
         /\ f.cells \in Seq(C) /\ f.buf \in Seq(C)
         /\ Len(f.cells) \in Nat /\ Len(f.buf) \in Nat
<1>1. /\ f.state \in {"absent", "present"} /\ f.pos \in Nat
      /\ f.cells \in Seq(C) /\ f.buf \in Seq(C)
  BY DEF StreamType
<1> QED
  BY <1>1

LEMMA ContentsFacts ==
  ASSUME NEW C, NEW f \in StreamType(C)
  PROVE  /\ Contents(f) \in Seq(C) /\ Len(Contents(f)) \in Nat
         /\ Len(Contents(f)) = Len(f.cells) + Len(f.buf)
         /\ f.buf = <<>> => Contents(f) = f.cells
<1> DEFINE s == f.cells
           t == f.buf
<1>1. s \in Seq(C) /\ t \in Seq(C)
  BY Fields
<1> HIDE DEF s, t
<1>2. /\ s \o t \in Seq(C) /\ Len(s \o t) \in Nat /\ Len(s \o t) = Len(s) + Len(t)
      /\ t = <<>> => s \o t = s
  BY <1>1
<1> QED
  BY <1>2 DEF Contents, s, t

LEMMA StreamTyped ==
  ASSUME NEW C, NEW e \in {"absent", "present"}, NEW cells \in Seq(C), NEW buf \in Seq(C),
         NEW p \in Nat
  PROVE  Stream(e, cells, buf, p) \in StreamType(C)
  BY DEF Stream, StreamType

LEMMA ConcatAppend ==
  ASSUME NEW C, NEW s \in Seq(C), NEW t \in Seq(C), NEW c \in C
  PROVE  s \o Append(t, c) = Append(s \o t, c)
  OBVIOUS

(* A stream that buffers nothing, made from cells.                           *)
LEMMA FlushedFacts ==
  ASSUME NEW C, NEW e \in {"absent", "present"}, NEW cells \in Seq(C), NEW p \in Nat
  PROVE  /\ Stream(e, cells, <<>>, p) \in StreamType(C)
         /\ Stream(e, cells, <<>>, p).state = e
         /\ Contents(Stream(e, cells, <<>>, p)) = cells
         /\ p = Len(cells) => AtEnd(Stream(e, cells, <<>>, p))
<1>1. <<>> \in Seq(C) /\ cells \o <<>> = cells
  OBVIOUS
<1>2. Stream(e, cells, <<>>, p) \in StreamType(C)
  BY <1>1, StreamTyped
<1> QED
  BY <1>1, <1>2 DEF AtEnd, Contents, Stream

LEMMA FlushFacts ==
  ASSUME NEW C, NEW f \in StreamType(C)
  PROVE  /\ Flush(f) \in StreamType(C)
         /\ Contents(Flush(f)) = Contents(f)
         /\ Flush(f).state = f.state
         /\ AtEnd(f) => AtEnd(Flush(f))
<1>1. CASE f.buf = <<>>
  BY <1>1 DEF Flush
<1>2. CASE f.buf # <<>>
  <2>1. Flush(f) = Stream(f.state, Contents(f), <<>>, Len(Contents(f)))
    BY <1>2 DEF Flush
  <2>2. f.state \in {"absent", "present"} /\ Contents(f) \in Seq(C) /\ Len(Contents(f)) \in Nat
    BY Fields, ContentsFacts
  <2> QED
    BY <2>1, <2>2, FlushedFacts
<1> QED
  BY <1>1, <1>2

(* A write appends one cell, wherever the descriptor stands.                 *)
LEMMA PutFacts ==
  ASSUME NEW C, NEW f \in StreamType(C), NEW cell \in C
  PROVE  /\ Put(f, cell) \in StreamType(C)
         /\ Contents(Put(f, cell)) = Append(Contents(f), cell)
         /\ Put(f, cell).state = f.state
         /\ AtEnd(f) => AtEnd(Put(f, cell))
<1> DEFINE g == Stream(f.state, f.cells, Append(f.buf, cell), f.pos)
<1>1. /\ f.state \in {"absent", "present"} /\ f.pos \in Nat
      /\ f.cells \in Seq(C) /\ f.buf \in Seq(C)
  BY Fields
<1>2. Append(f.buf, cell) \in Seq(C)
  BY <1>1
<1>3. g \in StreamType(C)
  BY <1>1, <1>2, StreamTyped
<1>4. /\ g.state = f.state /\ g.cells = f.cells /\ g.pos = f.pos
      /\ Contents(g) = f.cells \o Append(f.buf, cell)
  BY DEF Stream, Contents
<1> HIDE DEF g
<1>5. f.cells \o Append(f.buf, cell) = Append(f.cells \o f.buf, cell)
  <2> DEFINE s == f.cells
             t == f.buf
  <2>1. s \in Seq(C) /\ t \in Seq(C)
    BY <1>1
  <2> HIDE DEF s, t
  <2>2. s \o Append(t, cell) = Append(s \o t, cell)
    BY <2>1, ConcatAppend
  <2> QED
    BY <2>2 DEF s, t
<1>6. Contents(g) = Append(Contents(f), cell) /\ (AtEnd(f) => AtEnd(g))
  BY <1>4, <1>5 DEF AtEnd, Contents
<1>7. Put(f, cell) \in {g, Flush(g)}
  BY DEF Put, g
<1> QED
  BY <1>3, <1>4, <1>6, <1>7, FlushFacts

(* A seek changes nothing but the position.                                  *)
LEMMA SeekFacts ==
  ASSUME NEW C, NEW f \in StreamType(C), NEW p \in Nat
  PROVE  /\ SeekTo(f, p) \in StreamType(C)
         /\ Contents(SeekTo(f, p)) = Contents(f)
         /\ SeekTo(f, p).state = f.state
         /\ p = Len(Contents(f)) => AtEnd(SeekTo(f, p))
<1>1. f.state \in {"absent", "present"} /\ Contents(f) \in Seq(C)
  BY Fields, ContentsFacts
<1> QED
  BY <1>1, FlushedFacts DEF SeekTo

LEMMA SeekEndFacts ==
  ASSUME NEW C, NEW f \in StreamType(C)
  PROVE  /\ SeekEnd(f) \in StreamType(C)
         /\ Contents(SeekEnd(f)) = Contents(f)
         /\ SeekEnd(f).state = f.state
         /\ AtEnd(SeekEnd(f))
  BY ContentsFacts, SeekFacts DEF SeekEnd

LEMMA OpenFacts ==
  ASSUME NEW C, NEW f \in StreamType(C)
  PROVE  /\ Open(f) \in StreamType(C)
         /\ Contents(Open(f)) = Contents(f)
         /\ Open(f).state = "present"
         /\ f.cells = <<>> => AtEnd(Open(f))
<1>1. f.cells \in Seq(C) /\ f.buf \in Seq(C)
  BY Fields
<1>2. Open(f) \in StreamType(C)
  BY <1>1, StreamTyped DEF Open
<1>3. /\ Open(f).state = "present" /\ Open(f).pos = 0 /\ Open(f).cells = f.cells
      /\ Contents(Open(f)) = f.cells \o f.buf
  BY DEF Open, Stream, Contents
<1> QED
  BY <1>2, <1>3 DEF AtEnd, Contents

LEMMA CloseFacts ==
  ASSUME NEW C, NEW f \in StreamType(C)
  PROVE  /\ Close(f) \in StreamType(C)
         /\ Contents(Close(f)) = Contents(f)
         /\ Close(f).state = f.state
<1>1. f.state \in {"absent", "present"} /\ Contents(f) \in Seq(C)
  BY Fields, ContentsFacts
<1> QED
  BY <1>1, FlushedFacts DEF Close

LEMMA AbsentFacts ==
  ASSUME NEW C
  PROVE  /\ Absent \in StreamType(C)
         /\ Contents(Absent) = <<>>
         /\ Absent.state = "absent"
<1>1. <<>> \in Seq(C)
  OBVIOUS
<1> QED
  BY <1>1, FlushedFacts DEF Absent

(* At the end, tellp is where the next cell goes.                            *)
LEMMA TellpAtEnd ==
  ASSUME NEW C, NEW f \in StreamType(C), AtEnd(f)
  PROVE  Tellp(f) = Len(Contents(f))
  BY ContentsFacts DEF Tellp, AtEnd

-----------------------------------------------------------------------------
(* Loops.                                                                    *)

(* A set of numbers that is not empty has a smallest one.                    *)
LEMMA SmallestMember ==
  ASSUME NEW S \in SUBSET Nat, S # {}
  PROVE  \E m \in S : \A k \in S : m <= k
<1> DEFINE R == {ss \in Nat \X Nat : ss[1] < ss[2]}
<1>1. IsWellFoundedOn(R, Nat)
  BY NatLessThanWellFounded DEF OpToRel
<1>2. PICK m \in S : \A k \in S : <<k, m>> \notin R
  BY <1>1, WFMin
<1>3. ASSUME NEW k \in S PROVE m <= k
  <2>1. <<k, m>> \in Nat \X Nat
    OBVIOUS
  <2> QED
    BY <1>2, <2>1
<1> QED
  BY <1>3

(* A loop that a cell stops, stops at one of the cells or after the last.    *)
LEMMA FirstOfInFile ==
  ASSUME NEW c, Len(c) \in Nat, NEW stops \in SUBSET (1 .. Len(c))
  PROVE  /\ FirstOf(c, stops) \in 1 .. Len(c) + 1
         /\ stops # {} => /\ FirstOf(c, stops) \in stops
                          /\ \A j \in stops : FirstOf(c, stops) <= j
<1>1. CASE stops = {}
  BY <1>1 DEF FirstOf
<1>2. CASE stops # {}
  <2> DEFINE first == CHOOSE i \in stops : \A j \in stops : i <= j
  <2>1. \E i \in stops : \A j \in stops : i <= j
    BY <1>2, SmallestMember
  <2>2. first \in stops /\ \A j \in stops : first <= j
    BY <2>1
  <2>3. FirstOf(c, stops) = first
    BY <1>2 DEF FirstOf
  <2> HIDE DEF first
  <2> QED
    BY <2>2, <2>3
<1> QED
  BY <1>1, <1>2

(* The cell HourAt takes the hour from.                                      *)
Latest(c, i) == {j \in 1 .. i : IsHour(c, j) /\ \A k \in j + 1 .. i : ~IsHour(c, k)}

(* Behind an hour there is always one in force.                              *)
LEMMA LatestExists ==
  ASSUME NEW c, NEW i \in Nat, NEW h \in 1 .. i, IsHour(c, h)
  PROVE  Latest(c, i) # {}
<1> DEFINE back == {d \in 0 .. i - 1 : IsHour(c, i - d)}
<1>1. i - h \in back /\ back \in SUBSET Nat
  BY DEF IsHour
<1>2. PICK d \in back : \A e \in back : d <= e
  BY <1>1, SmallestMember
<1>3. i - d \in 1 .. i /\ IsHour(c, i - d)
  OBVIOUS
<1>4. ASSUME NEW k \in i - d + 1 .. i PROVE ~IsHour(c, k)
  <2>1. i - k \in 0 .. i - 1 /\ i - (i - k) = k
    BY <1>3
  <2>2. IsHour(c, k) => i - k \in back
    BY <2>1
  <2>3. d \in Nat /\ ~(d <= i - k)
    BY <1>3
  <2> HIDE DEF back
  <2> QED
    BY <1>2, <2>2, <2>3
<1> QED
  BY <1>3, <1>4 DEF Latest

(* It is the only one of the hours up to the cell with no hour behind it.    *)
LEMMA HourOfLatest ==
  ASSUME NEW c, NEW i \in Nat, NEW j \in Latest(c, i)
  PROVE  HourAt(c, i) = c[j].hour
<1>1. \A k \in Latest(c, i) : k = j
  BY DEF Latest
<1> DEFINE first == CHOOSE k \in Latest(c, i) : TRUE
<1>2. first \in Latest(c, i)
  OBVIOUS
<1>3. HourAt(c, i) = c[first].hour
  BY DEF HourAt, Latest
<1> HIDE DEF first
<1> QED
  BY <1>1, <1>2, <1>3

(* The hour in force depends on the cells before it only.                    *)
LEMMA HourAgrees ==
  ASSUME NEW c, NEW d, NEW i \in Nat, \A k \in 1 .. i : d[k] = c[k],
         NEW h \in 1 .. i, IsHour(c, h)
  PROVE  HourAt(d, i) = HourAt(c, i)
<1>1. PICK j \in Latest(c, i) : TRUE
  BY LatestExists
<1>2. j \in 1 .. i /\ j \in Latest(d, i)
  BY DEF Latest, IsHour
<1>3. HourAt(c, i) = c[j].hour /\ HourAt(d, i) = d[j].hour
  BY <1>2, HourOfLatest
<1> QED
  BY <1>2, <1>3

-----------------------------------------------------------------------------
(* The search in the index.                                                  *)

(* The product and the quotient of the first probe stay inside the index.    *)
LEMMA SlotInIndex ==
  ASSUME NEW size \in Nat \ {0}, NEW lo \in Nat, NEW hi \in Nat, NEW hour \in lo .. hi
  PROVE  Slot(size, lo, hi, hour) \in 0 .. size - 1
<1> DEFINE span == hi - lo + 1
           num  == size * (hour - lo)
<1>1. CASE lo = hi
  BY <1>1 DEF Slot
<1>2. CASE lo # hi
  <2>1. span \in Nat \ {0} /\ num \in Nat /\ hour - lo \in Nat /\ hour - lo <= span - 1
    BY <1>2
  <2>2. size * (hour - lo) <= size * (span - 1)
    BY <2>1
  <2>3. size * (span - 1) < size * span
    BY <2>1
  <2>4. num < size * span
    BY <2>1, <2>2, <2>3
  <2> HIDE DEF span, num
  <2>5. num \div span \in Nat /\ (num \div span) * span <= num
    BY <2>1
  <2>6. num \div span < size
    BY <2>1, <2>4, <2>5
  <2> QED
    BY <1>2, <2>5, <2>6 DEF Slot, span, num
<1> QED
  BY <1>1, <1>2

(* The last hour is probed at its own slot.                                  *)
LEMMA SlotOfLastHour ==
  ASSUME NEW size \in Nat \ {0}, NEW lo \in Nat, NEW hi \in Nat, lo <= hi,
         size <= hi - lo + 1, size = 1 <=> lo = hi
  PROVE  Slot(size, lo, hi, hi) = size - 1
<1> DEFINE span == hi - lo + 1
           num  == size * (hi - lo)
<1>1. CASE lo = hi
  BY <1>1 DEF Slot
<1>2. CASE lo # hi
  <2>1. span \in Nat \ {0} /\ num \in Nat /\ size <= span
    BY <1>2
  <2>2. num = (size - 1) * span + (span - size)
    BY <2>1
  <2>3. (size - 1) * span <= num /\ num < size * span
    BY <2>1, <2>2
  <2> HIDE DEF span, num
  <2>4. num \div span = size - 1
    BY <2>1, <2>3
  <2> QED
    BY <1>2, <2>4 DEF Slot, span, num
<1> QED
  BY <1>1, <1>2

LEMMA EntryFields ==
  ASSUME NEW index \in Seq(EntryType), NEW k \in 1 .. Len(index)
  PROVE  index[k] \in EntryType /\ index[k].hour \in Nat /\ index[k].pos \in Nat
<1>1. index[k] \in EntryType
  OBVIOUS
<1> QED
  BY <1>1 DEF EntryType

(* The backward walk returns the entry of the hour, if it lies on its way.   *)
LEMMA WalkBackFinds ==
  ASSUME NEW index \in Seq(EntryType), Ascending(index),
         NEW from \in 0 .. Len(index), NEW k \in 1 .. from
  PROVE  WalkBack(index, from, index[k].hour) = index[k].pos
<1> DEFINE hour == index[k].hour
           met  == {i \in 1 .. from : index[i].hour = hour
                                        /\ \A j \in i + 1 .. from : index[j].hour > hour}
<1>1. \A i, j \in 1 .. from : i < j => index[i].hour < index[j].hour
  BY DEF Ascending
<1>2. \A j \in 1 .. from : index[j].hour \in Nat
  BY EntryFields
<1>3. k \in met /\ \A j \in met : j = k
  BY <1>1, <1>2
<1> QED
  BY <1>3 DEF WalkBack

(* It returns nothing but the position of an entry of the hour.              *)
LEMMA WalkBackSound ==
  ASSUME NEW index \in Seq(EntryType), NEW from \in 0 .. Len(index),
         NEW hour, WalkBack(index, from, hour) # NotFound
  PROVE  \E k \in 1 .. from : /\ index[k].hour = hour
                             /\ index[k].pos = WalkBack(index, from, hour)
  BY DEF WalkBack

(* findIndex answers the position of an entry of the hour, or NotFound.      *)
LEMMA FindIndexSound ==
  ASSUME NEW index \in Seq(EntryType), NEW size \in Nat \ {0}, size = Len(index),
         NEW lo \in Nat, NEW hi \in Nat, size <= hi - lo + 1, NEW hour \in Nat,
         FindIndex(index, size, lo, hi, hour) # NotFound
  PROVE  \E k \in 1 .. Len(index) : /\ index[k].hour = hour
                                   /\ index[k].pos = FindIndex(index, size, lo, hi, hour)
<1> DEFINE slot == Slot(size, lo, hi, hour) + 1
<1>1. hour \in lo .. hi
  BY DEF FindIndex
<1>2. slot \in 1 .. Len(index)
  <2>1. Slot(size, lo, hi, hour) \in 0 .. size - 1
    BY <1>1, SlotInIndex
  <2> QED
    BY <2>1
<1>3. CASE index[slot].hour = hour
  BY <1>1, <1>2, <1>3 DEF FindIndex
<1>4. CASE index[slot].hour # hour
  <2>1. FindIndex(index, size, lo, hi, hour) = WalkBack(index, slot - 1, hour)
    BY <1>1, <1>4 DEF FindIndex
  <2>2. slot - 1 \in 0 .. Len(index)
    BY <1>2
  <2>3. PICK k \in 1 .. slot - 1 : /\ index[k].hour = hour
                                  /\ index[k].pos = WalkBack(index, slot - 1, hour)
    BY <2>1, <2>2, WalkBackSound
  <2> QED
    BY <1>2, <2>1, <2>3
<1> QED
  BY <1>3, <1>4

(* An hour is found exactly when its slot does not lie before its entry.     *)
LEMMA FindIndexFinds ==
  ASSUME NEW index \in Seq(EntryType), Ascending(index), NEW size \in Nat \ {0},
         size = Len(index), NEW lo \in Nat, NEW hi \in Nat, size <= hi - lo + 1,
         NEW k \in 1 .. Len(index), index[k].hour \in lo .. hi
  PROVE  FindIndex(index, size, lo, hi, index[k].hour) =
           IF k <= Slot(size, lo, hi, index[k].hour) + 1 THEN index[k].pos ELSE NotFound
<1> DEFINE hour == index[k].hour
           slot == Slot(size, lo, hi, hour) + 1
<1> HIDE DEF slot
<1>1. slot \in 1 .. Len(index)
  <2>1. Slot(size, lo, hi, index[k].hour) \in 0 .. size - 1
    BY SlotInIndex
  <2> QED
    BY <2>1 DEF slot
<1>2. \A i, j \in 1 .. Len(index) : i < j => index[i].hour < index[j].hour
  BY DEF Ascending
<1>3. \A j \in 1 .. Len(index) : index[j].hour \in Nat
  BY EntryFields
<1>4. FindIndex(index, size, lo, hi, hour) =
        IF index[slot].hour = hour THEN index[slot].pos
        ELSE IF index[slot].hour > hour THEN WalkBack(index, slot - 1, hour)
        ELSE NotFound
  BY DEF FindIndex, slot
<1>5. CASE k < slot
  <2>1. index[slot].hour > hour
    BY <1>1, <1>2, <1>3, <1>5
  <2>2. WalkBack(index, slot - 1, hour) = index[k].pos
    BY <1>1, <1>5, WalkBackFinds
  <2> QED
    BY <1>1, <1>3, <1>4, <1>5, <2>1, <2>2 DEF slot
<1>6. CASE k = slot
  BY <1>4, <1>6 DEF slot
<1>7. CASE k > slot
  <2>1. index[slot].hour < hour
    BY <1>1, <1>2, <1>7
  <2> QED
    BY <1>1, <1>3, <1>4, <1>7, <2>1 DEF slot
<1> QED
  BY <1>1, <1>5, <1>6, <1>7
=============================================================================
