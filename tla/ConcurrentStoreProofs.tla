------------------------ MODULE ConcurrentStoreProofs ------------------------
(* Proofs about ConcurrentStore, for every set of callers, every content of  *)
(* the files at the start, every buffer and every stray hour.                *)
EXTENDS ConcurrentStoreProps, StoreLemmas

-----------------------------------------------------------------------------
(* Streams that fail.                                                        *)

LEMMA StreamFields ==
  ASSUME NEW C, NEW s \in StreamOf(C)
  PROVE  /\ s.file \in StreamType(C) /\ s.bad \in BOOLEAN
         /\ Contents(s.file) \in Seq(C) /\ Len(Contents(s.file)) \in Nat
<1>1. s.file \in StreamType(C) /\ s.bad \in BOOLEAN
  BY DEF StreamOf
<1> QED
  BY <1>1, ContentsFacts

LEMMA GoodOrFailed ==
  ASSUME NEW C, NEW f \in StreamType(C)
  PROVE  /\ Good(f) \in StreamOf(C) /\ Good(f).file = f /\ ~Good(f).bad
         /\ Failed(f) \in StreamOf(C) /\ Failed(f).file = f /\ Failed(f).bad
  BY DEF Good, Failed, StreamOf

(* A write appends its cell, or does nothing in a stream that failed.        *)
LEMMA WriteToFacts ==
  ASSUME NEW C, NEW s \in StreamOf(C), NEW cell \in C
  PROVE  /\ WriteTo(s, cell) \in StreamOf(C)
         /\ WriteTo(s, cell).bad = s.bad
         /\ s.bad => Contents(WriteTo(s, cell).file) = Contents(s.file)
         /\ ~s.bad => /\ Contents(WriteTo(s, cell).file) = Append(Contents(s.file), cell)
                      /\ AtEnd(s.file) => AtEnd(WriteTo(s, cell).file)
<1>1. s.file \in StreamType(C) /\ s.bad \in BOOLEAN
  BY StreamFields
<1>2. CASE s.bad
  BY <1>2 DEF WriteTo
<1>3. CASE ~s.bad
  <2> DEFINE f == Put(s.file, cell)
  <2>1. WriteTo(s, cell) = Good(f)
    BY <1>3 DEF WriteTo
  <2>2. /\ f \in StreamType(C) /\ Contents(f) = Append(Contents(s.file), cell)
        /\ AtEnd(s.file) => AtEnd(f)
    BY <1>1, PutFacts
  <2> HIDE DEF f
  <2>3. Good(f) \in StreamOf(C) /\ Good(f).file = f /\ ~Good(f).bad
    BY <2>2, GoodOrFailed
  <2>4. WriteTo(s, cell).bad = s.bad
    <3>1. s.bad = FALSE
      BY <1>1, <1>3
    <3>2. Good(f).bad = FALSE
      BY DEF Good
    <3> QED
      BY <2>1, <3>1, <3>2
  <2> QED
    BY <1>3, <2>1, <2>2, <2>3, <2>4
<1> QED
  BY <1>1, <1>2, <1>3

(* Seeks and reads leave the contents alone, whether they fail or not.       *)
LEMMA SeekInFacts ==
  ASSUME NEW C, NEW s \in StreamOf(C), NEW p \in Int
  PROVE  SeekIn(s, p) \in StreamOf(C) /\ Contents(SeekIn(s, p).file) = Contents(s.file)
<1>1. s.file \in StreamType(C)
  BY StreamFields
<1>2. SeekIn(s, p) \in {s, Failed(Flush(s.file)), Good(SeekTo(s.file, p))}
  BY DEF SeekIn
<1>3. SeekIn(s, p) = Good(SeekTo(s.file, p)) => p \in Nat \/ SeekIn(s, p) = Failed(Flush(s.file))
                                                 \/ SeekIn(s, p) = s
  BY DEF SeekIn
<1> QED
  BY <1>1, <1>2, <1>3, SeekFacts, FlushFacts, GoodOrFailed

LEMMA SeekInEndFacts ==
  ASSUME NEW C, NEW s \in StreamOf(C)
  PROVE  SeekInEnd(s) \in StreamOf(C) /\ Contents(SeekInEnd(s).file) = Contents(s.file)
<1>1. s.file \in StreamType(C)
  BY StreamFields
<1> QED
  BY <1>1, SeekEndFacts, GoodOrFailed DEF SeekInEnd

LEMMA ReadFacts ==
  ASSUME NEW C, NEW s \in StreamOf(C)
  PROVE  /\ AfterRead(s) \in StreamOf(C) /\ Contents(AfterRead(s).file) = Contents(s.file)
         /\ CanRead(s) => ReadCell(s) \in C
<1>1. s.file \in StreamType(C) /\ Contents(s.file) \in Seq(C) /\ Len(Contents(s.file)) \in Nat
  BY StreamFields
<1>2. /\ Flush(s.file) \in StreamType(C) /\ Contents(Flush(s.file)) = Contents(s.file)
      /\ Here(s) \in Nat
  <2>1. Flush(s.file) \in StreamType(C) /\ Contents(Flush(s.file)) = Contents(s.file)
    BY <1>1, FlushFacts
  <2> QED
    BY <2>1, Fields DEF Here
<1>3. CASE CanRead(s)
  <2>1. Here(s) + 1 \in 1 .. Len(Contents(s.file)) /\ ~s.bad
    BY <1>1, <1>2, <1>3 DEF CanRead, HasCell
  <2>2. ReadCell(s) \in C
    <3> DEFINE log == Contents(s.file)
    <3>1. log \in Seq(C) /\ Here(s) + 1 \in 1 .. Len(log)
      BY <1>1, <2>1
    <3> HIDE DEF log
    <3>2. log[Here(s) + 1] \in C
      BY <3>1
    <3> QED
      BY <3>2 DEF ReadCell, CellAt, log
  <2>3. AfterRead(s) = Good(SeekTo(s.file, Here(s) + 1))
    BY <1>3, <2>1 DEF AfterRead
  <2>4. Here(s) + 1 \in Nat
    BY <1>2
  <2>5. /\ SeekTo(s.file, Here(s) + 1) \in StreamType(C)
        /\ Contents(SeekTo(s.file, Here(s) + 1)) = Contents(s.file)
    BY <1>1, <2>4, SeekFacts
  <2> QED
    BY <2>2, <2>3, <2>5, GoodOrFailed
<1>4. CASE ~CanRead(s)
  <2>1. AfterRead(s) \in {s, Failed(Flush(s.file))}
    BY <1>4 DEF AfterRead
  <2> QED
    BY <1>1, <1>2, <1>4, <2>1, GoodOrFailed
<1> QED
  BY <1>3, <1>4

LEMMA ClearedFacts ==
  ASSUME NEW C, NEW s \in StreamOf(C)
  PROVE  Cleared(s) \in StreamOf(C) /\ Contents(Cleared(s).file) = Contents(s.file)
<1>1. s.file \in StreamType(C)
  BY StreamFields
<1> QED
  BY <1>1, GoodOrFailed DEF Cleared

(* tellp answers -1 in a stream that failed.                                 *)
LEMMA PositionFacts ==
  ASSUME NEW C, NEW s \in StreamOf(C)
  PROVE  /\ PositionOf(s) \in Int
         /\ ~s.bad /\ AtEnd(s.file) => PositionOf(s) = Len(Contents(s.file))
<1>1. s.file \in StreamType(C)
  BY StreamFields
<1>2. Tellp(s.file) \in Int
  BY <1>1, Fields DEF Tellp
<1> QED
  BY <1>1, <1>2, TellpAtEnd DEF PositionOf

-----------------------------------------------------------------------------
(* Blocks laid out one after another.                                        *)

(* The parts of FlattenSeq: what is laid out after each block.               *)
Laid(t, n, f) ==
  f = [i \in 1 .. n |-> IF i = 1 THEN t[i] ELSE f[i - 1] \o t[i]]

LEMMA LaidParts ==
  ASSUME NEW t, NEW n \in Nat, NEW f, Laid(t, n, f)
  PROVE  /\ DOMAIN f = 1 .. n
         /\ \A i \in 1 .. n : f[i] = IF i = 1 THEN t[i] ELSE f[i - 1] \o t[i]
<1> DEFINE Part(i) == IF i = 1 THEN t[i] ELSE f[i - 1] \o t[i]
<1>1. f = [i \in 1 .. n |-> Part(i)]
  BY DEF Laid
<1> HIDE DEF Part
<1>2. DOMAIN f = 1 .. n /\ \A i \in 1 .. n : f[i] = Part(i)
  BY <1>1
<1> QED
  BY <1>2 DEF Part

(* Layouts of the same blocks agree as far as both go.                       *)
LEMMA LayoutsAgree ==
  ASSUME NEW t, NEW m \in Nat, NEW n \in Nat, m <= n, NEW f, NEW g,
         Laid(t, m, f), Laid(t, n, g), NEW k \in 1 .. m
  PROVE  f[k] = g[k]
<1> DEFINE S == {i \in 1 .. m : f[i] # g[i]}
<1>1. S \in SUBSET Nat
  OBVIOUS
<1>2. SUFFICES ASSUME S # {} PROVE FALSE
  OBVIOUS
<1> HIDE DEF S
<1>3. PICK i \in S : \A j \in S : i <= j
  BY <1>1, <1>2, SmallestMember
<1>4. i \in 1 .. m /\ i \in 1 .. n /\ f[i] # g[i]
  BY <1>3 DEF S
<1>5. i - 1 \in 1 .. m => f[i - 1] = g[i - 1]
  BY <1>3, <1>4 DEF S
<1>6. /\ f[i] = IF i = 1 THEN t[i] ELSE f[i - 1] \o t[i]
      /\ g[i] = IF i = 1 THEN t[i] ELSE g[i - 1] \o t[i]
  BY <1>4, LaidParts
<1> QED
  BY <1>4, <1>5, <1>6

LEMMA LayoutGrows ==
  ASSUME NEW t, NEW n \in Nat \ {0}, NEW f, Laid(t, n - 1, f)
  PROVE  \E g : Laid(t, n, g)
<1> DEFINE next == IF n = 1 THEN t[n] ELSE f[n - 1] \o t[n]
           g    == [i \in 1 .. n |-> IF i = n THEN next ELSE f[i]]
<1>1. \A i \in 1 .. n : g[i] = IF i = n THEN next ELSE f[i]
  OBVIOUS
<1>2. ASSUME NEW i \in 1 .. n PROVE g[i] = IF i = 1 THEN t[i] ELSE g[i - 1] \o t[i]
  <2>1. CASE i = n
    <3>1. i # 1 => i - 1 \in 1 .. n /\ g[i - 1] = f[n - 1]
      BY <1>1, <2>1
    <3>2. g[i] = next
      BY <2>1
    <3> HIDE DEF g
    <3> QED
      BY <2>1, <3>1, <3>2
  <2>2. CASE i # n
    <3>1. i \in 1 .. n - 1 /\ n - 1 \in Nat
      BY <2>2
    <3>2. f[i] = IF i = 1 THEN t[i] ELSE f[i - 1] \o t[i]
      BY <3>1, LaidParts
    <3>3. i # 1 => i - 1 \in 1 .. n /\ i - 1 # n
      BY <3>1
    <3>4. g[i] = f[i] /\ (i # 1 => g[i - 1] = f[i - 1])
      BY <1>1, <2>2, <3>3
    <3> HIDE DEF g
    <3> QED
      BY <3>2, <3>4
  <2> QED
    BY <2>1, <2>2
<1>3. g = [i \in 1 .. n |-> g[i]]
  OBVIOUS
<1> HIDE DEF g
<1>4. g = [i \in 1 .. n |-> IF i = 1 THEN t[i] ELSE g[i - 1] \o t[i]]
  <2> DEFINE h == [i \in 1 .. n |-> IF i = 1 THEN t[i] ELSE g[i - 1] \o t[i]]
  <2>1. \A i \in 1 .. n : h[i] = g[i]
    BY <1>2
  <2>2. h = [i \in 1 .. n |-> h[i]]
    OBVIOUS
  <2> HIDE DEF h
  <2>3. h = g
    BY <1>3, <2>1, <2>2
  <2> QED
    BY <2>3 DEF h
<1> QED
  BY <1>4 DEF Laid

LEMMA LayoutExists ==
  ASSUME NEW t, NEW n \in Nat
  PROVE  \E f : Laid(t, n, f)
<1> DEFINE S == {i \in Nat : ~\E f : Laid(t, i, f)}
<1>1. S \in SUBSET Nat
  OBVIOUS
<1>2. SUFFICES ASSUME S # {} PROVE FALSE
  OBVIOUS
<1> HIDE DEF S
<1>3. PICK i \in S : \A j \in S : i <= j
  BY <1>1, <1>2, SmallestMember
<1>4. i \in Nat /\ ~\E f : Laid(t, i, f)
  BY <1>3 DEF S
<1>5. CASE i = 0
  <2> DEFINE none == [j \in 1 .. 0 |-> t[j]]
  <2>1. Laid(t, 0, none)
    <3> DEFINE h == [j \in 1 .. 0 |-> IF j = 1 THEN t[j] ELSE none[j - 1] \o t[j]]
    <3>1. h = none
      OBVIOUS
    <3> HIDE DEF none
    <3> QED
      BY <3>1 DEF Laid
  <2> QED
    BY <1>4, <1>5, <2>1
<1>6. CASE i # 0
  <2>1. i - 1 \in Nat /\ i - 1 \notin S
    BY <1>3, <1>4, <1>6
  <2>2. PICK f : Laid(t, i - 1, f)
    BY <2>1 DEF S
  <2> QED
    BY <1>4, <1>6, <2>2, LayoutGrows
<1> QED
  BY <1>5, <1>6

LEMMA Prefix ==
  ASSUME NEW C, NEW t \in Seq(C), NEW n \in 0 .. Len(t)
  PROVE  /\ SubSeq(t, 1, n) \in Seq(C) /\ Len(SubSeq(t, 1, n)) = n
         /\ \A i \in 1 .. n : SubSeq(t, 1, n)[i] = t[i]
         /\ SubSeq(t, 1, 0) = <<>> /\ SubSeq(t, 1, Len(t)) = t
  OBVIOUS

LEMMA FlattenLaid ==
  ASSUME NEW t, NEW n \in Nat \ {0}, Len(t) = n
  PROVE  \E f : Laid(t, n, f) /\ FlattenSeq(t) = f[n]
<1> DEFINE f == CHOOSE g : g = [i \in 1 .. Len(t) |-> IF i = 1 THEN t[i] ELSE g[i - 1] \o t[i]]
<1>1. \E g : g = [i \in 1 .. Len(t) |-> IF i = 1 THEN t[i] ELSE g[i - 1] \o t[i]]
  BY LayoutExists DEF Laid
<1>2. f = [i \in 1 .. Len(t) |-> IF i = 1 THEN t[i] ELSE f[i - 1] \o t[i]]
  BY <1>1
<1>3. FlattenSeq(t) = f[n]
  BY DEF FlattenSeq
<1> HIDE DEF f
<1> QED
  BY <1>2, <1>3 DEF Laid

(* One more block is laid out behind the others.                             *)
LEMMA FlattenStep ==
  ASSUME NEW C, NEW t \in Seq(Seq(C)), NEW n \in 1 .. Len(t)
  PROVE  FlattenSeq(SubSeq(t, 1, n)) = FlattenSeq(SubSeq(t, 1, n - 1)) \o t[n]
<1>1. ASSUME NEW m \in 1 .. Len(t)
      PROVE  \E f : Laid(t, m, f) /\ FlattenSeq(SubSeq(t, 1, m)) = f[m]
  <2> DEFINE s == SubSeq(t, 1, m)
  <2>1. Len(s) = m /\ \A i \in 1 .. m : s[i] = t[i]
    BY Prefix
  <2> HIDE DEF s
  <2>2. PICK f : Laid(s, m, f) /\ FlattenSeq(s) = f[m]
    BY <2>1, FlattenLaid
  <2>3. [i \in 1 .. m |-> IF i = 1 THEN s[i] ELSE f[i - 1] \o s[i]]
          = [i \in 1 .. m |-> IF i = 1 THEN t[i] ELSE f[i - 1] \o t[i]]
    BY <2>1
  <2>4. Laid(t, m, f)
    BY <2>2, <2>3 DEF Laid
  <2> QED
    BY <2>2, <2>4 DEF s
<1>2. PICK f : Laid(t, n, f) /\ FlattenSeq(SubSeq(t, 1, n)) = f[n]
  BY <1>1
<1>3. f[n] = IF n = 1 THEN t[n] ELSE f[n - 1] \o t[n]
  BY <1>2, LaidParts
<1>4. CASE n = 1
  <2>1. t[1] \in Seq(C) /\ SubSeq(t, 1, 0) = <<>>
    BY <1>4, Prefix
  <2>2. FlattenSeq(<<>>) = <<>>
    BY DEF FlattenSeq
  <2>3. ASSUME NEW u \in Seq(C) PROVE <<>> \o u = u
    OBVIOUS
  <2>4. FlattenSeq(SubSeq(t, 1, n - 1)) = <<>>
    <3>1. n - 1 = 0
      BY <1>4
    <3> QED
      BY <2>1, <2>2, <3>1
  <2>5. <<>> \o t[1] = t[1]
    BY <2>1, <2>3
  <2>6. FlattenSeq(SubSeq(t, 1, n)) = t[1]
    BY <1>2, <1>3, <1>4
  <2> QED
    BY <1>4, <2>4, <2>5, <2>6
<1>5. CASE n # 1
  <2>1. n - 1 \in 1 .. Len(t) /\ n - 1 \in 1 .. n - 1 /\ n - 1 \in Nat /\ n \in Nat
    BY <1>5
  <2>2. PICK g : Laid(t, n - 1, g) /\ FlattenSeq(SubSeq(t, 1, n - 1)) = g[n - 1]
    BY <1>1, <2>1
  <2>3. g[n - 1] = f[n - 1]
    BY <1>2, <2>1, <2>2, LayoutsAgree
  <2> QED
    BY <1>2, <1>3, <1>5, <2>2, <2>3
<1> QED
  BY <1>4, <1>5

LEMMA FlattenFacts ==
  ASSUME NEW C, NEW t \in Seq(Seq(C))
  PROVE  /\ FlattenSeq(SubSeq(t, 1, 0)) = <<>>
         /\ \A n \in 0 .. Len(t) : FlattenSeq(SubSeq(t, 1, n)) \in Seq(C)
         /\ FlattenSeq(t) = FlattenSeq(SubSeq(t, 1, Len(t)))
<1>1. SubSeq(t, 1, 0) = <<>> /\ SubSeq(t, 1, Len(t)) = t /\ Len(t) \in Nat
  BY Prefix
<1>2. FlattenSeq(<<>>) = <<>>
  BY DEF FlattenSeq
<1>3. ASSUME NEW n \in 0 .. Len(t) PROVE FlattenSeq(SubSeq(t, 1, n)) \in Seq(C)
  <2> DEFINE S == {i \in 0 .. Len(t) : FlattenSeq(SubSeq(t, 1, i)) \notin Seq(C)}
  <2>1. S \in SUBSET Nat
    OBVIOUS
  <2>2. SUFFICES ASSUME S # {} PROVE FALSE
    OBVIOUS
  <2> HIDE DEF S
  <2>3. PICK i \in S : \A j \in S : i <= j
    BY <2>1, <2>2, SmallestMember
  <2>4. i \in 0 .. Len(t) /\ FlattenSeq(SubSeq(t, 1, i)) \notin Seq(C)
    BY <2>3 DEF S
  <2>5. i # 0
    <3>1. <<>> \in Seq(C)
      OBVIOUS
    <3>2. FlattenSeq(SubSeq(t, 1, 0)) \in Seq(C)
      BY <1>1, <1>2, <3>1
    <3> QED
      BY <2>4, <3>2
  <2>6. i - 1 \in 0 .. Len(t) /\ i - 1 \notin S /\ i \in 1 .. Len(t)
    BY <1>1, <2>3, <2>4, <2>5
  <2>7. FlattenSeq(SubSeq(t, 1, i - 1)) \in Seq(C) /\ t[i] \in Seq(C)
    BY <2>6 DEF S
  <2>8. ASSUME NEW u \in Seq(C), NEW v \in Seq(C) PROVE u \o v \in Seq(C)
    OBVIOUS
  <2> QED
    BY <2>4, <2>6, <2>7, <2>8, FlattenStep
<1> QED
  BY <1>1, <1>2, <1>3

-----------------------------------------------------------------------------
(* What a log and its index become when cells are added.                     *)

LEMMA Joined ==
  ASSUME NEW C, NEW s \in Seq(C), NEW t \in Seq(C)
  PROVE  /\ s \o t \in Seq(C) /\ Len(s \o t) = Len(s) + Len(t)
         /\ Len(s) \in Nat /\ Len(t) \in Nat
         /\ \A i \in 1 .. Len(s) : (s \o t)[i] = s[i]
         /\ \A i \in Len(s) + 1 .. Len(s) + Len(t) : (s \o t)[i] = t[i - Len(s)]
  OBVIOUS

LEMMA Appended ==
  ASSUME NEW C, NEW s \in Seq(C), NEW x \in C
  PROVE  /\ Append(s, x) \in Seq(C) /\ Len(Append(s, x)) = Len(s) + 1 /\ Len(s) \in Nat
         /\ \A i \in 1 .. Len(s) : Append(s, x)[i] = s[i]
         /\ Append(s, x)[Len(s) + 1] = x
  OBVIOUS

LEMMA KindsOfCells ==
  ASSUME NEW c \in Cell
  PROVE  /\ c.kind \in {"header", "hour", "value", "endline"}
         /\ c.kind = "hour" => c.hour \in Nat
         /\ c.kind = "value" => c.offset \in Nat /\ c.value \in Nat
  BY DEF Cell, EndLine

LEMMA CellsWritten ==
  /\ HeaderCell("Float") \in Cell /\ HeaderCell("Float").kind = "header"
  /\ EndLine \in Cell /\ EndLine.kind = "endline"
  /\ \A hour \in Nat : HourCell(hour) \in Cell /\ HourCell(hour).kind = "hour"
  /\ \A off, v \in Nat : /\ ValueCell(off, v) \in Cell /\ ValueCell(off, v).kind = "value"
                         /\ ValueCell(off, v).value = v
<1>1. HeaderCell("Float") \in Cell /\ HeaderCell("Float").kind = "header"
  BY DEF HeaderCell, Cell, ValueTypes
<1>2. EndLine \in Cell /\ EndLine.kind = "endline"
  BY DEF Cell, EndLine
<1>3. \A hour \in Nat : HourCell(hour) \in Cell /\ HourCell(hour).kind = "hour"
  BY DEF Cell, HourCell
<1>4. \A off, v \in Nat : /\ ValueCell(off, v) \in Cell /\ ValueCell(off, v).kind = "value"
                          /\ ValueCell(off, v).value = v
  BY DEF Cell, ValueCell
<1> QED
  BY <1>1, <1>2, <1>3, <1>4

(* Cells without an hour behind a log leave its index as it is.              *)
LEMMA NoHourAdded ==
  ASSUME NEW c \in Seq(Cell), NEW d \in Seq(Cell), \A i \in 1 .. Len(d) : d[i].kind # "hour",
         NEW e, NEW n \in Nat, Indexes(e, n, c)
  PROVE  Indexes(e, n, c \o d)
<1> DEFINE x == c \o d
<1>1. /\ Len(x) = Len(c) + Len(d) /\ Len(c) \in Nat /\ Len(d) \in Nat
      /\ \A i \in 1 .. Len(c) : x[i] = c[i]
      /\ \A i \in Len(c) + 1 .. Len(c) + Len(d) : x[i] = d[i - Len(c)]
  BY Joined
<1> HIDE DEF x
<1>2. Len(e) = 1 + 2 * n /\ \A k, l \in 1 .. n : k < l => e[2 * k + 1].pos < e[2 * l + 1].pos
  BY DEF Indexes
<1>3. ASSUME NEW k \in 1 .. n
      PROVE  /\ e[2 * k + 1] = PositionCell(e[2 * k + 1].pos)
             /\ e[2 * k + 1].pos \in 0 .. Len(x) - 1 /\ IsHour(x, e[2 * k + 1].pos + 1)
             /\ e[2 * k] = x[e[2 * k + 1].pos + 1]
  <2> DEFINE p == e[2 * k + 1].pos
  <2>1. /\ e[2 * k + 1] = PositionCell(p) /\ p \in 0 .. Len(c) - 1 /\ IsHour(c, p + 1)
        /\ e[2 * k] = c[p + 1]
    BY DEF Indexes
  <2> HIDE DEF p
  <2>2. p \in 0 .. Len(x) - 1 /\ x[p + 1] = c[p + 1]
    BY SMTT(20), <1>1, <2>1
  <2>3. IsHour(x, p + 1)
    BY <2>1, <2>2 DEF IsHour
  <2> QED
    BY <2>1, <2>2, <2>3 DEF p
<1>4. ASSUME NEW i \in 1 .. Len(x), IsHour(x, i) PROVE \E k \in 1 .. n : e[2 * k + 1].pos = i - 1
  <2>1. i \in 1 .. Len(c) /\ IsHour(c, i)
    <3>1. i \notin Len(c) + 1 .. Len(c) + Len(d)
      <4>1. i \in Len(c) + 1 .. Len(c) + Len(d) => i - Len(c) \in 1 .. Len(d)
        BY <1>1
      <4> QED
        BY <1>1, <1>4, <4>1 DEF IsHour
    <3> QED
      BY <1>1, <1>4, <3>1 DEF IsHour
  <2> QED
    BY <2>1 DEF Indexes
<1> QED
  BY <1>2, <1>3, <1>4 DEF Indexes, x

(* An hour behind a log, and its entry behind the index.                     *)
LEMMA HourAdded ==
  ASSUME NEW c \in Seq(Cell), NEW hour \in Nat, NEW e \in Seq(IndexCell), NEW n \in Nat,
         Indexes(e, n, c)
  PROVE  Indexes(Append(Append(e, HourCell(hour)), PositionCell(Len(c))), n + 1,
                 Append(c, HourCell(hour)))
<1> DEFINE x == Append(c, HourCell(hour))
           f == Append(e, HourCell(hour))
           g == Append(f, PositionCell(Len(c)))
<1>1. HourCell(hour) \in Cell /\ HourCell(hour).kind = "hour"
  BY CellsWritten
<1>2. /\ Len(x) = Len(c) + 1 /\ Len(c) \in Nat /\ x[Len(c) + 1] = HourCell(hour)
      /\ \A i \in 1 .. Len(c) : x[i] = c[i]
  BY <1>1, Appended
<1>3. /\ Len(e) = 1 + 2 * n
      /\ \A k, l \in 1 .. n : k < l => e[2 * k + 1].pos < e[2 * l + 1].pos
  BY DEF Indexes
<1>4. HourCell(hour) \in IndexCell /\ PositionCell(Len(c)) \in IndexCell
  BY <1>1, <1>2 DEF IndexCell, PositionCell
<1>5. PositionCell(Len(c)).pos = Len(c)
  BY DEF PositionCell
<1>6. /\ Len(g) = 1 + 2 * (n + 1) /\ g[2 * (n + 1)] = HourCell(hour)
      /\ g[2 * (n + 1) + 1] = PositionCell(Len(c))
      /\ \A i \in 1 .. 1 + 2 * n : g[i] = e[i]
  <2>1. /\ f \in Seq(IndexCell) /\ Len(f) = 2 + 2 * n /\ f[2 + 2 * n] = HourCell(hour)
        /\ \A i \in 1 .. 1 + 2 * n : f[i] = e[i]
    <3>1. Len(e) + 1 = 2 + 2 * n
      BY <1>3
    <3> QED
      BY <1>3, <1>4, <3>1, Appended
  <2> HIDE DEF f
  <2>2. /\ Len(g) = 3 + 2 * n /\ g[3 + 2 * n] = PositionCell(Len(c))
        /\ \A i \in 1 .. 2 + 2 * n : g[i] = f[i]
    <3>1. Len(f) + 1 = 3 + 2 * n
      BY <2>1
    <3> QED
      BY SMTT(60), <1>4, <2>1, <3>1, Appended
  <2> HIDE DEF g
  <2>3. 2 * (n + 1) = 2 + 2 * n /\ 2 * (n + 1) + 1 = 3 + 2 * n /\ 1 + 2 * (n + 1) = 3 + 2 * n
    OBVIOUS
  <2>4. 2 + 2 * n \in 1 .. 2 + 2 * n /\ \A i \in 1 .. 1 + 2 * n : i \in 1 .. 2 + 2 * n
    OBVIOUS
  <2> QED
    BY <2>1, <2>2, <2>3, <2>4
<1> HIDE DEF x, g
<1>7. ASSUME NEW k \in 1 .. n
      PROVE  /\ g[2 * k + 1] = e[2 * k + 1] /\ g[2 * k] = e[2 * k]
             /\ e[2 * k + 1] = PositionCell(e[2 * k + 1].pos)
             /\ e[2 * k + 1].pos \in 0 .. Len(c) - 1 /\ IsHour(c, e[2 * k + 1].pos + 1)
             /\ e[2 * k] = c[e[2 * k + 1].pos + 1]
  <2>1. 2 * k + 1 \in 1 .. 1 + 2 * n /\ 2 * k \in 1 .. 1 + 2 * n
    OBVIOUS
  <2> QED
    BY <1>6, <2>1 DEF Indexes
<1>8. ASSUME NEW k \in 1 .. n + 1
      PROVE  /\ g[2 * k + 1] = PositionCell(g[2 * k + 1].pos)
             /\ g[2 * k + 1].pos \in 0 .. Len(x) - 1 /\ IsHour(x, g[2 * k + 1].pos + 1)
             /\ g[2 * k] = x[g[2 * k + 1].pos + 1]
  <2>1. CASE k = n + 1
    <3>1. g[2 * k + 1].pos = Len(c) /\ g[2 * k + 1] = PositionCell(Len(c)) /\ g[2 * k] = HourCell(hour)
      BY <1>5, <1>6, <2>1
    <3>2. Len(c) \in 0 .. Len(x) - 1 /\ IsHour(x, Len(c) + 1)
      BY <1>1, <1>2 DEF IsHour
    <3> QED
      BY <1>2, <3>1, <3>2
  <2>2. CASE k # n + 1
    <3> DEFINE p == e[2 * k + 1].pos
    <3>1. k \in 1 .. n
      BY <2>2
    <3>2. /\ g[2 * k + 1] = PositionCell(p) /\ g[2 * k + 1].pos = p
          /\ p \in 0 .. Len(c) - 1 /\ IsHour(c, p + 1) /\ g[2 * k] = c[p + 1]
      BY <1>7, <3>1
    <3> HIDE DEF p
    <3>3. p \in 0 .. Len(x) - 1 /\ x[p + 1] = c[p + 1]
      BY <1>2, <3>2
    <3>4. IsHour(x, p + 1)
      BY <3>2, <3>3 DEF IsHour
    <3> QED
      BY <3>2, <3>3, <3>4
  <2> QED
    BY <2>1, <2>2
<1>9. ASSUME NEW k \in 1 .. n + 1, NEW l \in 1 .. n + 1, k < l
      PROVE  g[2 * k + 1].pos < g[2 * l + 1].pos
  <2>1. k \in 1 .. n /\ g[2 * k + 1].pos = e[2 * k + 1].pos /\ e[2 * k + 1].pos \in 0 .. Len(c) - 1
    BY <1>7, <1>9
  <2>2. CASE l = n + 1
    <3>1. g[2 * l + 1].pos = Len(c)
      BY <1>5, <1>6, <2>2
    <3> QED
      BY <1>2, <2>1, <3>1
  <2>3. CASE l # n + 1
    <3>1. l \in 1 .. n /\ g[2 * l + 1].pos = e[2 * l + 1].pos
      BY <1>7, <2>3
    <3> QED
      BY <1>3, <1>9, <2>1, <3>1
  <2> QED
    BY <2>2, <2>3
<1>10. ASSUME NEW i \in 1 .. Len(x), IsHour(x, i)
       PROVE  \E k \in 1 .. n + 1 : g[2 * k + 1].pos = i - 1
  <2>1. CASE i = Len(c) + 1
    <3>1. n + 1 \in 1 .. n + 1 /\ g[2 * (n + 1) + 1].pos = i - 1
      BY <1>2, <1>5, <1>6, <2>1
    <3> QED
      BY <3>1
  <2>2. CASE i # Len(c) + 1
    <3>1. i \in 1 .. Len(c) /\ IsHour(c, i)
      BY <1>2, <1>10, <2>2 DEF IsHour
    <3>2. PICK k \in 1 .. n : e[2 * k + 1].pos = i - 1
      BY <3>1 DEF Indexes
    <3> QED
      BY <1>7, <3>2
  <2> QED
    BY <2>1, <2>2
<1>11. Indexes(g, n + 1, x)
  BY <1>6, <1>8, <1>9, <1>10 DEF Indexes
<1> QED
  BY <1>11 DEF g, f, x

(* An hour goes behind the header or an end mark, other cells elsewhere.     *)
LEMMA PlacedGrows ==
  ASSUME NEW c \in Seq(Cell), Len(c) > 0, HoursPlaced(c), NEW cell \in Cell,
         cell.kind = "hour" <=> c[Len(c)].kind \in {"header", "endline"}
  PROVE  HoursPlaced(Append(c, cell))
<1> DEFINE x == Append(c, cell)
<1>1. /\ Len(x) = Len(c) + 1 /\ Len(c) \in Nat /\ x[Len(c) + 1] = cell
      /\ \A i \in 1 .. Len(c) : x[i] = c[i]
  BY Appended
<1> HIDE DEF x
<1>2. ASSUME NEW i \in 2 .. Len(x) PROVE IsHour(x, i) <=> x[i - 1].kind \in {"header", "endline"}
  <2>1. i - 1 \in 1 .. Len(c) /\ x[i - 1] = c[i - 1]
    BY <1>1
  <2>2. CASE i = Len(c) + 1
    BY <1>1, <2>1, <2>2 DEF IsHour
  <2>3. CASE i # Len(c) + 1
    <3>1. i \in 2 .. Len(c) /\ x[i] = c[i]
      BY <1>1, <2>3
    <3> QED
      BY <2>1, <3>1 DEF HoursPlaced, IsHour
  <2> QED
    BY <2>2, <2>3
<1> QED
  BY <1>2 DEF HoursPlaced, x

LEMMA PlacedValues ==
  ASSUME NEW c \in Seq(Cell), Len(c) > 0, HoursPlaced(c), c[Len(c)].kind \in {"hour", "value"},
         NEW d \in Seq(Cell), \A i \in 1 .. Len(d) : d[i].kind = "value"
  PROVE  HoursPlaced(c \o d)
<1> DEFINE x == c \o d
<1>1. /\ Len(x) = Len(c) + Len(d) /\ Len(c) \in Nat /\ Len(d) \in Nat
      /\ \A i \in 1 .. Len(c) : x[i] = c[i]
      /\ \A i \in Len(c) + 1 .. Len(c) + Len(d) : x[i] = d[i - Len(c)]
  BY Joined
<1> HIDE DEF x
<1>2. ASSUME NEW i \in Len(c) + 1 .. Len(c) + Len(d) PROVE x[i].kind = "value"
  <2>1. i - Len(c) \in 1 .. Len(d)
    BY <1>1
  <2> QED
    BY <1>1, <2>1
<1>3. ASSUME NEW i \in 2 .. Len(x) PROVE IsHour(x, i) <=> x[i - 1].kind \in {"header", "endline"}
  <2>1. CASE i \in 2 .. Len(c)
    <3>1. x[i] = c[i] /\ x[i - 1] = c[i - 1]
      <4>1. i \in 1 .. Len(c) /\ i - 1 \in 1 .. Len(c)
        BY <1>1, <2>1
      <4> QED
        BY <1>1, <4>1
    <3> QED
      BY <2>1, <3>1 DEF HoursPlaced, IsHour
  <2>2. CASE i \notin 2 .. Len(c)
    <3>1. i \in Len(c) + 1 .. Len(c) + Len(d)
      BY <1>1, <2>2
    <3>2. x[i - 1].kind \in {"hour", "value"}
      <4>1. i - 1 = Len(c) \/ i - 1 \in Len(c) + 1 .. Len(c) + Len(d)
        BY <1>1, <3>1
      <4>2. Len(c) \in 1 .. Len(c)
        BY <1>1
      <4> QED
        BY <1>1, <1>2, <4>1, <4>2
    <3> QED
      BY <1>2, <3>1, <3>2 DEF IsHour
  <2> QED
    BY <2>1, <2>2
<1> QED
  BY <1>3 DEF HoursPlaced, x

(* The values of a log are numbered from 1 to v, in order.                   *)
Numbered(c, v) ==
  /\ \A i \in 1 .. Len(c) : IsValue(c, i) => c[i].value \in 1 .. v
  /\ \A u \in 1 .. v : \E i \in 1 .. Len(c) : IsValue(c, i) /\ c[i].value = u
  /\ \A i, j \in 1 .. Len(c) :
       IsValue(c, i) /\ IsValue(c, j) => (i < j <=> c[i].value < c[j].value)

LEMMA NumberedStays ==
  ASSUME NEW c \in Seq(Cell), NEW v \in Nat, Numbered(c, v), NEW cell \in Cell, cell.kind # "value"
  PROVE  Numbered(Append(c, cell), v)
<1> DEFINE x == Append(c, cell)
<1>1. /\ Len(x) = Len(c) + 1 /\ Len(c) \in Nat /\ x[Len(c) + 1] = cell
      /\ \A i \in 1 .. Len(c) : x[i] = c[i]
  BY Appended
<1> HIDE DEF x
<1>2. ASSUME NEW i \in 1 .. Len(x), IsValue(x, i) PROVE i \in 1 .. Len(c) /\ IsValue(c, i) /\ x[i] = c[i]
  BY <1>1, <1>2 DEF IsValue
<1>3. ASSUME NEW u \in 1 .. v PROVE \E i \in 1 .. Len(x) : IsValue(x, i) /\ x[i].value = u
  <2>1. PICK i \in 1 .. Len(c) : IsValue(c, i) /\ c[i].value = u
    BY DEF Numbered
  <2>2. i \in 1 .. Len(x) /\ x[i] = c[i]
    BY <1>1
  <2> QED
    BY <2>1, <2>2 DEF IsValue
<1>4. ASSUME NEW i \in 1 .. Len(x), NEW j \in 1 .. Len(x), IsValue(x, i), IsValue(x, j)
      PROVE  i < j <=> x[i].value < x[j].value
  BY <1>2, <1>4 DEF Numbered
<1>5. \A i \in 1 .. Len(x) : IsValue(x, i) => x[i].value \in 1 .. v
  BY <1>2 DEF Numbered
<1> QED
  BY <1>3, <1>4, <1>5 DEF Numbered, x

LEMMA NumberedGrows ==
  ASSUME NEW c \in Seq(Cell), NEW v \in Nat, Numbered(c, v), NEW d \in Seq(Cell),
         \A i \in 1 .. Len(d) : d[i].kind = "value" /\ d[i].value = v + i
  PROVE  Numbered(c \o d, v + Len(d))
<1> DEFINE x == c \o d
<1>1. /\ Len(x) = Len(c) + Len(d) /\ Len(c) \in Nat /\ Len(d) \in Nat
      /\ \A i \in 1 .. Len(c) : x[i] = c[i]
      /\ \A i \in Len(c) + 1 .. Len(c) + Len(d) : x[i] = d[i - Len(c)]
  BY Joined
<1> HIDE DEF x
<1>2. ASSUME NEW i \in Len(c) + 1 .. Len(c) + Len(d)
      PROVE  IsValue(x, i) /\ x[i].value = v + i - Len(c)
  <2>1. i - Len(c) \in 1 .. Len(d)
    BY <1>1
  <2> QED
    BY <1>1, <2>1 DEF IsValue
<1>3. ASSUME NEW i \in 1 .. Len(c), IsValue(x, i)
      PROVE  IsValue(c, i) /\ x[i] = c[i] /\ x[i].value \in 1 .. v
  BY <1>1, <1>3 DEF IsValue, Numbered
<1>4. \A i \in 1 .. Len(x) : i \in 1 .. Len(c) \/ i \in Len(c) + 1 .. Len(c) + Len(d)
  BY <1>1
<1>5. ASSUME NEW i \in 1 .. Len(x), IsValue(x, i) PROVE x[i].value \in 1 .. v + Len(d)
  BY <1>1, <1>2, <1>3, <1>4, <1>5
<1>6. ASSUME NEW u \in 1 .. v + Len(d) PROVE \E i \in 1 .. Len(x) : IsValue(x, i) /\ x[i].value = u
  <2>1. CASE u \in 1 .. v
    <3>1. PICK i \in 1 .. Len(c) : IsValue(c, i) /\ c[i].value = u
      BY <2>1 DEF Numbered
    <3>2. i \in 1 .. Len(x) /\ x[i] = c[i]
      BY <1>1
    <3> QED
      BY <3>1, <3>2 DEF IsValue
  <2>2. CASE u \notin 1 .. v
    <3> DEFINE i == Len(c) + u - v
    <3>1. i \in Len(c) + 1 .. Len(c) + Len(d) /\ i \in 1 .. Len(x) /\ v + i - Len(c) = u
      BY <1>1, <2>2
    <3> HIDE DEF i
    <3> QED
      BY <1>2, <3>1
  <2> QED
    BY <2>1, <2>2
<1>7. ASSUME NEW i \in 1 .. Len(x), NEW j \in 1 .. Len(x), IsValue(x, i), IsValue(x, j)
      PROVE  i < j <=> x[i].value < x[j].value
  <2>1. CASE i \in 1 .. Len(c) /\ j \in 1 .. Len(c)
    BY <1>3, <1>7, <2>1 DEF Numbered
  <2>2. CASE i \in 1 .. Len(c) /\ j \notin 1 .. Len(c)
    <3>1. x[i].value \in 1 .. v /\ j \in Len(c) + 1 .. Len(c) + Len(d) /\ x[j].value = v + j - Len(c)
      BY <1>2, <1>3, <1>4, <1>7, <2>2
    <3> QED
      BY <1>1, <2>2, <3>1
  <2>3. CASE i \notin 1 .. Len(c) /\ j \in 1 .. Len(c)
    <3>1. x[j].value \in 1 .. v /\ i \in Len(c) + 1 .. Len(c) + Len(d) /\ x[i].value = v + i - Len(c)
      BY <1>2, <1>3, <1>4, <1>7, <2>3
    <3> QED
      BY <1>1, <2>3, <3>1
  <2>4. CASE i \notin 1 .. Len(c) /\ j \notin 1 .. Len(c)
    <3>1. x[i].value = v + i - Len(c) /\ x[j].value = v + j - Len(c)
      BY <1>2, <1>4, <2>4
    <3> QED
      BY <1>1, <3>1
  <2> QED
    BY <2>1, <2>2, <2>3, <2>4
<1> QED
  BY <1>5, <1>6, <1>7 DEF Numbered, x

-----------------------------------------------------------------------------
(* The files at the start.                                                   *)

LEMMA Retyped ==
  ASSUME NEW S, NEW T, NEW s \in Seq(S), \A i \in 1 .. Len(s) : s[i] \in T
  PROVE  s \in Seq(T)
  OBVIOUS

LEMMA BlockFacts ==
  ASSUME NEW blocks \in Starts, NEW b \in 1 .. Len(blocks)
  PROVE  /\ blocks \in Seq(Seq(Nat)) /\ Len(blocks) \in Nat
         /\ blocks[b] \in Seq(Nat) /\ Len(blocks[b]) \in Nat \ {0}
         /\ BlockHour(blocks[b]) \in Nat \ {0}
         /\ \A v \in 1 .. Len(blocks[b]) :
              /\ blocks[b][v] \in HourSecs .. StartTime
              /\ OffsetIn(BlockHour(blocks[b]), blocks[b][v]) \in 0 .. HourSecs - 1
<1> DEFINE Times == HourSecs .. StartTime
           block == blocks[b]
           hour  == BlockHour(block)
<1>1. blocks \in Seq(Seq(Times) \ {<<>>}) /\ HourSecs \in Nat \ {0} /\ StartTime \in Nat
  BY StartsAssumption, HourSecsAssumption, SharedAssumption
<1>2. Times \subseteq Nat
  BY <1>1
<1> HIDE DEF Times
<1>3. blocks \in Seq(Seq(Nat)) /\ Len(blocks) \in Nat
  <2>1. Len(blocks) \in Nat /\ \A i \in 1 .. Len(blocks) : blocks[i] \in Seq(Times)
    BY <1>1
  <2>2. ASSUME NEW i \in 1 .. Len(blocks) PROVE blocks[i] \in Seq(Nat)
    <3>1. blocks[i] \in Seq(Times)
      BY <2>1
    <3>2. ASSUME NEW v \in 1 .. Len(blocks[i]) PROVE blocks[i][v] \in Nat
      <4>1. blocks[i][v] \in Times
        BY <3>1
      <4> QED
        BY <1>2, <4>1
    <3> QED
      BY <3>1, <3>2, Retyped
  <2>3. blocks \in Seq(Seq(Times) \ {<<>>})
    BY <1>1
  <2> HIDE DEF Times
  <2> QED
    BY <2>1, <2>2, <2>3, Retyped
<1>4. block \in Seq(Times) /\ block # <<>>
  BY <1>1
<1>5. \A time \in ToSet(block) : FromTimeT(time) = FromTimeT(Head(block))
  BY StartsAssumption
<1> HIDE DEF block
<1>6. block \in Seq(Nat) /\ Len(block) \in Nat \ {0} /\ Head(block) = block[1]
  <2>1. block \in Seq(Nat)
    BY <1>3 DEF block
  <2> QED
    BY <1>4, <2>1
<1>7. ASSUME NEW v \in 1 .. Len(block)
      PROVE  block[v] \in Times /\ FromTimeT(block[v]) = hour
  <2>1. block[v] \in ToSet(block)
    BY <1>4 DEF ToSet
  <2> QED
    BY <1>4, <1>5, <2>1 DEF BlockHour
<1>8. ASSUME NEW time \in Times
      PROVE  /\ time \in HourSecs .. StartTime /\ FromTimeT(time) \in Nat \ {0}
             /\ OffsetIn(FromTimeT(time), time) \in 0 .. HourSecs - 1
  <2>1. time \in Nat /\ time >= HourSecs
    BY <1>1 DEF Times
  <2>2. time \in HourSecs .. StartTime
    BY DEF Times
  <2>3. FromTimeT(time) \in Nat \ {0}
    BY <1>1, <2>1, HourOfTime
  <2>4. OffsetIn(FromTimeT(time), time) \in 0 .. HourSecs - 1
    <3> DEFINE h == FromTimeT(time)
    <3>1. /\ ToTimeT(h, 0) \in Nat /\ time < ToTimeT(h, 0) + HourSecs
          /\ OffsetIn(h, time) \in Nat
      BY <2>1, HourOfTime
    <3>2. OffsetIn(h, time) = time - ToTimeT(h, 0)
      BY DEF OffsetIn
    <3> HIDE DEF h
    <3>3. OffsetIn(h, time) \in 0 .. HourSecs - 1
      BY <1>1, <2>1, <3>1, <3>2
    <3> QED
      BY <3>3 DEF h
  <2> QED
    BY <2>2, <2>3, <2>4
<1>9. hour \in Nat \ {0}
  <2>1. 1 \in 1 .. Len(block)
    BY <1>6
  <2> QED
    BY <1>7, <1>8, <2>1
<1>10. \A v \in 1 .. Len(block) : /\ block[v] \in HourSecs .. StartTime
                                 /\ OffsetIn(hour, block[v]) \in 0 .. HourSecs - 1
  BY <1>7, <1>8
<1> QED
  BY <1>3, <1>6, <1>9, <1>10 DEF block

BlockValues(blocks, b) ==
  [v \in 1 .. Len(blocks[b]) |-> ValueCell(OffsetIn(BlockHour(blocks[b]), blocks[b][v]),
                                           ValuesBefore(blocks, b) + v)]

LEMMA ValuesCount ==
  ASSUME NEW blocks \in Starts
  PROVE  /\ ValuesBefore(blocks, 1) = 0
         /\ \A b \in 1 .. Len(blocks) :
              /\ ValuesBefore(blocks, b) \in Nat
              /\ ValuesBefore(blocks, b + 1) = ValuesBefore(blocks, b) + Len(blocks[b])
         /\ ValuesBefore(blocks, Len(blocks) + 1) = Len(FlattenSeq(blocks))
<1>1. blocks \in Seq(Seq(Nat)) /\ Len(blocks) \in Nat
  <2>1. blocks \in Seq(Seq(HourSecs .. StartTime) \ {<<>>})
    BY StartsAssumption
  <2>2. Len(blocks) \in Nat
    BY <2>1
  <2>3. CASE Len(blocks) = 0
    BY <2>1, <2>3
  <2>4. CASE Len(blocks) # 0
    BY <2>2, <2>4, BlockFacts
  <2> QED
    BY <2>2, <2>3, <2>4
<1> DEFINE Flat(n) == FlattenSeq(SubSeq(blocks, 1, n))
<1>2. /\ Flat(0) = <<>> /\ FlattenSeq(blocks) = Flat(Len(blocks))
      /\ \A n \in 0 .. Len(blocks) : Flat(n) \in Seq(Nat)
  BY <1>1, FlattenFacts
<1>3. \A n \in 1 .. Len(blocks) : Flat(n) = Flat(n - 1) \o blocks[n]
  BY <1>1, FlattenStep
<1>4. \A n \in Nat : ValuesBefore(blocks, n + 1) = Len(Flat(n))
  <2>1. \A n \in Nat : n + 1 - 1 = n
    OBVIOUS
  <2> QED
    BY <2>1 DEF ValuesBefore
<1>5. \A n \in 1 .. Len(blocks) : ValuesBefore(blocks, n) = Len(Flat(n - 1))
  BY DEF ValuesBefore
<1> HIDE DEF Flat
<1>6. ValuesBefore(blocks, 1) = 0
  <2>1. ValuesBefore(blocks, 0 + 1) = Len(Flat(0))
    BY <1>4
  <2> QED
    BY <1>2, <2>1
<1>7. ASSUME NEW b \in 1 .. Len(blocks)
      PROVE  /\ ValuesBefore(blocks, b) \in Nat
             /\ ValuesBefore(blocks, b + 1) = ValuesBefore(blocks, b) + Len(blocks[b])
  <2>1. b \in Nat /\ b - 1 \in 0 .. Len(blocks) /\ blocks[b] \in Seq(Nat)
    BY <1>1
  <2>2. ASSUME NEW u \in Seq(Nat), NEW w \in Seq(Nat) PROVE Len(u \o w) = Len(u) + Len(w) /\ Len(u) \in Nat
    OBVIOUS
  <2> QED
    BY ZenonT(60), <1>2, <1>3, <1>4, <1>5, <2>1, <2>2
<1> QED
  BY <1>1, <1>2, <1>4, <1>6, <1>7

LEMMA ValuesLaid ==
  ASSUME NEW blocks \in Starts, NEW b \in 1 .. Len(blocks)
  PROVE  /\ BlockValues(blocks, b) \in Seq(Cell)
         /\ Len(BlockValues(blocks, b)) = Len(blocks[b]) /\ Len(blocks[b]) \in Nat \ {0}
         /\ \A v \in 1 .. Len(blocks[b]) :
              /\ BlockValues(blocks, b)[v].kind = "value"
              /\ BlockValues(blocks, b)[v].value = ValuesBefore(blocks, b) + v
<1> DEFINE N == Len(blocks[b])
           Made(v) == ValueCell(OffsetIn(BlockHour(blocks[b]), blocks[b][v]),
                                ValuesBefore(blocks, b) + v)
           d == [v \in 1 .. N |-> Made(v)]
<1>1. N \in Nat \ {0}
  BY BlockFacts
<1>2. ASSUME NEW v \in 1 .. N
      PROVE  /\ Made(v) \in Cell /\ Made(v).kind = "value"
             /\ Made(v).value = ValuesBefore(blocks, b) + v
  <2>1. OffsetIn(BlockHour(blocks[b]), blocks[b][v]) \in 0 .. HourSecs - 1
    BY BlockFacts
  <2>2. ValuesBefore(blocks, b) \in Nat
    BY ValuesCount
  <2>3. OffsetIn(BlockHour(blocks[b]), blocks[b][v]) \in Nat /\ ValuesBefore(blocks, b) + v \in Nat
    BY <1>1, <2>1, <2>2, HourSecsAssumption
  <2> QED
    BY <2>3, CellsWritten
<1> HIDE DEF N, Made
<1>3. d \in Seq(Cell) /\ Len(d) = N /\ \A v \in 1 .. N : d[v] = Made(v)
  BY <1>1, <1>2
<1>4. BlockValues(blocks, b) = d
  BY DEF BlockValues, Made, N
<1> HIDE DEF d
<1> QED
  BY <1>1, <1>2, <1>3, <1>4 DEF N

LEMMA CellMoved ==
  ASSUME NEW C, NEW c \in Seq(C), NEW x \in C, NEW d \in Seq(C)
  PROVE  c \o (<<x>> \o d) = Append(c, x) \o d
  OBVIOUS

LEMMA Regrouped ==
  ASSUME NEW C, NEW c \in Seq(C), NEW x \in C, NEW y \in C, NEW d \in Seq(C)
  PROVE  /\ c \o (<<>> \o <<x>> \o d) = Append(c, x) \o d
         /\ c \o (<<x>> \o <<y>> \o d) = Append(Append(c, x), y) \o d
         /\ c \o <<x, y>> = Append(Append(c, x), y)
<1> DEFINE t == <<y>> \o d
<1>1. <<>> \o <<x>> = <<x>> /\ Append(c, x) \in Seq(C) /\ t \in Seq(C)
  OBVIOUS
<1>2. (<<x>> \o <<y>>) \o d = <<x>> \o t
  OBVIOUS
<1>3. Append(c, x) \o t = Append(Append(c, x), y) \o d
  BY <1>1, CellMoved
<1> HIDE DEF t
<1>4. c \o (<<x>> \o t) = Append(c, x) \o t
  BY <1>1, CellMoved
<1>5. c \o (<<x>> \o d) = Append(c, x) \o d
  BY CellMoved
<1>6. c \o <<x, y>> = Append(Append(c, x), y)
  OBVIOUS
<1> QED
  BY <1>1, <1>2, <1>3, <1>4, <1>5, <1>6

(* The data file after each block: the cells of the blocks before, an end    *)
(* mark behind the first, the hour, the values.                              *)
BeforeBlock(blocks, b) ==
  IF b = 1 THEN DataCells(blocks, b - 1) ELSE Append(DataCells(blocks, b - 1), EndLine)

LEMMA BlockTyped ==
  ASSUME NEW blocks \in Starts, NEW b \in 1 .. Len(blocks)
  PROVE  /\ BlockCells(blocks, b) \in Seq(Cell)
         /\ \A c \in Seq(Cell) :
              c \o BlockCells(blocks, b) =
                Append(IF b = 1 THEN c ELSE Append(c, EndLine), HourCell(BlockHour(blocks[b])))
                  \o BlockValues(blocks, b)
<1> DEFINE d == BlockValues(blocks, b)
           h == HourCell(BlockHour(blocks[b]))
<1>1. d \in Seq(Cell) /\ h \in Cell /\ EndLine \in Cell
  BY ValuesLaid, BlockFacts, CellsWritten
<1>2. BlockCells(blocks, b) = (IF b = 1 THEN <<>> ELSE <<EndLine>>) \o <<h>> \o d
  BY DEF BlockCells, BlockValues
<1> HIDE DEF d, h
<1>3. <<>> \o <<h>> \o d \in Seq(Cell) /\ <<EndLine>> \o <<h>> \o d \in Seq(Cell)
  <2>1. <<>> \o <<h>> \in Seq(Cell) /\ <<EndLine>> \o <<h>> \in Seq(Cell)
    BY <1>1
  <2> QED
    BY <1>1, <2>1
<1>4. BlockCells(blocks, b) \in Seq(Cell)
  BY <1>2, <1>3
<1>5. ASSUME NEW c \in Seq(Cell)
      PROVE  c \o BlockCells(blocks, b) = Append(IF b = 1 THEN c ELSE Append(c, EndLine), h) \o d
  <2>1. CASE b = 1
    <3>1. c \o (<<>> \o <<h>> \o d) = Append(c, h) \o d
      BY <1>1, Regrouped
    <3> QED
      BY <1>2, <2>1, <3>1
  <2>2. CASE b # 1
    <3>1. c \o (<<EndLine>> \o <<h>> \o d) = Append(Append(c, EndLine), h) \o d
      BY <1>1, Regrouped
    <3> QED
      BY <1>2, <2>2, <3>1
  <2> QED
    BY <2>1, <2>2
<1> QED
  BY <1>4, <1>5 DEF d, h

LEMMA DataGrows ==
  ASSUME NEW blocks \in Starts
  PROVE  /\ DataCells(blocks, 0) = <<HeaderCell("Float")>>
         /\ \A n \in 0 .. Len(blocks) : DataCells(blocks, n) \in Seq(Cell)
         /\ \A n \in 1 .. Len(blocks) :
              DataCells(blocks, n) =
                Append(BeforeBlock(blocks, n), HourCell(BlockHour(blocks[n])))
                  \o BlockValues(blocks, n)
<1> DEFINE N    == Len(blocks)
           t    == [b \in 1 .. N |-> BlockCells(blocks, b)]
           L(n) == FlattenSeq(SubSeq(t, 1, n))
           hd   == <<HeaderCell("Float")>>
<1>1. N \in Nat
  BY StartsAssumption
<1>2. \A b \in 1 .. N : BlockCells(blocks, b) \in Seq(Cell)
  BY BlockTyped
<1> HIDE DEF N
<1>3. t \in Seq(Seq(Cell)) /\ Len(t) = N /\ \A b \in 1 .. N : t[b] = BlockCells(blocks, b)
  BY <1>1, <1>2
<1>4. ASSUME NEW n \in 0 .. N
      PROVE  [b \in 1 .. n |-> BlockCells(blocks, b)] = SubSeq(t, 1, n)
  <2> DEFINE s == SubSeq(t, 1, n)
  <2>1. s \in Seq(Seq(Cell)) /\ Len(s) = n /\ \A i \in 1 .. n : s[i] = t[i]
    BY ZenonT(60), <1>3, Prefix
  <2>2. \A b \in 1 .. n : t[b] = BlockCells(blocks, b)
    BY <1>1, <1>3
  <2> HIDE DEF s, t
  <2>3. s = [b \in 1 .. n |-> s[b]]
    BY <2>1
  <2> QED
    BY <2>1, <2>2, <2>3 DEF s
<1> HIDE DEF t
<1>5. /\ L(0) = <<>> /\ \A n \in 0 .. N : L(n) \in Seq(Cell)
      /\ \A n \in 1 .. N : L(n) = L(n - 1) \o BlockCells(blocks, n)
  <2>1. L(0) = <<>> /\ \A n \in 0 .. N : L(n) \in Seq(Cell)
    BY <1>3, FlattenFacts
  <2>2. ASSUME NEW n \in 1 .. N PROVE L(n) = L(n - 1) \o t[n]
    BY <1>3, FlattenStep
  <2>3. \A n \in 1 .. N : t[n] = BlockCells(blocks, n)
    BY <1>3
  <2> HIDE DEF L
  <2> QED
    BY <2>1, <2>2, <2>3
<1>6. \A n \in 0 .. N : DataCells(blocks, n) = hd \o L(n)
  BY <1>4 DEF DataCells
<1> HIDE DEF L
<1>7. hd \in Seq(Cell)
  BY CellsWritten
<1>8. DataCells(blocks, 0) = hd
  <2>1. hd \o <<>> = hd
    BY <1>7
  <2>2. 0 \in 0 .. N
    BY <1>1
  <2> QED
    BY <1>5, <1>6, <2>1, <2>2
<1>9. \A n \in 0 .. N : DataCells(blocks, n) \in Seq(Cell)
  <2> SUFFICES ASSUME NEW n \in 0 .. N PROVE DataCells(blocks, n) \in Seq(Cell)
    OBVIOUS
  <2>1. L(n) \in Seq(Cell) /\ DataCells(blocks, n) = hd \o L(n)
    BY <1>5, <1>6
  <2> HIDE DEF hd
  <2> QED
    BY <1>7, <2>1
<1>10. ASSUME NEW n \in 1 .. N
       PROVE  DataCells(blocks, n) = Append(BeforeBlock(blocks, n), HourCell(BlockHour(blocks[n])))
                                       \o BlockValues(blocks, n)
  <2>1. n - 1 \in 0 .. N /\ n \in 0 .. N
    BY <1>1
  <2>2. ASSUME NEW u \in Seq(Cell), NEW v \in Seq(Cell), NEW w \in Seq(Cell)
        PROVE  u \o (v \o w) = (u \o v) \o w
    OBVIOUS
  <2>3. BlockCells(blocks, n) \in Seq(Cell) /\ L(n - 1) \in Seq(Cell)
    BY <1>2, <1>5, <2>1
  <2> HIDE DEF hd
  <2>4. DataCells(blocks, n) = DataCells(blocks, n - 1) \o BlockCells(blocks, n)
    <3>1. DataCells(blocks, n) = hd \o L(n) /\ DataCells(blocks, n - 1) = hd \o L(n - 1)
      BY <1>6, <2>1
    <3>2. L(n) = L(n - 1) \o BlockCells(blocks, n)
      BY <1>5
    <3>3. hd \o (L(n - 1) \o BlockCells(blocks, n)) = (hd \o L(n - 1)) \o BlockCells(blocks, n)
      BY <1>7, <2>2, <2>3
    <3> QED
      BY <3>1, <3>2, <3>3
  <2>5. DataCells(blocks, n - 1) \in Seq(Cell)
    BY <1>9, <2>1
  <2> QED
    BY <2>4, <2>5, BlockTyped DEF BeforeBlock, N
<1> QED
  BY <1>8, <1>9, <1>10 DEF N

(* The entries of the first blocks.                                          *)
IndexFront(blocks, n) ==
  <<HeaderCell("Float")>>
    \o FlattenSeq([b \in 1 .. n |->
                     <<HourCell(BlockHour(blocks[b])), PositionCell(BlockPos(blocks, b))>>])

LEMMA BlockPosIs ==
  ASSUME NEW blocks \in Starts, NEW b \in 1 .. Len(blocks)
  PROVE  /\ BeforeBlock(blocks, b) \in Seq(Cell) /\ BlockPos(blocks, b) \in Nat
         /\ BlockPos(blocks, b) = Len(BeforeBlock(blocks, b))
<1> DEFINE c == DataCells(blocks, b - 1)
<1>1. c \in Seq(Cell)
  <2>1. b - 1 \in 0 .. Len(blocks)
    BY BlockFacts
  <2> QED
    BY <2>1, DataGrows
<1>2. EndLine \in Cell
  BY CellsWritten
<1>3. /\ BeforeBlock(blocks, b) = IF b = 1 THEN c ELSE Append(c, EndLine)
      /\ BlockPos(blocks, b) = Len(c) + IF b = 1 THEN 0 ELSE 1
  BY DEF BeforeBlock, BlockPos
<1> HIDE DEF c
<1>4. Append(c, EndLine) \in Seq(Cell) /\ Len(Append(c, EndLine)) = Len(c) + 1 /\ Len(c) \in Nat
  BY <1>1, <1>2
<1> QED
  BY <1>1, <1>3, <1>4

LEMMA IndexGrows ==
  ASSUME NEW blocks \in Starts
  PROVE  /\ IndexFront(blocks, 0) = <<HeaderCell("Float")>>
         /\ IndexCells(blocks) = IndexFront(blocks, Len(blocks))
         /\ \A n \in 0 .. Len(blocks) : IndexFront(blocks, n) \in Seq(IndexCell)
         /\ \A n \in 1 .. Len(blocks) :
              IndexFront(blocks, n) =
                Append(Append(IndexFront(blocks, n - 1), HourCell(BlockHour(blocks[n]))),
                       PositionCell(BlockPos(blocks, n)))
<1> DEFINE N    == Len(blocks)
           E(b) == <<HourCell(BlockHour(blocks[b])), PositionCell(BlockPos(blocks, b))>>
           t    == [b \in 1 .. N |-> E(b)]
           L(n) == FlattenSeq(SubSeq(t, 1, n))
           hd   == <<HeaderCell("Float")>>
<1>1. N \in Nat
  BY StartsAssumption
<1>2. ASSUME NEW b \in 1 .. N
      PROVE  /\ HourCell(BlockHour(blocks[b])) \in IndexCell
             /\ PositionCell(BlockPos(blocks, b)) \in IndexCell /\ E(b) \in Seq(IndexCell)
  <2>1. HourCell(BlockHour(blocks[b])) \in IndexCell
    BY BlockFacts, CellsWritten DEF IndexCell
  <2>2. PositionCell(BlockPos(blocks, b)) \in IndexCell
    BY BlockPosIs DEF IndexCell, PositionCell
  <2> QED
    BY <2>1, <2>2
<1>3. IndexFront(blocks, N) = IndexCells(blocks)
  BY DEF IndexFront, IndexCells
<1>4. \A n : IndexFront(blocks, n) = hd \o FlattenSeq([b \in 1 .. n |-> E(b)])
  BY DEF IndexFront
<1> HIDE DEF N
<1>5. t \in Seq(Seq(IndexCell)) /\ Len(t) = N /\ \A b \in 1 .. N : t[b] = E(b)
  <2> HIDE DEF E
  <2> QED
    BY <1>1, <1>2
<1>6. ASSUME NEW n \in 0 .. N
      PROVE  [b \in 1 .. n |-> E(b)] = SubSeq(t, 1, n)
  <2> DEFINE s == SubSeq(t, 1, n)
  <2>1. s \in Seq(Seq(IndexCell)) /\ Len(s) = n /\ \A i \in 1 .. n : s[i] = t[i]
    BY ZenonT(60), <1>5, Prefix
  <2>2. \A b \in 1 .. n : t[b] = E(b)
    BY <1>1, <1>5
  <2> HIDE DEF s, t, E
  <2>3. s = [b \in 1 .. n |-> s[b]]
    BY <2>1
  <2> QED
    BY <2>1, <2>2, <2>3 DEF s
<1> HIDE DEF t
<1>7. /\ L(0) = <<>> /\ \A n \in 0 .. N : L(n) \in Seq(IndexCell)
      /\ \A n \in 1 .. N : L(n) = L(n - 1) \o E(n)
  <2> HIDE DEF E
  <2>1. L(0) = <<>> /\ \A n \in 0 .. N : L(n) \in Seq(IndexCell)
    BY <1>5, FlattenFacts
  <2>2. ASSUME NEW n \in 1 .. N PROVE L(n) = L(n - 1) \o t[n]
    BY <1>5, FlattenStep
  <2> HIDE DEF L
  <2> QED
    BY <1>5, <2>1, <2>2
<1>8. \A n \in 0 .. N : IndexFront(blocks, n) = hd \o L(n)
  BY <1>4, <1>6
<1> HIDE DEF L
<1>9. hd \in Seq(IndexCell)
  BY CellsWritten DEF IndexCell
<1>10. IndexFront(blocks, 0) = hd
  <2>1. hd \o <<>> = hd /\ 0 \in 0 .. N
    BY <1>1, <1>9
  <2> QED
    BY <1>7, <1>8, <2>1
<1>11. \A n \in 0 .. N : IndexFront(blocks, n) \in Seq(IndexCell)
  <2> SUFFICES ASSUME NEW n \in 0 .. N PROVE IndexFront(blocks, n) \in Seq(IndexCell)
    OBVIOUS
  <2>1. L(n) \in Seq(IndexCell) /\ IndexFront(blocks, n) = hd \o L(n)
    BY <1>7, <1>8
  <2> HIDE DEF hd
  <2> QED
    BY <1>9, <2>1
<1>12. ASSUME NEW n \in 1 .. N
       PROVE  IndexFront(blocks, n) =
                Append(Append(IndexFront(blocks, n - 1), HourCell(BlockHour(blocks[n]))),
                       PositionCell(BlockPos(blocks, n)))
  <2>1. n - 1 \in 0 .. N /\ n \in 0 .. N
    BY <1>1
  <2>2. ASSUME NEW u \in Seq(IndexCell), NEW v \in Seq(IndexCell), NEW w \in Seq(IndexCell)
        PROVE  u \o (v \o w) = (u \o v) \o w
    OBVIOUS
  <2>3. E(n) \in Seq(IndexCell) /\ L(n - 1) \in Seq(IndexCell)
    BY <1>2, <1>7, <2>1
  <2>4. IndexFront(blocks, n) = IndexFront(blocks, n - 1) \o E(n)
    <3> HIDE DEF hd, E
    <3>1. IndexFront(blocks, n) = hd \o L(n) /\ IndexFront(blocks, n - 1) = hd \o L(n - 1)
      BY <1>8, <2>1
    <3>2. L(n) = L(n - 1) \o E(n)
      BY <1>7
    <3>3. hd \o (L(n - 1) \o E(n)) = (hd \o L(n - 1)) \o E(n)
      BY <1>9, <2>2, <2>3
    <3> QED
      BY <3>1, <3>2, <3>3
  <2>5. IndexFront(blocks, n - 1) \in Seq(IndexCell)
    BY <1>11, <2>1
  <2> QED
    BY <1>2, <2>4, <2>5, Regrouped
<1> QED
  BY <1>3, <1>10, <1>11, <1>12 DEF N

(* What the files hold after n blocks.                                       *)
Started(blocks, n) ==
  LET c == DataCells(blocks, n)
  IN  /\ Len(c) > 0 /\ HoursPlaced(c)
      /\ c[Len(c)].kind = IF n = 0 THEN "header" ELSE "value"
      /\ Numbered(c, ValuesBefore(blocks, n + 1))
      /\ Indexes(IndexFront(blocks, n), n, c)

LEMMA HeaderStarted == ASSUME NEW blocks \in Starts PROVE Started(blocks, 0)
<1> DEFINE h == HeaderCell("Float")
           c == <<h>>
<1>1. DataCells(blocks, 0) = c /\ IndexFront(blocks, 0) = c /\ h.kind = "header"
  BY DataGrows, IndexGrows, CellsWritten
<1>2. ValuesBefore(blocks, 0 + 1) = 0
  BY ValuesCount
<1> HIDE DEF h
<1>3. Len(c) = 1 /\ c[1] = h
  OBVIOUS
<1> HIDE DEF c
<1>4. HoursPlaced(c)
  BY <1>3 DEF HoursPlaced
<1>5. Numbered(c, 0)
  BY <1>1, <1>3 DEF Numbered, IsValue
<1>6. Indexes(c, 0, c)
  BY <1>1, <1>3 DEF Indexes, IsHour
<1> QED
  BY <1>1, <1>2, <1>3, <1>4, <1>5, <1>6 DEF Started

LEMMA BlockStarted ==
  ASSUME NEW blocks \in Starts, NEW n \in 1 .. Len(blocks), Started(blocks, n - 1)
  PROVE  Started(blocks, n)
<1> DEFINE c0   == DataCells(blocks, n - 1)
           c1   == BeforeBlock(blocks, n)
           hour == BlockHour(blocks[n])
           c2   == Append(c1, HourCell(hour))
           d    == BlockValues(blocks, n)
           c3   == c2 \o d
           v    == ValuesBefore(blocks, n)
           e0   == IndexFront(blocks, n - 1)
           e2   == Append(Append(e0, HourCell(hour)), PositionCell(Len(c1)))
<1>1. n \in Nat \ {0} /\ n - 1 \in 0 .. Len(blocks) /\ n - 1 + 1 = n
  BY BlockFacts
<1>2. c0 \in Seq(Cell) /\ e0 \in Seq(IndexCell) /\ c1 \in Seq(Cell) /\ hour \in Nat
  BY <1>1, DataGrows, IndexGrows, BlockPosIs, BlockFacts
<1>3. /\ Len(c0) > 0 /\ HoursPlaced(c0) /\ c0[Len(c0)].kind = IF n = 1 THEN "header" ELSE "value"
      /\ Numbered(c0, v) /\ Indexes(e0, n - 1, c0) /\ v \in Nat
  BY <1>1, ValuesCount DEF Started
<1>4. c1 = IF n = 1 THEN c0 ELSE Append(c0, EndLine)
  BY DEF BeforeBlock
<1>5. DataCells(blocks, n) = c3 /\ IndexFront(blocks, n) = e2
  BY DataGrows, IndexGrows, BlockPosIs
<1>6. /\ d \in Seq(Cell) /\ Len(d) = Len(blocks[n]) /\ Len(d) \in Nat \ {0}
      /\ \A i \in 1 .. Len(d) : d[i].kind = "value" /\ d[i].value = v + i
  BY ValuesLaid
<1>7. ValuesBefore(blocks, n + 1) = v + Len(d)
  BY <1>6, ValuesCount
<1> HIDE DEF c0, c1, c2, c3, d, v, e0, e2, hour
<1>8. /\ Len(c1) > 0 /\ HoursPlaced(c1) /\ c1[Len(c1)].kind \in {"header", "endline"}
      /\ Numbered(c1, v) /\ Indexes(e0, n - 1, c1)
  <2>1. CASE n = 1
    BY <1>3, <1>4, <2>1
  <2>2. CASE n # 1
    <3>1. EndLine \in Cell /\ EndLine.kind = "endline"
      BY CellsWritten
    <3>2. c1 = Append(c0, EndLine) /\ c0[Len(c0)].kind = "value"
      BY <1>3, <1>4, <2>2
    <3>3. HoursPlaced(c1) /\ Numbered(c1, v)
      BY <1>2, <1>3, <3>1, <3>2, PlacedGrows, NumberedStays
    <3>4. Len(c1) = Len(c0) + 1 /\ c1[Len(c0) + 1] = EndLine /\ Len(c0) \in Nat
      BY <1>2, <3>1, <3>2, Appended
    <3>5. Indexes(e0, n - 1, c1)
      <4> DEFINE m == n - 1
                 end == <<EndLine>>
      <4>1. end \in Seq(Cell) /\ c1 = c0 \o end
        BY <1>2, <3>1, <3>2
      <4>2. \A i \in 1 .. Len(end) : end[i].kind # "hour"
        BY <3>1
      <4>3. m \in Nat /\ Indexes(e0, m, c0)
        BY <1>1, <1>3
      <4> HIDE DEF m, end
      <4>4. Indexes(e0, m, c1)
        BY <1>2, <4>1, <4>2, <4>3, NoHourAdded
      <4> QED
        BY <4>4 DEF m
    <3> QED
      BY <3>1, <3>3, <3>4, <3>5
  <2> QED
    BY <2>1, <2>2
<1>9. HourCell(hour) \in Cell /\ HourCell(hour).kind = "hour"
  BY <1>2, CellsWritten
<1>10. /\ c2 \in Seq(Cell) /\ Len(c2) = Len(c1) + 1 /\ Len(c1) \in Nat
       /\ c2[Len(c1) + 1] = HourCell(hour)
  BY <1>2, <1>9, Appended DEF c2
<1>11. HoursPlaced(c2) /\ Numbered(c2, v)
  BY <1>2, <1>3, <1>8, <1>9, PlacedGrows, NumberedStays DEF c2
<1>12. Indexes(e2, n, c2)
  <2> DEFINE m == n - 1
  <2>1. m \in Nat /\ m + 1 = n /\ Indexes(e0, m, c1)
    BY <1>1, <1>8
  <2> HIDE DEF m
  <2>2. Indexes(Append(Append(e0, HourCell(hour)), PositionCell(Len(c1))), m + 1,
                Append(c1, HourCell(hour)))
    BY <1>2, <2>1, HourAdded
  <2> QED
    BY <2>1, <2>2 DEF e2, c2
<1>13. HoursPlaced(c3)
  <2>1. Len(c2) > 0 /\ c2[Len(c2)].kind \in {"hour", "value"}
    BY <1>9, <1>10
  <2> QED
    BY <1>6, <1>10, <1>11, <2>1, PlacedValues DEF c3
<1>14. Numbered(c3, v + Len(d))
  BY <1>3, <1>6, <1>10, <1>11, NumberedGrows DEF c3
<1>15. Indexes(e2, n, c3)
  <2>1. \A i \in 1 .. Len(d) : d[i].kind # "hour"
    BY <1>6
  <2>2. n \in Nat
    BY <1>1
  <2> QED
    BY <1>6, <1>10, <1>12, <2>1, <2>2, NoHourAdded DEF c3
<1>16. Len(c3) > 0 /\ c3[Len(c3)].kind = "value"
  <2>1. Len(c3) = Len(c2) + Len(d) /\ Len(c2) \in Nat
        /\ \A i \in Len(c2) + 1 .. Len(c2) + Len(d) : c3[i] = d[i - Len(c2)]
    <3>1. c2 \in Seq(Cell) /\ d \in Seq(Cell) /\ c3 = c2 \o d
      BY <1>6, <1>10 DEF c3
    <3> QED
      BY <3>1, Joined
  <2>2. Len(c3) \in Len(c2) + 1 .. Len(c2) + Len(d) /\ Len(c3) - Len(c2) \in 1 .. Len(d)
    BY <1>6, <2>1
  <2> QED
    BY <1>6, <2>1, <2>2
<1> QED
  BY <1>1, <1>5, <1>7, <1>13, <1>14, <1>15, <1>16 DEF Started

LEMMA StartsHold == ASSUME NEW blocks \in Starts PROVE Started(blocks, Len(blocks))
<1> DEFINE S == {n \in 0 .. Len(blocks) : ~Started(blocks, n)}
<1>1. Len(blocks) \in Nat
  BY StartsAssumption
<1>2. S \in SUBSET Nat
  OBVIOUS
<1>3. S = {}
  <2> SUFFICES ASSUME S # {} PROVE FALSE
    OBVIOUS
  <2> HIDE DEF S
  <2>1. PICK n \in S : \A m \in S : n <= m
    BY <1>2, SmallestMember
  <2>2. n \in 0 .. Len(blocks) /\ ~Started(blocks, n)
    BY <2>1 DEF S
  <2>3. CASE n = 0
    BY <2>2, <2>3, HeaderStarted
  <2>4. CASE n # 0
    <3>1. n \in 1 .. Len(blocks) /\ n - 1 \in 0 .. Len(blocks) /\ n - 1 \notin S
      BY <1>1, <2>1, <2>2, <2>4
    <3>2. Started(blocks, n - 1)
      BY <3>1 DEF S
    <3> QED
      BY <2>2, <3>1, <3>2, BlockStarted
  <2> QED
    BY <2>3, <2>4
<1> QED
  BY <1>1, <1>3

-----------------------------------------------------------------------------
(* Types.                                                                    *)

ValueType == [time : Nat, value : Nat]
Ops       == {"none"} \union WriteOps \union ReadOps

JobType == [op : Ops, time : Nat, value : Nat, seek : Int, got : Seq(ValueType),
            seen : Nat, alone : BOOLEAN]

AnswerType == [op : Ops, time : Nat, ok : BOOLEAN, got : Seq(ValueType),
               seen : Nat, alone : BOOLEAN]

WriteAts == {"clock", "check", "writeLock"} \union Writing
ReadAts  == {"readLock"} \union Reading

(* SharedTypeOK with the types of the locals; a call is at an operation of   *)
(* its kind, and writes a time behind the hour 0.                            *)
TypeInv ==
  /\ SharedTypeOK
  /\ HourSecs <= now
  /\ history \in Seq(ValueType)
  /\ job \in [Callers -> JobType]
  /\ answer \in AnswerType /\ answer.seen <= Len(history)
  /\ \A c \in Callers :
       /\ job[c].seen <= Len(history)
       /\ at[c] \in WriteAts => job[c].op \in WriteOps
       /\ at[c] \in ReadAts => job[c].op \in ReadOps
       /\ at[c] \in WriteAts \ {"clock"} => HourSecs <= job[c].time

LEMMA AtsSplit ==
  /\ Ats = {"idle"} \union WriteAts \union ReadAts
  /\ Writing \subseteq WriteAts /\ Reading \subseteq ReadAts
  /\ WriteAts \intersect ReadAts = {}
  BY DEF Ats, WriteAts, ReadAts, Writing, Reading

LEMMA JobFields ==
  ASSUME NEW j \in JobType
  PROVE  /\ j.op \in Ops /\ j.time \in Nat /\ j.value \in Nat /\ j.seek \in Int
         /\ j.got \in Seq(ValueType) /\ j.seen \in Nat /\ j.alone \in BOOLEAN
  BY DEF JobType

(* The fields a change of the locals leaves alone.                           *)
SameCall(j, k) == j.op = k.op /\ j.value = k.value /\ j.seen = k.seen /\ j.alone = k.alone

LEMMA TimeSet ==
  ASSUME NEW j \in JobType, NEW t \in Nat
  PROVE  WithTime(j, t) \in JobType /\ SameCall(WithTime(j, t), j) /\ WithTime(j, t).time = t
  BY JobFields DEF WithTime, Job, JobType, SameCall

LEMMA JobsMade ==
  ASSUME NEW j \in JobType
  PROVE  /\ SameCall(j, j)
         /\ \A t \in Nat : WithTime(j, t) \in JobType /\ SameCall(WithTime(j, t), j)
         /\ \A k \in Int : WithSeek(j, k) \in JobType /\ SameCall(WithSeek(j, k), j)
         /\ \A g \in Seq(ValueType) : WithGot(j, g) \in JobType /\ SameCall(WithGot(j, g), j)
         /\ NotAlone(j) \in JobType /\ NotAlone(j).op = j.op /\ NotAlone(j).value = j.value
         /\ NotAlone(j).seen = j.seen /\ NotAlone(j).time = j.time /\ NotAlone(j).seek = j.seek
         /\ NotAlone(j).alone = FALSE
<1>1. \A t \in Nat : WithTime(j, t) \in JobType /\ SameCall(WithTime(j, t), j)
  BY TimeSet
<1>2. \A k \in Int : WithSeek(j, k) \in JobType /\ SameCall(WithSeek(j, k), j)
  BY JobFields DEF WithSeek, Job, JobType, SameCall
<1>3. \A g \in Seq(ValueType) : WithGot(j, g) \in JobType /\ SameCall(WithGot(j, g), j)
  BY JobFields DEF WithGot, Job, JobType, SameCall
<1>4. /\ NotAlone(j) \in JobType /\ NotAlone(j).op = j.op /\ NotAlone(j).value = j.value
      /\ NotAlone(j).seen = j.seen /\ NotAlone(j).time = j.time /\ NotAlone(j).seek = j.seek
      /\ NotAlone(j).alone = FALSE
  BY JobFields DEF NotAlone, Job, JobType
<1> QED
  BY <1>1, <1>2, <1>3, <1>4 DEF SameCall

-----------------------------------------------------------------------------
(* What a step of a read may change.                                         *)

StreamsKept ==
  /\ data' \in StreamOf(Cell) /\ Contents(data.file)' = Contents(data.file)
  /\ index' \in StreamOf(IndexCell) /\ Contents(index.file)' = Contents(index.file)

JobKept(c) == \E j \in JobType : Set(c, j) /\ SameCall(j, job[c])

Moved(c) == \E next \in Reading \union {"idle"} :
              Goto(c, next) /\ reader' = IF next = "idle" THEN None ELSE c

Answered(c) ==
  \/ answer' = answer
  \/ answer' \in AnswerType /\ answer'.op = job[c].op /\ answer'.seen = job[c].seen

ReadEffect(c) ==
  /\ UNCHANGED <<now, info, writer, history, calls>>
  /\ at[c] \in ReadAts /\ reader \in {None, c}
  /\ StreamsKept /\ JobKept(c) /\ Moved(c) /\ Answered(c)

LEMMA StreamsKeptBy ==
  ASSUME TypeInv,
         NEW p \in Int, data' \in {data, AfterRead(data), SeekInEnd(data), Cleared(data), SeekIn(data, p)},
         NEW q \in Int, index' \in {index, AfterRead(index), SeekInEnd(index), SeekIn(index, q)}
  PROVE  StreamsKept
<1>1. data \in StreamOf(Cell) /\ index \in StreamOf(IndexCell)
  BY DEF TypeInv, SharedTypeOK
<1>2. data' \in StreamOf(Cell) /\ Contents(data'.file) = Contents(data.file)
  BY <1>1, ReadFacts, SeekInEndFacts, ClearedFacts, SeekInFacts
<1>3. index' \in StreamOf(IndexCell) /\ Contents(index'.file) = Contents(index.file)
  BY <1>1, ReadFacts, SeekInEndFacts, SeekInFacts
<1> QED
  BY <1>2, <1>3 DEF StreamsKept

LEMMA JobsKept ==
  ASSUME TypeInv, NEW c \in Callers
  PROVE  /\ job[c] \in JobType
         /\ UNCHANGED job => JobKept(c)
         /\ \A j \in JobType : Set(c, j) /\ SameCall(j, job[c]) => JobKept(c)
<1>1. job \in [Callers -> JobType]
  BY DEF TypeInv
<1>2. job[c] \in JobType /\ job = [job EXCEPT ![c] = job[c]]
  BY <1>1
<1> QED
  BY <1>2, JobsMade DEF JobKept, Set

LEMMA ReturnAnswers ==
  ASSUME TypeInv, NEW c \in Callers, NEW ok \in BOOLEAN, Return(c, ok)
  PROVE  /\ Goto(c, "idle") /\ Answered(c) /\ answer' \in AnswerType
         /\ answer'.op = job[c].op /\ answer'.seen = job[c].seen /\ answer'.ok = ok
         /\ answer'.time = job[c].time /\ answer'.alone = job[c].alone
<1>1. job[c] \in JobType
  BY JobsKept
<1>2. answer' = [op |-> job[c].op, time |-> job[c].time, ok |-> ok, got |-> job[c].got,
                 seen |-> job[c].seen, alone |-> job[c].alone]
  BY DEF Return
<1>3. answer' \in AnswerType
  BY <1>1, <1>2, JobFields DEF AnswerType
<1> QED
  BY <1>2, <1>3 DEF Return, Goto, Answered

LEMMA MovedBy ==
  ASSUME TypeInv, NEW c \in Callers
  PROVE  /\ Goto(c, "idle") /\ reader' = None => Moved(c)
         /\ \A next \in Reading : Goto(c, next) /\ reader' = c => Moved(c)
<1>1. "idle" \notin Reading
  BY DEF Reading, Ats
<1> QED
  BY <1>1 DEF Moved

(* The caller at an operation of a read holds readMutex.                     *)
LEMMA ReaderHolds ==
  ASSUME TypeInv, NEW c \in Callers, at[c] \in Reading
  PROVE  reader = c /\ at[c] \in ReadAts /\ reader \in {None, c}
  BY AtsSplit DEF TypeInv, SharedTypeOK

LEMMA HoursReadTyped ==
  ASSUME NEW C \in {Cell, IndexCell}, NEW s \in StreamOf(C)
  PROVE  HoursRead(s) \subseteq Int
<1>1. StrayHours \subseteq Int
  BY SharedAssumption
<1>2. CanRead(s) /\ ReadCell(s).kind = "hour" => ReadCell(s).hour \in Int
  <2>1. \A x \in C : x.kind = "hour" => x.hour \in Int
    BY KindsOfCells DEF IndexCell
  <2> QED
    BY <2>1, ReadFacts
<1>3. CASE ~CanRead(s)
  BY <1>1, <1>3 DEF HoursRead
<1>4. CASE CanRead(s) /\ ReadCell(s).kind = "hour"
  <2>1. HoursRead(s) = {ReadCell(s).hour}
    BY <1>4 DEF HoursRead
  <2> QED
    BY <1>2, <1>4, <2>1
<1>5. CASE CanRead(s) /\ ReadCell(s).kind # "hour"
  <2>1. HoursRead(s) = {-1}
    BY <1>5 DEF HoursRead, NoHour
  <2> QED
    BY <2>1
<1> QED
  BY <1>3, <1>4, <1>5

LEMMA InfoTyped ==
  TypeInv => /\ info.startHour \in Nat /\ info.minHour \in Nat /\ info.maxHour \in Nat
             /\ info.maxOffset \in Nat /\ info.indexSize \in Nat
  BY DEF TypeInv, SharedTypeOK

(* The search of the index, from the mutex on.                               *)
LEMMA SearchReads ==
  ASSUME TypeInv, NEW c \in Callers,
         LockRead(c) \/ SeekIndex(c) \/ ReadIndex(c) \/ WalkSeek(c) \/ ReadIndexPosition(c) \/ LeaveIndex(c)
  PROVE  ReadEffect(c)
<1> DEFINE j == job[c]
<1>1. j \in JobType /\ j.seek \in Int /\ j.time \in Nat
  BY JobsKept, JobFields
<1>2. {"indexSeek", "indexRead", "walkSeek", "walkRead", "indexPosition", "indexEnd", "dataSeek"}
        \subseteq Reading
  BY DEF Reading, Ats
<1>3. data \in StreamOf(Cell) /\ index \in StreamOf(IndexCell)
  BY DEF TypeInv, SharedTypeOK
<1>4. CASE LockRead(c)
  <2> DEFINE hour == IF j.op = "ReadHour" THEN j.time ELSE info.maxHour
  <2>1. UNCHANGED <<now, info, writer, history, calls>> /\ data' = data /\ index' = index
        /\ at[c] \in ReadAts /\ reader = None
    BY <1>4 DEF LockRead, Free, ReadAts
  <2>2. StreamsKept
    BY <2>1, StreamsKeptBy
  <2>3. CASE hour \notin info.minHour .. info.maxHour
    <3>1. Return(c, TRUE) /\ reader' = reader /\ job' = job
      BY <1>4, <2>3 DEF LockRead
    <3> QED
      BY <2>1, <2>2, <3>1, JobsKept, ReturnAnswers, MovedBy DEF ReadEffect
  <2>4. CASE hour \in info.minHour .. info.maxHour
    <3>1. /\ reader' = c /\ Set(c, WithSeek(WithTime(j, hour), FirstSlot(hour)))
          /\ Goto(c, "indexSeek") /\ answer' = answer
      BY <1>4, <2>4 DEF LockRead
    <3>2. hour \in Nat /\ FirstSlot(hour) \in Int
      <4>1. hour \in Nat
        BY <1>1, InfoTyped
      <4> HIDE DEF hour
      <4>2. FirstSlot(hour) \in Int
        BY <2>4, <4>1, InfoTyped DEF FirstSlot
      <4> QED
        BY <4>1, <4>2
    <3> HIDE DEF hour
    <3>3. WithTime(j, hour) \in JobType /\ SameCall(WithTime(j, hour), j)
      BY <1>1, <3>2, JobsMade
    <3>4. /\ WithSeek(WithTime(j, hour), FirstSlot(hour)) \in JobType
          /\ SameCall(WithSeek(WithTime(j, hour), FirstSlot(hour)), j)
      BY <3>2, <3>3, JobsMade DEF SameCall
    <3>5. JobKept(c)
      BY <3>1, <3>4, JobsKept
    <3> QED
      BY <1>2, <2>1, <2>2, <3>1, <3>5, MovedBy DEF ReadEffect, Answered
  <2> QED
    BY <2>3, <2>4
<1>5. CASE SeekIndex(c)
  <2>1. /\ UNCHANGED <<now, info, writer, history, calls>> /\ data' = data /\ job' = job
        /\ reader' = reader /\ answer' = answer /\ at[c] = "indexSeek" /\ Goto(c, "indexRead")
        /\ index' = SeekIn(index, SlotPos(j.seek))
    BY <1>5 DEF SeekIndex
  <2>2. SlotPos(j.seek) \in Int
    BY <1>1 DEF SlotPos
  <2>3. StreamsKept
    BY <2>1, <2>2, StreamsKeptBy
  <2>4. reader = c /\ at[c] \in ReadAts
    BY <1>2, <2>1, ReaderHolds
  <2> QED
    BY <1>2, <2>1, <2>3, <2>4, JobsKept, MovedBy DEF ReadEffect, Answered
<1>6. CASE ReadIndex(c)
  <2>1. /\ UNCHANGED <<now, info, writer, history, calls>> /\ data' = data
        /\ at[c] \in {"indexRead", "walkRead"} /\ index' = AfterRead(index)
    BY <1>6 DEF ReadIndex
  <2>2. StreamsKept
    BY <2>1, StreamsKeptBy
  <2>3. reader = c /\ at[c] \in ReadAts
    BY <1>2, <2>1, ReaderHolds
  <2>4. JobKept(c) /\ Moved(c) /\ Answered(c)
    <3>1. CASE Goto(c, "indexPosition") /\ UNCHANGED <<reader, job, answer>>
      BY <1>2, <2>3, <3>1, JobsKept, MovedBy DEF Answered
    <3>2. CASE Goto(c, "walkSeek") /\ Set(c, WithSeek(j, j.seek - 1)) /\ UNCHANGED <<reader, answer>>
      <4>1. j.seek - 1 \in Int
        BY <1>1
      <4>2. JobKept(c)
        BY <1>1, <3>2, <4>1, JobsMade, JobsKept
      <4> QED
        BY <1>2, <2>3, <3>2, <4>2, MovedBy DEF Answered
    <3>3. CASE Goto(c, "indexEnd") /\ Set(c, WithSeek(j, 0)) /\ UNCHANGED <<reader, answer>>
      <4>1. JobKept(c)
        <5>1. ASSUME NEW k \in Int, Set(c, WithSeek(j, k)) PROVE JobKept(c)
          BY <1>1, <5>1, JobsMade, JobsKept
        <5> QED
          BY <3>3, <5>1
      <4> QED
        BY <1>2, <2>3, <3>3, <4>1, MovedBy DEF Answered
    <3>4. CASE Return(c, TRUE) /\ Unlock /\ UNCHANGED job
      BY <3>4, JobsKept, ReturnAnswers, MovedBy DEF Unlock
    <3> QED
      BY <1>6, <3>1, <3>2, <3>3, <3>4 DEF ReadIndex
  <2> QED
    BY <2>1, <2>2, <2>3, <2>4 DEF ReadEffect
<1>7. CASE WalkSeek(c)
  <2>1. /\ UNCHANGED <<now, info, writer, history, calls>> /\ data' = data /\ job' = job
        /\ at[c] = "walkSeek" /\ index' = SeekIn(index, SlotPos(j.seek))
        /\ \/ Return(c, TRUE) /\ Unlock
           \/ Goto(c, "walkRead") /\ UNCHANGED <<reader, answer>>
    BY <1>7 DEF WalkSeek
  <2>2. SlotPos(j.seek) \in Int
    BY <1>1 DEF SlotPos
  <2>3. StreamsKept
    BY <2>1, <2>2, StreamsKeptBy
  <2>4. reader = c /\ at[c] \in ReadAts
    BY <1>2, <2>1, ReaderHolds
  <2>5. Moved(c) /\ Answered(c)
    BY <1>2, <2>1, <2>4, ReturnAnswers, MovedBy DEF Answered, Unlock
  <2> QED
    BY <2>1, <2>3, <2>4, <2>5, JobsKept DEF ReadEffect
<1>8. CASE ReadIndexPosition(c)
  <2> DEFINE p == IF CanRead(index) /\ ReadCell(index).kind = "position"
                  THEN ReadCell(index).pos ELSE 0
  <2>1. /\ UNCHANGED <<now, info, writer, history, calls>> /\ data' = data
        /\ reader' = reader /\ answer' = answer /\ at[c] = "indexPosition" /\ Goto(c, "indexEnd")
        /\ index' = AfterRead(index) /\ Set(c, WithSeek(j, p))
    BY <1>8 DEF ReadIndexPosition
  <2>2. p \in Int
    <3>1. \A x \in IndexCell : x.kind = "position" => x.pos \in Int
      BY KindsOfCells DEF IndexCell
    <3> QED
      BY <1>3, <3>1, ReadFacts
  <2> HIDE DEF p
  <2>3. StreamsKept
    BY <2>1, StreamsKeptBy
  <2>4. reader = c /\ at[c] \in ReadAts
    BY <1>2, <2>1, ReaderHolds
  <2>5. JobKept(c)
    BY <1>1, <2>1, <2>2, JobsMade, JobsKept
  <2> QED
    BY <1>2, <2>1, <2>3, <2>4, <2>5, MovedBy DEF ReadEffect, Answered
<1>9. CASE LeaveIndex(c)
  <2>1. /\ UNCHANGED <<now, info, writer, history, calls>> /\ data' = data /\ job' = job
        /\ at[c] = "indexEnd" /\ index' = SeekInEnd(index)
        /\ \/ Return(c, TRUE) /\ Unlock
           \/ Goto(c, "dataSeek") /\ UNCHANGED <<reader, answer>>
    BY <1>9 DEF LeaveIndex
  <2>2. StreamsKept
    BY <2>1, StreamsKeptBy
  <2>3. reader = c /\ at[c] \in ReadAts
    BY <1>2, <2>1, ReaderHolds
  <2>4. Moved(c) /\ Answered(c)
    BY <1>2, <2>1, <2>3, ReturnAnswers, MovedBy DEF Answered, Unlock
  <2> QED
    BY <2>1, <2>2, <2>3, <2>4, JobsKept DEF ReadEffect
<1> QED
  BY <1>4, <1>5, <1>6, <1>7, <1>8, <1>9

LEMMA ReadsTyped ==
  /\ Garbage \in ValueType
  /\ \A hour \in Nat, cell \in Cell : IsRecord(cell) => ReadOf(hour, cell) \in ValueType
<1>1. Garbage \in ValueType
  BY DEF Garbage, ValueType
<1>2. ASSUME NEW hour \in Nat, NEW cell \in Cell, IsRecord(cell)
      PROVE  ReadOf(hour, cell) \in ValueType
  <2>1. cell.offset \in Nat /\ cell.value \in Nat
    BY <1>2, KindsOfCells DEF IsRecord
  <2>2. ToTimeT(hour, cell.offset) \in Nat
    BY <2>1, HourSecsAssumption DEF ToTimeT
  <2> QED
    BY <2>1, <2>2 DEF ReadOf, ValueType
<1> QED
  BY <1>1, <1>2

LEMMA GotGrows ==
  ASSUME NEW j \in JobType, NEW v \in ValueType
  PROVE  /\ WithGot(j, Append(j.got, v)) \in JobType /\ SameCall(WithGot(j, Append(j.got, v)), j)
         /\ WithGot(j, <<v>>) \in JobType /\ SameCall(WithGot(j, <<v>>), j)
<1>1. Append(j.got, v) \in Seq(ValueType) /\ <<v>> \in Seq(ValueType)
  BY JobFields
<1> QED
  BY <1>1, JobsMade

(* The reads of values, once the position of the hour is known.              *)
LEMMA ValuesReads ==
  ASSUME TypeInv, NEW c \in Callers,
         SeekData(c) \/ ReadDataHour(c) \/ ReadDataValue(c) \/ Clear(c)
  PROVE  ReadEffect(c)
<1> DEFINE j == job[c]
<1>1. j \in JobType /\ j.seek \in Int /\ j.time \in Nat
  BY JobsKept, JobFields
<1>2. {"dataSeek", "dataHour", "dataValue", "clear", "lastSeek"} \subseteq Reading
  BY DEF Reading, Ats
<1>3. data \in StreamOf(Cell)
  BY DEF TypeInv, SharedTypeOK
<1>4. CASE SeekData(c)
  <2>1. /\ UNCHANGED <<now, info, writer, history, calls>> /\ index' = index /\ job' = job
        /\ reader' = reader /\ answer' = answer /\ at[c] = "dataSeek" /\ Goto(c, "dataHour")
        /\ data' = SeekIn(data, j.seek)
    BY <1>4 DEF SeekData
  <2>2. StreamsKept
    BY <1>1, <2>1, StreamsKeptBy
  <2>3. reader = c /\ at[c] \in ReadAts
    BY <1>2, <2>1, ReaderHolds
  <2> QED
    BY <1>2, <2>1, <2>2, <2>3, JobsKept, MovedBy DEF ReadEffect, Answered
<1>5. CASE ReadDataHour(c)
  <2>1. /\ UNCHANGED <<now, info, writer, history, calls>> /\ index' = index /\ job' = job
        /\ at[c] = "dataHour" /\ data' = AfterRead(data)
        /\ \/ Return(c, FALSE) /\ Unlock
           \/ /\ Goto(c, "dataValue") \/ Goto(c, "lastSeek")
              /\ UNCHANGED <<reader, answer>>
    BY <1>5 DEF ReadDataHour
  <2>2. StreamsKept
    BY <2>1, StreamsKeptBy
  <2>3. reader = c /\ at[c] \in ReadAts
    BY <1>2, <2>1, ReaderHolds
  <2>4. Moved(c) /\ Answered(c)
    BY <1>2, <2>1, <2>3, ReturnAnswers, MovedBy DEF Answered, Unlock
  <2> QED
    BY <2>1, <2>2, <2>3, <2>4, JobsKept DEF ReadEffect
<1>6. CASE ReadDataValue(c)
  <2>1. /\ UNCHANGED <<now, info, writer, history, calls>> /\ index' = index
        /\ at[c] = "dataValue" /\ data' \in {AfterRead(data), SeekInEnd(data)}
    BY <1>6 DEF ReadDataValue
  <2>2. StreamsKept
    BY <2>1, StreamsKeptBy
  <2>3. reader = c /\ at[c] \in ReadAts
    BY <1>2, <2>1, ReaderHolds
  <2>4. UNCHANGED <<reader, at, answer>> => Moved(c) /\ Answered(c)
    <3>1. at = [at EXCEPT ![c] = at[c]]
      BY DEF TypeInv, SharedTypeOK
    <3>2. UNCHANGED at => Goto(c, "dataValue")
      BY <2>1, <3>1 DEF Goto
    <3> QED
      BY <1>2, <2>3, <3>2, MovedBy DEF Answered
  <2>5. JobKept(c) /\ Moved(c) /\ Answered(c)
    <3>1. CASE Goto(c, "clear") /\ UNCHANGED <<reader, job, answer>>
      BY <1>2, <2>3, <3>1, JobsKept, MovedBy DEF Answered
    <3>2. CASE Return(c, TRUE) /\ Unlock /\ UNCHANGED job
      BY <3>2, JobsKept, ReturnAnswers, MovedBy DEF Unlock
    <3>3. CASE /\ CanRead(data) /\ IsRecord(ReadCell(data))
               /\ Set(c, WithGot(j, Append(j.got, ReadOf(j.time, ReadCell(data)))))
               /\ UNCHANGED <<reader, at, answer>>
      <4>1. ReadOf(j.time, ReadCell(data)) \in ValueType
        BY <1>1, <1>3, <3>3, ReadFacts, ReadsTyped
      <4>2. JobKept(c)
        BY <1>1, <3>3, <4>1, GotGrows, JobsKept
      <4> QED
        BY <2>4, <3>3, <4>2
    <3>4. CASE Set(c, WithGot(j, Append(j.got, Garbage))) /\ UNCHANGED <<reader, at, answer>>
      <4>1. JobKept(c)
        BY <1>1, <3>4, ReadsTyped, GotGrows, JobsKept
      <4> QED
        BY <2>4, <3>4, <4>1
    <3> QED
      BY <1>6, <3>1, <3>2, <3>3, <3>4 DEF ReadDataValue
  <2> QED
    BY <2>1, <2>2, <2>3, <2>5 DEF ReadEffect
<1>7. CASE Clear(c)
  <2>1. /\ UNCHANGED <<now, info, writer, history, calls>> /\ index' = index /\ job' = job
        /\ at[c] = "clear" /\ data' = Cleared(data) /\ Return(c, TRUE) /\ Unlock
    BY <1>7 DEF Clear
  <2>2. StreamsKept
    BY <2>1, StreamsKeptBy
  <2>3. reader = c /\ at[c] \in ReadAts
    BY <1>2, <2>1, ReaderHolds
  <2> QED
    BY <2>1, <2>2, <2>3, ReturnAnswers, MovedBy, JobsKept DEF ReadEffect, Unlock
<1> QED
  BY <1>4, <1>5, <1>6, <1>7

(* The read of the last value, behind the hour.                              *)
LEMMA LastReads ==
  ASSUME TypeInv, NEW c \in Callers,
         SeekLast(c) \/ TellLast(c) \/ SeekLastRecord(c) \/ ReadLastRecord(c) \/ LeaveLast(c)
  PROVE  ReadEffect(c)
<1> DEFINE j == job[c]
<1>1. j \in JobType /\ j.seek \in Int /\ info.maxHour \in Nat
  BY JobsKept, JobFields, InfoTyped
<1>2. {"lastSeek", "lastTell", "lastRecord", "lastValue", "lastEnd"} \subseteq Reading
  BY DEF Reading, Ats
<1>3. data \in StreamOf(Cell)
  BY DEF TypeInv, SharedTypeOK
<1>4. CASE SeekLast(c)
  <2>1. /\ UNCHANGED <<now, info, writer, history, calls>> /\ index' = index /\ job' = job
        /\ reader' = reader /\ answer' = answer /\ at[c] = "lastSeek" /\ Goto(c, "lastTell")
        /\ data' = SeekInEnd(data)
    BY <1>4 DEF SeekLast
  <2>2. StreamsKept
    BY <2>1, StreamsKeptBy
  <2>3. reader = c /\ at[c] \in ReadAts
    BY <1>2, <2>1, ReaderHolds
  <2> QED
    BY <1>2, <2>1, <2>2, <2>3, JobsKept, MovedBy DEF ReadEffect, Answered
<1>5. CASE TellLast(c)
  <2>1. /\ UNCHANGED <<now, info, writer, history, calls>> /\ index' = index /\ data' = data
        /\ reader' = reader /\ answer' = answer /\ at[c] = "lastTell" /\ Goto(c, "lastRecord")
        /\ Set(c, WithSeek(j, PositionOf(data) - 1))
    BY <1>5 DEF TellLast
  <2>2. StreamsKept
    BY <2>1, StreamsKeptBy
  <2>3. reader = c /\ at[c] \in ReadAts
    BY <1>2, <2>1, ReaderHolds
  <2>4. JobKept(c)
    <3>1. PositionOf(data) - 1 \in Int
      BY <1>3, PositionFacts
    <3> QED
      BY <1>1, <2>1, <3>1, JobsMade, JobsKept
  <2> QED
    BY <1>2, <2>1, <2>2, <2>3, <2>4, MovedBy DEF ReadEffect, Answered
<1>6. CASE SeekLastRecord(c)
  <2>1. /\ UNCHANGED <<now, info, writer, history, calls>> /\ index' = index /\ job' = job
        /\ reader' = reader /\ answer' = answer /\ at[c] = "lastRecord" /\ Goto(c, "lastValue")
        /\ data' = SeekIn(data, j.seek)
    BY <1>6 DEF SeekLastRecord
  <2>2. StreamsKept
    BY <1>1, <2>1, StreamsKeptBy
  <2>3. reader = c /\ at[c] \in ReadAts
    BY <1>2, <2>1, ReaderHolds
  <2> QED
    BY <1>2, <2>1, <2>2, <2>3, JobsKept, MovedBy DEF ReadEffect, Answered
<1>7. CASE ReadLastRecord(c)
  <2> DEFINE read == IF CanRead(data) /\ IsRecord(ReadCell(data))
                     THEN ReadOf(info.maxHour, ReadCell(data)) ELSE Garbage
  <2>1. /\ UNCHANGED <<now, info, writer, history, calls>> /\ index' = index
        /\ reader' = reader /\ answer' = answer /\ at[c] = "lastValue" /\ Goto(c, "lastEnd")
        /\ data' = AfterRead(data) /\ Set(c, WithGot(j, <<read>>))
    BY <1>7 DEF ReadLastRecord
  <2>2. read \in ValueType
    BY <1>1, <1>3, ReadFacts, ReadsTyped
  <2> HIDE DEF read
  <2>3. StreamsKept
    BY <2>1, StreamsKeptBy
  <2>4. reader = c /\ at[c] \in ReadAts
    BY <1>2, <2>1, ReaderHolds
  <2>5. JobKept(c)
    BY <1>1, <2>1, <2>2, GotGrows, JobsKept
  <2> QED
    BY <1>2, <2>1, <2>3, <2>4, <2>5, MovedBy DEF ReadEffect, Answered
<1>8. CASE LeaveLast(c)
  <2>1. /\ UNCHANGED <<now, info, writer, history, calls>> /\ index' = index /\ job' = job
        /\ at[c] = "lastEnd" /\ data' = SeekInEnd(data) /\ Return(c, TRUE) /\ Unlock
    BY <1>8 DEF LeaveLast
  <2>2. StreamsKept
    BY <2>1, StreamsKeptBy
  <2>3. reader = c /\ at[c] \in ReadAts
    BY <1>2, <2>1, ReaderHolds
  <2> QED
    BY <2>1, <2>2, <2>3, ReturnAnswers, MovedBy, JobsKept DEF ReadEffect, Unlock
<1> QED
  BY <1>4, <1>5, <1>6, <1>7, <1>8

LEMMA ReadsHaveEffect ==
  ASSUME TypeInv, NEW c \in Callers, ReadStep(c)
  PROVE  ReadEffect(c)
  BY SearchReads, ValuesReads, LastReads DEF ReadStep

-----------------------------------------------------------------------------
(* Type correctness.                                                         *)

InfoType == [startHour : Nat, minHour : Nat, maxHour : Nat, maxOffset : Nat, indexSize : Nat]

(* A mutex that only the caller c may have taken or released.                *)
MutexKept(c, holder, after) ==
  /\ after \in Callers \union {None}
  /\ \A d \in Callers \ {c} : after = d <=> holder = d

LEMMA MutexBy ==
  ASSUME NEW c \in Callers, NEW holder \in Callers \union {None}
  PROVE  /\ c # None /\ MutexKept(c, holder, holder)
         /\ holder \in {None, c} => MutexKept(c, holder, c) /\ MutexKept(c, holder, None)
  BY CallersAssumption DEF MutexKept

(* One caller moves, the others stay where they are.                         *)
LEMMA CallerMoved ==
  ASSUME TypeInv, NEW c \in Callers, NEW next \in Ats, NEW j \in JobType, Goto(c, next), Set(c, j),
         UNCHANGED <<now, calls>>,
         data' \in StreamOf(Cell), index' \in StreamOf(IndexCell), info' \in InfoType,
         history' \in Seq(ValueType), Len(history) <= Len(history'),
         answer' \in AnswerType, answer'.seen <= Len(history'),
         j.seen <= Len(history'),
         next \in WriteAts => j.op \in WriteOps, next \in ReadAts => j.op \in ReadOps,
         next \in WriteAts \ {"clock"} => HourSecs <= j.time,
         MutexKept(c, writer, writer'), writer' = c <=> next \in Writing,
         MutexKept(c, reader, reader'), reader' = c <=> next \in Reading
  PROVE  TypeInv'
<1>1. now' \in Nat /\ HourSecs <= now' /\ calls' \in [WriteOps \union ReadOps -> 0 .. MaxCalls]
  BY DEF TypeInv, SharedTypeOK
<1>2. at \in [Callers -> Ats] /\ job \in [Callers -> JobType]
  BY DEF TypeInv, SharedTypeOK
<1>3. at' \in [Callers -> Ats] /\ job' \in [Callers -> JobType]
  BY <1>2 DEF Goto, Set
<1>4. /\ at'[c] = next /\ job'[c] = j
      /\ \A d \in Callers \ {c} : at'[d] = at[d] /\ job'[d] = job[d]
  BY <1>2 DEF Goto, Set
<1>5. Len(history) \in Nat /\ Len(history') \in Nat
  BY DEF TypeInv
<1>6. ASSUME NEW d \in Callers
      PROVE  /\ job'[d].seen <= Len(history')
             /\ at'[d] \in WriteAts => job'[d].op \in WriteOps
             /\ at'[d] \in ReadAts => job'[d].op \in ReadOps
             /\ at'[d] \in WriteAts \ {"clock"} => HourSecs <= job'[d].time
  <2>1. CASE d = c
    BY <1>4, <2>1
  <2>2. CASE d # c
    <3>1. job[d] \in JobType /\ job[d].seen \in Nat
      BY JobsKept, JobFields
    <3>2. /\ job[d].seen <= Len(history)
          /\ at[d] \in WriteAts => job[d].op \in WriteOps
          /\ at[d] \in ReadAts => job[d].op \in ReadOps
          /\ at[d] \in WriteAts \ {"clock"} => HourSecs <= job[d].time
      BY DEF TypeInv
    <3>3. at'[d] = at[d] /\ job'[d] = job[d]
      BY <1>4, <2>2
    <3> QED
      BY <1>5, <3>1, <3>2, <3>3
  <2> QED
    BY <2>1, <2>2
<1>7. writer' \in Callers \union {None} /\ reader' \in Callers \union {None}
  BY DEF MutexKept
<1>8. ASSUME NEW d \in Callers
      PROVE  (at'[d] \in Writing <=> writer' = d) /\ (at'[d] \in Reading <=> reader' = d)
  <2>1. CASE d = c
    BY <1>4, <2>1
  <2>2. CASE d # c
    <3>1. at'[d] = at[d]
      BY <1>4, <2>2
    <3>2. (at[d] \in Writing <=> writer = d) /\ (at[d] \in Reading <=> reader = d)
      BY DEF TypeInv, SharedTypeOK
    <3>3. (writer' = d <=> writer = d) /\ (reader' = d <=> reader = d)
      BY <2>2 DEF MutexKept
    <3> QED
      BY <3>1, <3>2, <3>3
  <2> QED
    BY <2>1, <2>2
<1>9. SharedTypeOK'
  BY <1>1, <1>3, <1>7, <1>8 DEF SharedTypeOK, InfoType
<1> QED
  BY <1>1, <1>3, <1>6, <1>9 DEF TypeInv

LEMMA ReadTyped ==
  ASSUME TypeInv, NEW c \in Callers, ReadEffect(c)
  PROVE  TypeInv'
<1>1. PICK j \in JobType : Set(c, j) /\ SameCall(j, job[c])
  BY DEF ReadEffect, JobKept
<1>2. PICK next \in Reading \union {"idle"} :
        Goto(c, next) /\ reader' = IF next = "idle" THEN None ELSE c
  BY DEF ReadEffect, Moved
<1>3. next \in Ats /\ next \notin WriteAts /\ (next \in Reading <=> next # "idle")
  BY <1>2 DEF Reading, Ats, WriteAts, Writing
<1>4. at[c] \in ReadAts /\ at[c] \notin Writing /\ next \notin Writing
  BY <1>3, AtsSplit DEF ReadEffect
<1>5. job[c].seen <= Len(history) /\ job[c].op \in ReadOps
  BY <1>4 DEF TypeInv
<1>6. /\ UNCHANGED <<now, info, writer, history, calls>> /\ reader \in {None, c}
      /\ data' \in StreamOf(Cell) /\ index' \in StreamOf(IndexCell) /\ Answered(c)
  BY DEF ReadEffect, StreamsKept
<1>7. answer' \in AnswerType /\ answer'.seen <= Len(history')
  BY <1>5, <1>6 DEF TypeInv, Answered
<1>8. writer \in Callers \union {None} /\ (writer = c <=> next \in Writing)
  BY <1>4 DEF TypeInv, SharedTypeOK
<1>9. MutexKept(c, writer, writer') /\ (writer' = c <=> next \in Writing)
  <2>1. MutexKept(c, writer, writer)
    BY <1>8, MutexBy
  <2> QED
    BY <1>6, <1>8, <2>1
<1>10. MutexKept(c, reader, reader') /\ (reader' = c <=> next \in Reading)
  <2>1. reader \in Callers \union {None}
    BY DEF TypeInv, SharedTypeOK
  <2>2. c # None /\ MutexKept(c, reader, c) /\ MutexKept(c, reader, None)
    BY <1>6, <2>1, MutexBy
  <2>3. CASE next = "idle"
    BY <1>2, <1>3, <2>2, <2>3
  <2>4. CASE next # "idle"
    BY <1>2, <1>3, <2>2, <2>4
  <2> QED
    BY <2>3, <2>4
<1>11. info' \in InfoType /\ history' \in Seq(ValueType) /\ Len(history) <= Len(history')
  <2>1. history \in Seq(ValueType) /\ Len(history) \in Nat
    BY DEF TypeInv
  <2> QED
    BY <1>6, <2>1 DEF TypeInv, SharedTypeOK, InfoType
<1>12. j.seen <= Len(history') /\ j.op \in ReadOps
  BY <1>1, <1>5, <1>6 DEF SameCall
<1> QED
  BY <1>1, <1>2, <1>3, <1>6, <1>7, <1>9, <1>10, <1>11, <1>12, CallerMoved

(* What is known of the caller of a write before each of its steps.          *)
LEMMA WriterFacts ==
  ASSUME TypeInv, NEW c \in Callers, at[c] \in WriteAts
  PROVE  /\ job[c] \in JobType /\ job[c].op \in WriteOps /\ job[c].seen <= Len(history)
         /\ job[c].time \in Nat /\ job[c].value \in Nat
         /\ at[c] # "clock" => HourSecs <= job[c].time /\ FromTimeT(job[c].time) \in Nat \ {0}
         /\ UNCHANGED job => Set(c, job[c])
         /\ MutexKept(c, reader, reader) /\ reader # c
         /\ writer \in Callers \union {None} /\ (writer = c <=> at[c] \in Writing)
         /\ data \in StreamOf(Cell) /\ data.bad \in BOOLEAN /\ index \in StreamOf(IndexCell)
         /\ info \in InfoType /\ history \in Seq(ValueType) /\ Len(history) \in Nat
         /\ answer \in AnswerType /\ answer.seen <= Len(history)
<1>1. job[c] \in JobType /\ job[c].time \in Nat /\ job[c].value \in Nat
  BY JobsKept, JobFields
<1>2. /\ job[c].op \in WriteOps /\ job[c].seen <= Len(history)
      /\ at[c] # "clock" => HourSecs <= job[c].time
  BY DEF TypeInv
<1>3. HourSecs <= job[c].time => FromTimeT(job[c].time) \in Nat \ {0}
  BY <1>1, HourSecsAssumption DEF FromTimeT
<1>4. UNCHANGED job => Set(c, job[c])
  BY DEF TypeInv, Set
<1>5. reader \in Callers \union {None} /\ reader # c
  BY AtsSplit DEF TypeInv, SharedTypeOK
<1>6. MutexKept(c, reader, reader)
  BY <1>5, MutexBy
<1>7. /\ writer \in Callers \union {None} /\ (writer = c <=> at[c] \in Writing)
      /\ data \in StreamOf(Cell) /\ index \in StreamOf(IndexCell) /\ info \in InfoType
  BY DEF TypeInv, SharedTypeOK, InfoType
<1>8. history \in Seq(ValueType) /\ Len(history) \in Nat
      /\ answer \in AnswerType /\ answer.seen <= Len(history)
  BY DEF TypeInv
<1> QED
  BY <1>1, <1>2, <1>3, <1>4, <1>5, <1>6, <1>7, <1>8, StreamFields

LEMMA WriterAts ==
  /\ {"clock", "check", "writeLock"} \subseteq WriteAts
  /\ {"endLine", "entryHour", "entryTell", "entryPosition", "hour", "value"} = Writing
  /\ Writing \subseteq WriteAts /\ WriteAts \union {"idle"} \subseteq Ats
  /\ {"clock", "check", "writeLock", "idle"} \intersect Writing = {}
  /\ (WriteAts \union {"idle"}) \intersect ReadAts = {} /\ Reading \subseteq ReadAts
  /\ "idle" \notin WriteAts
  BY DEF WriteAts, Writing, Ats, ReadAts, Reading

(* The cells and FilesInfo a write makes.                                    *)
LEMMA WriteMakes ==
  ASSUME NEW time \in Nat, TypeInv
  PROVE  /\ FromTimeT(time) \in Nat /\ ToTimeT(FromTimeT(time), 0) \in Nat
         /\ HourCell(FromTimeT(time)) \in Cell /\ HourCell(FromTimeT(time)) \in IndexCell
         /\ \A position \in Int : PositionCell(position) \in IndexCell
         /\ OffsetOf(time) \in Nat
         /\ \A a, b, d, e, f \in Nat : FilesInfo(a, b, d, e, f) \in InfoType
<1>1. FromTimeT(time) \in Nat /\ ToTimeT(FromTimeT(time), 0) \in Nat
  BY HourSecsAssumption DEF FromTimeT, ToTimeT
<1>2. HourCell(FromTimeT(time)) \in Cell /\ HourCell(FromTimeT(time)) \in IndexCell
  BY <1>1, CellsWritten DEF IndexCell
<1>3. \A position \in Int : PositionCell(position) \in IndexCell
  BY DEF IndexCell, PositionCell
<1>4. OffsetOf(time) \in Nat
  <2>1. time - info.startHour \in Int
    BY InfoTyped
  <2> QED
    BY <2>1 DEF OffsetOf
<1>5. \A a, b, d, e, f \in Nat : FilesInfo(a, b, d, e, f) \in InfoType
  BY DEF FilesInfo, InfoType
<1> QED
  BY <1>1, <1>2, <1>3, <1>4, <1>5

(* A step of a write that leaves what it changes in its type.                *)
LEMMA WriterMoved ==
  ASSUME TypeInv, NEW c \in Callers, at[c] \in WriteAts,
         NEW next, next \in WriteAts \ {"clock"} \/ next = "idle",
         NEW j \in JobType, Goto(c, next), Set(c, j),
         j.op = job[c].op, j.seen = job[c].seen, HourSecs <= j.time,
         UNCHANGED <<now, reader, calls>>,
         data' \in StreamOf(Cell), index' \in StreamOf(IndexCell), info' \in InfoType,
         history' \in Seq(ValueType), Len(history) <= Len(history'),
         answer' \in AnswerType, answer'.seen <= Len(history'),
         MutexKept(c, writer, writer'), writer' = c <=> next \in Writing
  PROVE  TypeInv'
<1>1. next \in Ats /\ next \notin ReadAts /\ next \notin Reading
  BY WriterAts
<1>2. MutexKept(c, reader, reader') /\ reader' # c
  BY WriterFacts
<1>3. j.op \in WriteOps /\ j.seen \in Nat /\ j.seen <= Len(history)
  BY WriterFacts, JobFields
<1>4. Len(history) \in Nat /\ Len(history') \in Nat
  BY DEF TypeInv
<1>5. j.seen <= Len(history')
  BY <1>3, <1>4
<1> QED
  BY <1>1, <1>2, <1>3, <1>5, CallerMoved

(* Before the mutex.                                                         *)
LEMMA UnlockedTyped ==
  ASSUME TypeInv, NEW c \in Callers, ReadClock(c) \/ CheckMoreRecent(c) \/ LockWrite(c)
  PROVE  TypeInv'
<1> DEFINE Kept == /\ data' \in StreamOf(Cell) /\ index' \in StreamOf(IndexCell) /\ info' \in InfoType
                   /\ history' \in Seq(ValueType) /\ Len(history) <= Len(history')
                   /\ answer' \in AnswerType /\ answer'.seen <= Len(history')
<1>1. CASE ReadClock(c)
  <2> DEFINE j == WithTime(job[c], now)
  <2>1. /\ at[c] = "clock" /\ Set(c, j) /\ Goto(c, "writeLock")
        /\ UNCHANGED <<now, data, index, info, writer, reader, answer, history, calls>>
    BY <1>1 DEF ReadClock
  <2>2. now \in Nat /\ HourSecs <= now
    BY DEF TypeInv, SharedTypeOK
  <2>3. at[c] \in WriteAts /\ at[c] \notin Writing
    BY <2>1, WriterAts
  <2>4. j \in JobType /\ SameCall(j, job[c]) /\ j.time = now
    <3>1. job[c] \in JobType
      BY JobsKept
    <3> QED
      BY <2>2, <3>1, TimeSet
  <2> HIDE DEF j
  <2>5. MutexKept(c, writer, writer') /\ (writer' = c <=> "writeLock" \in Writing)
    BY <2>1, <2>3, WriterFacts, WriterAts, MutexBy
  <2>6. j.op = job[c].op /\ j.seen = job[c].seen /\ HourSecs <= j.time
    BY <2>2, <2>4 DEF SameCall
  <2>7. Kept
    BY <2>1, <2>3, WriterFacts
  <2> QED
    BY <2>1, <2>3, <2>4, <2>5, <2>6, <2>7, WriterAts, WriterMoved
<1>2. CASE CheckMoreRecent(c)
  <2>1. /\ at[c] = "check"
        /\ UNCHANGED <<now, data, index, info, writer, reader, job, history, calls>>
    BY <1>2 DEF CheckMoreRecent
  <2>2. at[c] \in WriteAts /\ at[c] \notin Writing /\ at[c] # "clock"
    BY <2>1, WriterAts
  <2>3. MutexKept(c, writer, writer') /\ writer' # c
    BY <2>1, <2>2, WriterFacts, MutexBy
  <2>4. job[c] \in JobType /\ Set(c, job[c]) /\ HourSecs <= job[c].time
    BY <2>1, <2>2, WriterFacts
  <2>5. CASE Return(c, FALSE)
    <3>1. Goto(c, "idle") /\ Kept
      <4>1. Goto(c, "idle") /\ answer' \in AnswerType /\ answer'.seen = job[c].seen
        BY <2>5, ReturnAnswers
      <4>2. /\ data \in StreamOf(Cell) /\ index \in StreamOf(IndexCell) /\ info \in InfoType
            /\ history \in Seq(ValueType) /\ Len(history) \in Nat /\ job[c].seen <= Len(history)
        BY <2>2, WriterFacts
      <4> QED
        BY <2>1, <4>1, <4>2
    <3>2. "idle" \notin Writing
      BY WriterAts
    <3> QED
      BY <2>1, <2>2, <2>3, <2>4, <3>1, <3>2, WriterMoved
  <2>6. CASE Goto(c, "writeLock") /\ UNCHANGED answer
    <3>1. Kept
      BY <2>1, <2>2, <2>6, WriterFacts
    <3>2. "writeLock" \notin Writing /\ "writeLock" \in WriteAts \ {"clock"}
      BY WriterAts
    <3> QED
      BY <2>1, <2>2, <2>3, <2>4, <2>6, <3>1, <3>2, WriterMoved
  <2> QED
    BY <1>2, <2>5, <2>6 DEF CheckMoreRecent
<1>3. CASE LockWrite(c)
  <2>1. /\ at[c] = "writeLock" /\ writer = None /\ writer' = c
        /\ UNCHANGED <<now, data, index, info, reader, job, answer, history, calls>>
    BY <1>3 DEF LockWrite, Free
  <2>2. PICK next \in {"value", "endLine", "entryHour"} : Goto(c, next)
    BY <1>3 DEF LockWrite
  <2>3. at[c] \in WriteAts /\ at[c] # "clock"
    BY <2>1, WriterAts
  <2>4. next \in Writing /\ next \in WriteAts \ {"clock"}
    BY WriterAts
  <2>5. MutexKept(c, writer, writer') /\ writer' = c
    BY <2>1, <2>3, WriterFacts, MutexBy
  <2>6. Kept
    BY <2>1, <2>3, WriterFacts
  <2>7. job[c] \in JobType /\ Set(c, job[c]) /\ HourSecs <= job[c].time
    BY <2>1, <2>3, WriterFacts
  <2> QED
    BY <2>1, <2>2, <2>3, <2>4, <2>5, <2>6, <2>7, WriterMoved
<1> QED
  BY <1>1, <1>2, <1>3

(* The position that goes into the index is kept among the locals.           *)
LEMMA TellFacts ==
  ASSUME TypeInv, NEW c \in Callers, TellEntry(c)
  PROVE  /\ at[c] = "entryTell" /\ at[c] \in Writing /\ Goto(c, "entryPosition") /\ writer = c
         /\ Set(c, WithSeek(job[c], PositionOf(data)))
         /\ UNCHANGED <<now, data, index, info, writer, reader, answer, history, calls>>
         /\ WithSeek(job[c], PositionOf(data)) \in JobType
         /\ SameCall(WithSeek(job[c], PositionOf(data)), job[c])
         /\ job'[c].time = job[c].time /\ job'[c].seek = PositionOf(data)
<1> DEFINE j == WithSeek(job[c], PositionOf(data))
<1>1. /\ at[c] = "entryTell" /\ Set(c, j) /\ Goto(c, "entryPosition")
      /\ UNCHANGED <<now, data, index, info, writer, reader, answer, history, calls>>
  BY DEF TellEntry
<1>2. at[c] \in Writing /\ at[c] \in WriteAts
  BY <1>1, WriterAts
<1>3. PositionOf(data) \in Int
  BY PositionFacts DEF TypeInv, SharedTypeOK
<1>4. writer = c /\ job[c] \in JobType
  BY <1>2, WriterFacts
<1>5. j \in JobType /\ SameCall(j, job[c])
  BY <1>3, <1>4, JobsMade
<1>6. j.time = job[c].time /\ j.seek = PositionOf(data)
  BY DEF WithSeek, Job
<1> HIDE DEF j
<1>7. job'[c] = j
  BY <1>1 DEF TypeInv, Set
<1> QED
  BY <1>1, <1>2, <1>4, <1>5, <1>6, <1>7 DEF j

LEMMA TellTyped ==
  ASSUME TypeInv, NEW c \in Callers, TellEntry(c)
  PROVE  TypeInv'
<1> DEFINE j == WithSeek(job[c], PositionOf(data))
<1>1. /\ at[c] = "entryTell" /\ at[c] \in Writing /\ Goto(c, "entryPosition") /\ writer = c
      /\ Set(c, j) /\ UNCHANGED <<now, data, index, info, writer, reader, answer, history, calls>>
      /\ j \in JobType /\ SameCall(j, job[c])
  BY TellFacts
<1>2. at[c] \in WriteAts /\ "entryPosition" \in Writing /\ "entryPosition" \in WriteAts \ {"clock"}
  BY <1>1, WriterAts
<1>3. MutexKept(c, writer, writer')
  BY <1>1, <1>2, WriterFacts, MutexBy
<1>4. j.time = job[c].time /\ HourSecs <= job[c].time
  BY <1>1, <1>2, WriterFacts DEF WithSeek, Job
<1> HIDE DEF j
<1>5. /\ data' \in StreamOf(Cell) /\ index' \in StreamOf(IndexCell) /\ info' \in InfoType
      /\ history' \in Seq(ValueType) /\ Len(history) <= Len(history')
      /\ answer' \in AnswerType /\ answer'.seen <= Len(history')
  BY <1>1, <1>2, WriterFacts
<1>6. j.op = job[c].op /\ j.seen = job[c].seen
  BY <1>1 DEF SameCall
<1> QED
  BY <1>1, <1>2, <1>3, <1>4, <1>5, <1>6, WriterMoved

(* Under the mutex.                                                          *)
LEMMA LockedTyped ==
  ASSUME TypeInv, NEW c \in Callers,
         WriteEndLine(c) \/ WriteEntryHour(c) \/ WriteEntryPosition(c) \/ WriteHour(c) \/ WriteValue(c)
  PROVE  TypeInv'
<1> DEFINE time == job[c].time
           hour == FromTimeT(time)
<1>1. /\ at[c] \in Writing /\ UNCHANGED <<now, reader, job, calls>>
  BY WriterAts DEF WriteEndLine, WriteEntryHour, WriteEntryPosition, WriteHour, WriteValue
<1>2. at[c] \in WriteAts /\ at[c] # "clock" /\ writer = c
  BY <1>1, WriterAts, WriterFacts
<1>3. MutexKept(c, writer, writer) /\ MutexKept(c, writer, None) /\ c # None
  BY <1>2, WriterFacts, MutexBy
<1>4. time \in Nat /\ job[c].value \in Nat /\ data \in StreamOf(Cell) /\ index \in StreamOf(IndexCell)
  BY <1>2, WriterFacts
<1>5. /\ info.startHour \in Nat /\ info.minHour \in Nat /\ info.maxHour \in Nat
      /\ info.maxOffset \in Nat /\ info.indexSize \in Nat /\ info.indexSize + 1 \in Nat
  BY InfoTyped
<1>6. /\ job[c] \in JobType /\ Set(c, job[c]) /\ HourSecs <= time
      /\ history \in Seq(ValueType) /\ Len(history) \in Nat /\ job[c].seen <= Len(history)
      /\ answer \in AnswerType /\ answer.seen <= Len(history)
  BY <1>1, <1>2, WriterFacts
<1>7. ASSUME NEW next \in Writing, Goto(c, next), UNCHANGED <<writer, answer, history>>,
             data' \in StreamOf(Cell), index' \in StreamOf(IndexCell), info' \in InfoType
      PROVE  TypeInv'
  <2>1. next \in WriteAts \ {"clock"}
    BY WriterAts
  <2>2. MutexKept(c, writer, writer') /\ writer' = c
    BY <1>2, <1>3, <1>7
  <2>3. /\ history' \in Seq(ValueType) /\ Len(history) <= Len(history')
        /\ answer' \in AnswerType /\ answer'.seen <= Len(history')
    BY <1>6, <1>7
  <2> QED
    BY <1>1, <1>2, <1>6, <1>7, <2>1, <2>2, <2>3, WriterMoved
<1>8. CASE WriteEndLine(c)
  <2>1. /\ data' = WriteTo(data, EndLine) /\ Goto(c, "entryHour")
        /\ UNCHANGED <<index, info, writer, answer, history>>
    BY <1>8 DEF WriteEndLine
  <2>2. data' \in StreamOf(Cell)
    BY <1>4, <2>1, CellsWritten, WriteToFacts
  <2> QED
    BY <1>2, <1>4, <1>7, <2>1, <2>2, WriterAts, WriterFacts
<1>9. CASE WriteEntryHour(c)
  <2>1. /\ info' = FilesInfo(ToTimeT(hour, 0), info.minHour, info.maxHour, info.maxOffset, info.indexSize)
        /\ index' = WriteTo(index, HourCell(hour)) /\ Goto(c, "entryTell")
        /\ UNCHANGED <<data, writer, answer, history>>
    BY <1>9 DEF WriteEntryHour
  <2>2. HourCell(hour) \in IndexCell /\ ToTimeT(hour, 0) \in Nat
    BY <1>4, WriteMakes
  <2>3. index' \in StreamOf(IndexCell)
    BY <1>4, <2>1, <2>2, WriteToFacts
  <2>4. info' \in InfoType
    BY <1>4, <1>5, <2>1, <2>2, WriteMakes
  <2> QED
    BY <1>4, <1>7, <2>1, <2>3, <2>4, WriterAts
<1>10. CASE WriteEntryPosition(c)
  <2>1. /\ index' = WriteTo(index, PositionCell(job[c].seek)) /\ Goto(c, "hour")
        /\ info' = FilesInfo(info.startHour, info.minHour, info.maxHour, info.maxOffset,
                             info.indexSize + 1)
        /\ UNCHANGED <<data, writer, answer, history>>
    BY <1>10 DEF WriteEntryPosition
  <2>2. PositionCell(job[c].seek) \in IndexCell
    BY <1>4, <1>6, JobFields, WriteMakes
  <2>3. index' \in StreamOf(IndexCell)
    BY <1>4, <2>1, <2>2, WriteToFacts
  <2>4. info' \in InfoType
    BY <1>4, <1>5, <2>1, WriteMakes
  <2> QED
    BY <1>4, <1>7, <2>1, <2>3, <2>4, WriterAts
<1>11. CASE WriteHour(c)
  <2> DEFINE lowest == IF info.minHour = 0 THEN hour ELSE info.minHour
  <2>1. /\ data' = WriteTo(data, HourCell(hour)) /\ Goto(c, "value")
        /\ info' = FilesInfo(info.startHour, lowest, hour, info.maxOffset, info.indexSize)
        /\ UNCHANGED <<index, writer, answer, history>>
    BY <1>11 DEF WriteHour
  <2>2. HourCell(hour) \in Cell /\ hour \in Nat /\ lowest \in Nat
    BY <1>4, <1>5, WriteMakes
  <2>3. data' \in StreamOf(Cell)
    BY <1>4, <2>1, <2>2, WriteToFacts
  <2>4. info' \in InfoType
    BY <1>4, <1>5, <2>1, <2>2, WriteMakes
  <2> QED
    BY <1>4, <1>7, <2>1, <2>3, <2>4, WriterAts
<1>12. CASE WriteValue(c)
  <2> DEFINE off == OffsetOf(time)
             v   == [time |-> time, value |-> job[c].value]
  <2>1. /\ data' = WriteTo(data, ValueCell(off, job[c].value)) /\ index' = index
        /\ \/ UNCHANGED <<info, history>>
           \/ /\ info' = FilesInfo(info.startHour, info.minHour, info.maxHour, off, info.indexSize)
              /\ history' = Append(history, v)
        /\ writer' = None /\ Return(c, ~data.bad)
    BY <1>12 DEF WriteValue, Released
  <2>2. off \in Nat /\ ValueCell(off, job[c].value) \in Cell
    BY <1>4, WriteMakes, CellsWritten
  <2>3. data' \in StreamOf(Cell)
    BY <1>4, <2>1, <2>2, WriteToFacts
  <2>4. info' \in InfoType
    <3>1. info \in InfoType
      BY <1>2, WriterFacts
    <3>2. FilesInfo(info.startHour, info.minHour, info.maxHour, off, info.indexSize) \in InfoType
      BY <1>4, <1>5, <2>2, WriteMakes
    <3> QED
      BY <2>1, <3>1, <3>2
  <2>5. v \in ValueType /\ history \in Seq(ValueType) /\ Len(history) \in Nat
    BY <1>2, <1>4, WriterFacts DEF ValueType
  <2> HIDE DEF v
  <2>6. history' \in Seq(ValueType) /\ Len(history) <= Len(history') /\ Len(history') \in Nat
    BY <2>1, <2>5
  <2>7. Goto(c, "idle") /\ answer' \in AnswerType /\ answer'.seen = job[c].seen
    BY <1>2, <2>1, WriterFacts, ReturnAnswers
  <2>8. answer'.seen <= Len(history')
    <3>1. job[c].seen \in Nat
      BY <1>6, JobFields
    <3> QED
      BY <1>6, <2>6, <2>7, <3>1
  <2>9. MutexKept(c, writer, writer') /\ writer' # c /\ "idle" \notin Writing
    BY <1>3, <2>1, WriterAts
  <2>10. index' \in StreamOf(IndexCell)
    BY <1>4, <2>1
  <2> QED
    BY <1>1, <1>2, <1>6, <2>3, <2>4, <2>6, <2>7, <2>8, <2>9, <2>10, WriterMoved
<1> QED
  BY <1>8, <1>9, <1>10, <1>11, <1>12

LEMMA NothingTyped == NoJob \in JobType /\ NoJob.seen = 0 /\ NoAnswer \in AnswerType /\ NoAnswer.seen = 0
<1>1. <<>> \in Seq(ValueType)
  OBVIOUS
<1> QED
  BY <1>1 DEF NoJob, Job, NoAnswer, JobType, AnswerType, Ops

(* A call begins: its locals, and those of the calls that run beside it.     *)
LEMMA BeginFacts ==
  ASSUME TypeInv, NEW c \in Callers, Begin(c)
  PROVE  \E op \in WriteOps \union ReadOps, argument \in Nat :
           /\ job'[c] = Job(op, argument, FirstNumber + WritesBegun, 0, <<>>, Len(history),
                            \A d \in Callers \ {c} : at[d] = "idle")
           /\ \A d \in Callers \ {c} :
                job'[d] = IF at[d] = "idle" THEN NoJob ELSE NotAlone(job[d])
           /\ job'[c] \in JobType /\ job' \in [Callers -> JobType]
           /\ op = "WriteTimeValue" => HourSecs <= argument
           /\ at[c] = "idle" /\ Goto(c, FirstStep(op)) /\ WritesBegun + ReadsBegun < MaxCalls
           /\ calls' = [calls EXCEPT ![op] = @ + 1] /\ answer' = NoAnswer
           /\ UNCHANGED <<now, data, index, info, writer, reader, history>>
<1> DEFINE others == \A d \in Callers \ {c} : at[d] = "idle"
           Mine(op, argument) ==
             Job(op, argument, FirstNumber + WritesBegun, 0, <<>>, Len(history), others)
           Other(d) == IF at[d] = "idle" THEN NoJob ELSE NotAlone(job[d])
<1>1. PICK op \in WriteOps \union ReadOps : \E argument \in Arguments(op) :
        /\ job' = [d \in Callers |-> IF d = c THEN Mine(op, argument) ELSE Other(d)]
        /\ Goto(c, FirstStep(op))
        /\ calls' = [calls EXCEPT ![op] = @ + 1]
  BY DEF Begin
<1>2. PICK argument \in Arguments(op) :
        job' = [d \in Callers |-> IF d = c THEN Mine(op, argument) ELSE Other(d)]
  BY <1>1
<1>3. argument \in Nat /\ (op = "WriteTimeValue" => HourSecs <= argument)
  BY <1>2, SharedAssumption, DatesAssumption DEF Arguments
<1>4. WritesBegun \in Nat
  BY SharedAssumption DEF TypeInv, SharedTypeOK, WritesBegun, WriteOps
<1>5. Mine(op, argument) \in JobType
  <2>1. others \in BOOLEAN /\ Len(history) \in Nat /\ FirstNumber + WritesBegun \in Nat
    BY <1>4, StartsAssumption DEF TypeInv
  <2>2. <<>> \in Seq(ValueType) /\ op \in Ops
    BY DEF Ops
  <2> HIDE DEF others
  <2> QED
    BY <1>3, <2>1, <2>2 DEF Job, JobType
<1>6. \A d \in Callers : Other(d) \in JobType
  BY JobsKept, JobsMade, NothingTyped
<1> HIDE DEF Mine, Other
<1>7. job' \in [Callers -> JobType] /\ job'[c] = Mine(op, argument)
      /\ \A d \in Callers \ {c} : job'[d] = Other(d)
  BY <1>2, <1>5, <1>6
<1>8. /\ at[c] = "idle" /\ WritesBegun + ReadsBegun < MaxCalls
      /\ answer' = NoAnswer /\ UNCHANGED <<now, data, index, info, writer, reader, history>>
  BY DEF Begin
<1> QED
  BY <1>1, <1>3, <1>5, <1>7, <1>8 DEF Mine, Other

LEMMA OthersBeside ==
  ASSUME TypeInv, NEW c \in Callers, Begin(c), NEW d \in Callers \ {c}
  PROVE  /\ at'[d] = at[d] /\ (at[d] = "idle" => job'[d] = NoJob)
         /\ at[d] # "idle" =>
              /\ job'[d].op = job[d].op /\ job'[d].time = job[d].time /\ job'[d].seek = job[d].seek
              /\ job'[d].value = job[d].value /\ job'[d].seen = job[d].seen /\ ~job'[d].alone
<1>1. PICK op \in WriteOps \union ReadOps :
        /\ job'[d] = IF at[d] = "idle" THEN NoJob ELSE NotAlone(job[d])
        /\ Goto(c, FirstStep(op))
  BY BeginFacts
<1>2. at'[d] = at[d]
  BY <1>1 DEF TypeInv, SharedTypeOK, Goto
<1>3. job[d] \in JobType
  BY JobsKept
<1>4. /\ NotAlone(job[d]).op = job[d].op /\ NotAlone(job[d]).value = job[d].value
      /\ NotAlone(job[d]).seen = job[d].seen /\ NotAlone(job[d]).time = job[d].time
      /\ NotAlone(job[d]).seek = job[d].seek /\ NotAlone(job[d]).alone = FALSE
  BY <1>3, JobsMade
<1> QED
  BY <1>1, <1>2, <1>4

LEMMA CallsCounted ==
  ASSUME TypeInv
  PROVE  /\ WritesBegun \in Nat /\ ReadsBegun \in Nat /\ MaxCalls \in Nat
         /\ \A op \in WriteOps \union ReadOps :
              /\ calls[op] \in Nat
              /\ op \in WriteOps => calls[op] <= WritesBegun
              /\ op \in ReadOps => calls[op] <= ReadsBegun
  BY SharedAssumption DEF TypeInv, SharedTypeOK, WritesBegun, ReadsBegun, WriteOps, ReadOps

LEMMA BeginTyped ==
  ASSUME TypeInv, NEW c \in Callers, Begin(c)
  PROVE  TypeInv'
<1>1. PICK op \in WriteOps \union ReadOps, argument \in Nat :
        /\ job'[c] = Job(op, argument, FirstNumber + WritesBegun, 0, <<>>, Len(history),
                         \A d \in Callers \ {c} : at[d] = "idle")
        /\ \A d \in Callers \ {c} :
             job'[d] = IF at[d] = "idle" THEN NoJob ELSE NotAlone(job[d])
        /\ job'[c] \in JobType /\ job' \in [Callers -> JobType]
        /\ op = "WriteTimeValue" => HourSecs <= argument
        /\ at[c] = "idle" /\ Goto(c, FirstStep(op)) /\ WritesBegun + ReadsBegun < MaxCalls
        /\ calls' = [calls EXCEPT ![op] = @ + 1] /\ answer' = NoAnswer
        /\ UNCHANGED <<now, data, index, info, writer, reader, history>>
  BY BeginFacts
<1>2. job'[c].op = op /\ job'[c].time = argument /\ job'[c].seen = Len(history)
  BY <1>1 DEF Job
<1>3. /\ FirstStep(op) \in Ats \ (Writing \union Reading)
      /\ FirstStep(op) \in WriteAts => op \in WriteOps
      /\ FirstStep(op) \in ReadAts => op \in ReadOps
      /\ FirstStep(op) \in WriteAts \ {"clock"} => op = "WriteTimeValue"
  <2>1. op \in {"WriteValue", "WriteTimeValue"} \/ op \in {"ReadHour", "ReadLastValue"}
    BY DEF WriteOps, ReadOps
  <2> QED
    BY <2>1 DEF FirstStep, Ats, WriteAts, ReadAts, Writing, Reading, WriteOps, ReadOps
<1>4. at \in [Callers -> Ats] /\ calls \in [WriteOps \union ReadOps -> 0 .. MaxCalls]
  BY DEF TypeInv, SharedTypeOK
<1>5. /\ at' \in [Callers -> Ats] /\ at'[c] = FirstStep(op)
      /\ \A d \in Callers \ {c} : at'[d] = at[d]
  BY <1>1, <1>3, <1>4 DEF Goto
<1>6. calls' \in [WriteOps \union ReadOps -> 0 .. MaxCalls]
  <2>1. calls[op] \in Nat /\ calls[op] < MaxCalls
    BY <1>1, CallsCounted
  <2>2. calls[op] + 1 \in 0 .. MaxCalls
    BY <2>1, CallsCounted
  <2> QED
    BY <1>1, <1>4, <2>2
<1>7. ASSUME NEW d \in Callers
      PROVE  /\ job'[d].seen <= Len(history')
             /\ at'[d] \in WriteAts => job'[d].op \in WriteOps
             /\ at'[d] \in ReadAts => job'[d].op \in ReadOps
             /\ at'[d] \in WriteAts \ {"clock"} => HourSecs <= job'[d].time
             /\ (at'[d] \in Writing <=> writer' = d) /\ (at'[d] \in Reading <=> reader' = d)
  <2>1. Len(history) \in Nat /\ Len(history') = Len(history)
    BY <1>1 DEF TypeInv
  <2>2. CASE d = c
    <3>1. writer # c /\ reader # c /\ writer' = writer /\ reader' = reader
      BY <1>1 DEF TypeInv, SharedTypeOK, Writing, Reading
    <3>2. at'[d] = FirstStep(op) /\ at'[d] \notin Writing /\ at'[d] \notin Reading
      BY <1>3, <1>5, <2>2
    <3>3. job'[d].op = op /\ job'[d].time = argument /\ job'[d].seen = Len(history)
      BY <1>2, <2>2
    <3>4. op = "WriteTimeValue" => HourSecs <= argument
      BY <1>1
    <3> HIDE DEF FirstStep
    <3> QED
      BY <1>3, <2>1, <2>2, <3>1, <3>2, <3>3, <3>4
  <2>3. CASE d # c
    <3>1. at'[d] = at[d] /\ writer' = writer /\ reader' = reader
      BY <1>1, <1>5, <2>3
    <3>2. (at[d] \in Writing <=> writer = d) /\ (at[d] \in Reading <=> reader = d)
      BY DEF TypeInv, SharedTypeOK
    <3>3. CASE at[d] = "idle"
      <4>1. job'[d] = NoJob
        BY <1>1, <2>3, <3>3
      <4> QED
        BY <2>1, <3>1, <3>2, <3>3, <4>1, NothingTyped, WriterAts, AtsSplit DEF ReadAts, Reading
    <3>4. CASE at[d] # "idle"
      <4>1. job'[d] = NotAlone(job[d]) /\ job[d] \in JobType
        BY <1>1, <2>3, <3>4, JobsKept
      <4>2. job'[d].op = job[d].op /\ job'[d].time = job[d].time /\ job'[d].seen = job[d].seen
        BY <4>1, JobsMade
      <4> QED
        BY <2>1, <3>1, <3>2, <4>2 DEF TypeInv
    <3> QED
      BY <3>3, <3>4
  <2> QED
    BY <2>2, <2>3
<1>8. SharedTypeOK'
  BY <1>1, <1>5, <1>6, <1>7 DEF TypeInv, SharedTypeOK
<1>9. answer' \in AnswerType /\ answer'.seen <= Len(history')
  BY <1>1, NothingTyped DEF TypeInv
<1> QED
  BY <1>1, <1>7, <1>8, <1>9 DEF TypeInv

LEMMA TickTyped == TypeInv /\ Tick => TypeInv'
<1> SUFFICES ASSUME TypeInv, Tick PROVE TypeInv'
  OBVIOUS
<1>1. /\ now' = now + 1
      /\ UNCHANGED <<data, index, info, writer, reader, at, job, answer, history, calls>>
  BY DEF Tick
<1>2. now' \in Nat /\ HourSecs <= now'
  BY <1>1, HourSecsAssumption DEF TypeInv, SharedTypeOK
<1> QED
  BY <1>1, <1>2 DEF TypeInv, SharedTypeOK

(* The files and FilesInfo at the start.                                     *)
LEMMA InitFiles ==
  ASSUME NEW blocks \in Starts,
         data = FileAtEnd(DataCells(blocks, Len(blocks))), index = FileAtEnd(IndexCells(blocks))
  PROVE  /\ data \in StreamOf(Cell) /\ ~data.bad /\ AtEnd(data.file)
         /\ Contents(data.file) = DataCells(blocks, Len(blocks))
         /\ index \in StreamOf(IndexCell) /\ ~index.bad /\ AtEnd(index.file)
         /\ Contents(index.file) = IndexFront(blocks, Len(blocks))
<1>1. ASSUME NEW C, NEW cells \in Seq(C), NEW s, s = FileAtEnd(cells)
      PROVE  s \in StreamOf(C) /\ ~s.bad /\ AtEnd(s.file) /\ Contents(s.file) = cells
  <2> DEFINE f == Stream("present", cells, <<>>, Len(cells))
  <2>1. Len(cells) \in Nat
    BY <1>1
  <2>2. f \in StreamType(C) /\ Contents(f) = cells /\ AtEnd(f)
    BY <1>1, <2>1, FlushedFacts
  <2>3. s = Good(f)
    BY <1>1 DEF FileAtEnd
  <2> HIDE DEF f
  <2> QED
    BY <2>2, <2>3, GoodOrFailed
<1>2. Len(blocks) \in 0 .. Len(blocks)
  BY StartsAssumption
<1>3. DataCells(blocks, Len(blocks)) \in Seq(Cell) /\ IndexFront(blocks, Len(blocks)) \in Seq(IndexCell)
      /\ IndexCells(blocks) = IndexFront(blocks, Len(blocks))
  BY <1>2, DataGrows, IndexGrows
<1> QED
  BY <1>1, <1>3

LEMMA InitInfo ==
  ASSUME NEW blocks \in Starts, Len(blocks) > 0
  PROVE  LET block == blocks[Len(blocks)]
             hour  == BlockHour(block)
         IN  /\ InfoBefore(blocks) = FilesInfo(ToTimeT(hour, 0), BlockHour(blocks[1]), hour,
                                               OffsetIn(hour, block[Len(block)]), Len(blocks))
             /\ InfoBefore(blocks) \in InfoType /\ hour \in Nat \ {0}
<1> DEFINE N     == Len(blocks)
           block == blocks[N]
           hour  == BlockHour(block)
           off   == OffsetIn(hour, block[Len(block)])
           low   == BlockHour(blocks[1])
<1>1. N \in Nat /\ N \in 1 .. N /\ 1 \in 1 .. N /\ blocks # <<>>
  BY StartsAssumption
<1>2. Head(blocks) = blocks[1] /\ Last(blocks) = block
  BY <1>1 DEF Last
<1>3. /\ Len(block) \in Nat \ {0} /\ hour \in Nat \ {0} /\ low \in Nat \ {0}
      /\ off \in 0 .. HourSecs - 1
  <2>1. Len(block) \in Nat \ {0} /\ hour \in Nat \ {0} /\ low \in Nat \ {0}
    BY <1>1, BlockFacts
  <2>2. Len(block) \in 1 .. Len(block)
    BY <2>1
  <2>3. off \in 0 .. HourSecs - 1
    BY <1>1, <2>2, BlockFacts
  <2> QED
    BY <2>1, <2>3
<1>4. InfoBefore(blocks) = FilesInfo(ToTimeT(hour, 0), low, hour, off, N)
  <2> DEFINE made(first, last) == FilesInfo(ToTimeT(BlockHour(last), 0), BlockHour(first), BlockHour(last),
                                            OffsetIn(BlockHour(last), Last(last)), N)
  <2>1. InfoBefore(blocks) = made(Head(blocks), Last(blocks))
    BY <1>1 DEF InfoBefore
  <2>2. Last(block) = block[Len(block)]
    BY DEF Last
  <2> QED
    BY <1>2, <2>1, <2>2
<1>5. ToTimeT(hour, 0) \in Nat /\ off \in Nat
  BY <1>3, HourSecsAssumption DEF ToTimeT
<1> HIDE DEF N, block, hour, off, low
<1>6. FilesInfo(ToTimeT(hour, 0), low, hour, off, N) \in InfoType
  BY <1>1, <1>3, <1>5 DEF FilesInfo, InfoType
<1> QED
  BY <1>3, <1>4, <1>6 DEF N, block, hour, off, low

(* The values at the start: those of the blocks, numbered from 1.            *)
LEMMA InitHistory ==
  ASSUME NEW blocks \in Starts
  PROVE  LET times == FlattenSeq(blocks)
             h     == [k \in 1 .. Len(times) |-> [time |-> times[k], value |-> k]]
         IN  /\ h \in Seq(ValueType) /\ Len(h) = Len(times) /\ Len(times) \in Nat
             /\ \A k \in 1 .. Len(times) : h[k] = [time |-> times[k], value |-> k]
<1> DEFINE times == FlattenSeq(blocks)
           Made(k) == [time |-> times[k], value |-> k]
           h == [k \in 1 .. Len(times) |-> Made(k)]
<1>1. times \in Seq(Nat) /\ Len(times) \in Nat
  <2>1. Len(blocks) \in Nat
    BY StartsAssumption
  <2>2. blocks \in Seq(Seq(Nat))
    <3>1. CASE Len(blocks) = 0
      BY <3>1, StartsAssumption
    <3>2. CASE Len(blocks) # 0
      BY <2>1, <3>2, BlockFacts
    <3> QED
      BY <3>1, <3>2
  <2>3. times \in Seq(Nat)
    BY <2>1, <2>2, FlattenFacts
  <2> QED
    BY <2>3
<1> HIDE DEF times
<1>2. \A k \in 1 .. Len(times) : Made(k) \in ValueType
  BY <1>1 DEF ValueType
<1> HIDE DEF Made
<1>3. h \in Seq(ValueType) /\ Len(h) = Len(times) /\ \A k \in 1 .. Len(times) : h[k] = Made(k)
  BY <1>1, <1>2
<1> QED
  BY <1>1, <1>3 DEF Made, times

LEMMA InitTyped == Init => TypeInv
<1> SUFFICES ASSUME Init PROVE TypeInv
  OBVIOUS
<1>1. PICK blocks \in Starts :
        LET times == FlattenSeq(blocks)
        IN  /\ data = FileAtEnd(DataCells(blocks, Len(blocks))) /\ index = FileAtEnd(IndexCells(blocks))
            /\ info = InfoBefore(blocks)
            /\ history = [k \in 1 .. Len(times) |-> [time |-> times[k], value |-> k]]
  BY DEF Init
<1>2. history \in Seq(ValueType) /\ Len(history) \in Nat
  BY <1>1, InitHistory
<1>3. data \in StreamOf(Cell) /\ index \in StreamOf(IndexCell)
  BY <1>1, InitFiles
<1>4. info \in InfoType
  <2>1. CASE Len(blocks) > 0
    BY <1>1, <2>1, InitInfo
  <2>2. CASE ~(Len(blocks) > 0)
    <3>1. blocks = <<>>
      BY <2>2, StartsAssumption
    <3>2. info = FilesInfo(0, 0, 0, 0, 0)
      BY <1>1, <3>1 DEF InfoBefore
    <3> QED
      BY <3>2 DEF FilesInfo, InfoType
  <2> QED
    BY <2>1, <2>2
<1>5. now \in Nat /\ HourSecs <= now
  BY StartsAssumption, HourSecsAssumption, SharedAssumption DEF Init
<1>6. /\ writer = None /\ reader = None /\ answer = NoAnswer
      /\ at = [c \in Callers |-> "idle"] /\ job = [c \in Callers |-> NoJob]
      /\ calls = [op \in WriteOps \union ReadOps |-> 0]
  BY DEF Init
<1>7. /\ at \in [Callers -> Ats] /\ job \in [Callers -> JobType]
      /\ calls \in [WriteOps \union ReadOps -> 0 .. MaxCalls]
      /\ \A c \in Callers : at[c] = "idle" /\ job[c] = NoJob
  BY <1>6, NothingTyped, WriterAts, SharedAssumption
<1>8. SharedTypeOK
  <2>1. \A c \in Callers : (at[c] \in Writing <=> writer = c) /\ (at[c] \in Reading <=> reader = c)
    BY <1>6, <1>7, CallersAssumption DEF Writing, Reading
  <2> QED
    BY <1>3, <1>4, <1>5, <1>6, <1>7, <2>1 DEF SharedTypeOK, InfoType
<1>9. "idle" \notin WriteAts /\ "idle" \notin ReadAts
  BY DEF WriteAts, ReadAts, Writing, Reading
<1> QED
  BY <1>2, <1>5, <1>6, <1>7, <1>8, <1>9, NothingTyped DEF TypeInv

LEMMA TypeStep == TypeInv /\ [Next]_vars => TypeInv'
<1> SUFFICES ASSUME TypeInv, [Next]_vars PROVE TypeInv'
  OBVIOUS
<1>1. CASE Tick
  BY <1>1, TickTyped
<1>2. CASE \E c \in Callers : Begin(c)
  BY <1>2, BeginTyped
<1>3. CASE \E c \in Callers : WriteStep(c)
  BY <1>3, UnlockedTyped, TellTyped, LockedTyped DEF WriteStep
<1>4. CASE \E c \in Callers : ReadStep(c)
  BY <1>4, ReadsHaveEffect, ReadTyped
<1>5. CASE UNCHANGED vars
  BY <1>5 DEF vars, TypeInv, SharedTypeOK
<1> QED
  BY <1>1, <1>2, <1>3, <1>4, <1>5 DEF Next

(* Whatever the callers do to each other, the streams, FilesInfo and the     *)
(* mutexes keep their types, and a caller inside the body of a write or of a *)
(* read is alone in it.                                                      *)
THEOREM MutexesHold == Spec => []SharedTypeOK
<1>1. Spec => []TypeInv
  BY InitTyped, TypeStep, PTL DEF Spec
<1>2. TypeInv => SharedTypeOK
  BY DEF TypeInv
<1> QED
  BY <1>1, <1>2, PTL

-----------------------------------------------------------------------------
(* Every accepted value is written, once and in order.                       *)

(* No two writes carry the same number.                                      *)
NumberInv ==
  /\ \A k \in 1 .. Len(history) : history[k].value < FirstNumber + WritesBegun
  /\ \A k, l \in 1 .. Len(history) : history[k].value = history[l].value => k = l
  /\ \A c \in Callers : at[c] \in WriteAts =>
       /\ job[c].value < FirstNumber + WritesBegun
       /\ \A k \in 1 .. Len(history) : history[k].value # job[c].value
  /\ \A c, d \in Callers :
       at[c] \in WriteAts /\ at[d] \in WriteAts /\ job[c].value = job[d].value => c = d

(* The values of a log are those of a history, in its order.                 *)
Matches(c, h) ==
  /\ \A i \in 1 .. Len(c) : IsValue(c, i) => \E k \in 1 .. Len(h) : h[k].value = c[i].value
  /\ \A k \in 1 .. Len(h) : \E i \in 1 .. Len(c) : IsValue(c, i) /\ c[i].value = h[k].value
  /\ \A i, j \in 1 .. Len(c), k, l \in 1 .. Len(h) :
       /\ IsValue(c, i) /\ IsValue(c, j)
       /\ c[i].value = h[k].value /\ c[j].value = h[l].value
       => (i < j <=> k < l)

LEMMA WrittenMatches ==
  ASSUME Len(Log) \in Nat
  PROVE  TrueMeansWritten <=> Matches(Log, history)
<1> DEFINE c == Log
           h == history
           R == Within(c, 0, Len(c) + 1)
<1>1. \A i : i \in R <=> i \in 1 .. Len(c) /\ IsValue(c, i)
  BY DEF Within
<1>2. TrueMeansWritten <=>
        /\ {c[i].value : i \in R} = {h[k].value : k \in 1 .. Len(h)}
        /\ \A i \in R, k \in 1 .. Len(h) : c[i].value = h[k].value =>
             \A j \in R, l \in 1 .. Len(h) : c[j].value = h[l].value => (i < j <=> k < l)
  BY DEF TrueMeansWritten
<1> HIDE DEF c, h, R
<1> DEFINE A == {c[i].value : i \in R}
           B == {h[k].value : k \in 1 .. Len(h)}
<1>3. A = B <=>
        /\ \A i \in R : \E k \in 1 .. Len(h) : h[k].value = c[i].value
        /\ \A k \in 1 .. Len(h) : \E i \in R : c[i].value = h[k].value
  <2>1. (\A i \in R : \E k \in 1 .. Len(h) : h[k].value = c[i].value) <=> A \subseteq B
    OBVIOUS
  <2>2. (\A k \in 1 .. Len(h) : \E i \in R : c[i].value = h[k].value) <=> B \subseteq A
    OBVIOUS
  <2> HIDE DEF A, B
  <2> QED
    BY <2>1, <2>2
<1>4. Matches(c, h) <=>
        /\ \A i \in R : \E k \in 1 .. Len(h) : h[k].value = c[i].value
        /\ \A k \in 1 .. Len(h) : \E i \in R : c[i].value = h[k].value
        /\ \A i \in R, k \in 1 .. Len(h) : c[i].value = h[k].value =>
             \A j \in R, l \in 1 .. Len(h) : c[j].value = h[l].value => (i < j <=> k < l)
  BY <1>1 DEF Matches
<1> QED
  BY <1>2, <1>3, <1>4 DEF c, h

LEMMA MatchStays ==
  ASSUME NEW c \in Seq(Cell), NEW h, Matches(c, h), NEW cell \in Cell, cell.kind # "value"
  PROVE  Matches(Append(c, cell), h)
<1> DEFINE x == Append(c, cell)
<1>1. /\ Len(x) = Len(c) + 1 /\ Len(c) \in Nat /\ x[Len(c) + 1] = cell
      /\ \A i \in 1 .. Len(c) : x[i] = c[i]
  BY Appended
<1> HIDE DEF x
<1>2. ASSUME NEW i PROVE (i \in 1 .. Len(x) /\ IsValue(x, i)) <=> (i \in 1 .. Len(c) /\ IsValue(c, i))
  BY <1>1 DEF IsValue
<1>3. \A i \in 1 .. Len(x) : IsValue(x, i) => \E k \in 1 .. Len(h) : h[k].value = x[i].value
  BY <1>1, <1>2 DEF Matches
<1>4. \A k \in 1 .. Len(h) : \E i \in 1 .. Len(x) : IsValue(x, i) /\ x[i].value = h[k].value
  BY <1>1, <1>2 DEF Matches
<1>5. \A i, j \in 1 .. Len(x), k, l \in 1 .. Len(h) :
        /\ IsValue(x, i) /\ IsValue(x, j)
        /\ x[i].value = h[k].value /\ x[j].value = h[l].value
        => (i < j <=> k < l)
  BY ZenonT(60), <1>1, <1>2 DEF Matches
<1>6. Matches(x, h)
  BY <1>3, <1>4, <1>5 DEF Matches
<1> QED
  BY <1>6 DEF x

LEMMA MatchGrows ==
  ASSUME NEW c \in Seq(Cell), NEW h \in Seq(ValueType), Matches(c, h),
         NEW cell \in Cell, cell.kind = "value", NEW v \in ValueType, cell.value = v.value,
         \A k \in 1 .. Len(h) : h[k].value # v.value
  PROVE  Matches(Append(c, cell), Append(h, v))
<1> DEFINE x == Append(c, cell)
           g == Append(h, v)
           m == Len(c) + 1
           n == Len(h) + 1
<1>1. Len(x) = m /\ m \in Nat \ {0} /\ x[m] = cell /\ \A i \in 1 .. m - 1 : x[i] = c[i]
  BY Appended
<1>2. Len(g) = n /\ n \in Nat \ {0} /\ g[n] = v /\ \A k \in 1 .. n - 1 : g[k] = h[k]
  BY Appended
<1>3. Len(c) = m - 1 /\ Len(h) = n - 1
  OBVIOUS
<1> HIDE DEF x, g, m, n
<1>4. IsValue(x, m) /\ x[m].value = v.value /\ g[n].value = v.value
  BY <1>1, <1>2 DEF IsValue
<1>5. ASSUME NEW i \in 1 .. m - 1, IsValue(x, i)
      PROVE  IsValue(c, i) /\ x[i] = c[i] /\ x[i].value # v.value
             /\ \E k \in 1 .. n - 1 : g[k].value = x[i].value
  <2>1. IsValue(c, i) /\ x[i] = c[i]
    BY <1>1, <1>5 DEF IsValue
  <2>2. PICK k \in 1 .. n - 1 : h[k].value = c[i].value
    BY <1>3, <2>1 DEF Matches
  <2> QED
    BY <1>2, <1>3, <2>1, <2>2
<1>6. ASSUME NEW k \in 1 .. n - 1
      PROVE  g[k] = h[k] /\ g[k].value # v.value
             /\ \E i \in 1 .. m - 1 : IsValue(x, i) /\ x[i].value = g[k].value
  <2>1. g[k] = h[k] /\ h[k].value # v.value
    BY <1>2, <1>3
  <2>2. PICK i \in 1 .. m - 1 : IsValue(c, i) /\ c[i].value = h[k].value
    BY <1>3 DEF Matches
  <2> QED
    BY <1>1, <2>1, <2>2 DEF IsValue
<1>7. \A i \in 1 .. Len(x) : IsValue(x, i) => \E k \in 1 .. Len(g) : g[k].value = x[i].value
  <2> SUFFICES ASSUME NEW i \in 1 .. m, IsValue(x, i) PROVE \E k \in 1 .. n : g[k].value = x[i].value
    BY <1>1, <1>2
  <2>1. CASE i = m
    BY <1>2, <1>4, <2>1
  <2>2. CASE i # m
    <3>1. i \in 1 .. m - 1
      BY <1>1, <2>2
    <3>2. PICK k \in 1 .. n - 1 : g[k].value = x[i].value
      BY <1>5, <3>1
    <3> QED
      BY <1>2, <3>2
  <2> QED
    BY <2>1, <2>2
<1>8. \A k \in 1 .. Len(g) : \E i \in 1 .. Len(x) : IsValue(x, i) /\ x[i].value = g[k].value
  <2> SUFFICES ASSUME NEW k \in 1 .. n PROVE \E i \in 1 .. m : IsValue(x, i) /\ x[i].value = g[k].value
    BY <1>1, <1>2
  <2>1. CASE k = n
    BY <1>1, <1>4, <2>1
  <2>2. CASE k # n
    <3>1. k \in 1 .. n - 1
      BY <1>2, <2>2
    <3>2. PICK i \in 1 .. m - 1 : IsValue(x, i) /\ x[i].value = g[k].value
      BY <1>6, <3>1
    <3> QED
      BY <1>1, <3>2
  <2> QED
    BY <2>1, <2>2
<1>9. ASSUME NEW i \in 1 .. m, NEW k \in 1 .. n, IsValue(x, i), x[i].value = g[k].value
      PROVE  i = m <=> k = n
  <2>1. i # m => i \in 1 .. m - 1
    BY <1>1
  <2>2. k # n => k \in 1 .. n - 1
    BY <1>2
  <2> QED
    BY <1>4, <1>5, <1>6, <1>9, <2>1, <2>2
<1>10. ASSUME NEW i \in 1 .. m, NEW j \in 1 .. m, NEW k \in 1 .. n, NEW l \in 1 .. n,
              IsValue(x, i), IsValue(x, j), x[i].value = g[k].value, x[j].value = g[l].value
       PROVE  i < j <=> k < l
  <2>1. (i = m <=> k = n) /\ (j = m <=> l = n)
    BY <1>9, <1>10
  <2>2. CASE i = m \/ j = m
    BY <1>1, <1>2, <2>1, <2>2
  <2>3. CASE i # m /\ j # m
    <3>1. i \in 1 .. m - 1 /\ j \in 1 .. m - 1 /\ k \in 1 .. n - 1 /\ l \in 1 .. n - 1
      BY <1>1, <1>2, <2>1, <2>3
    <3>2. /\ IsValue(c, i) /\ IsValue(c, j) /\ x[i] = c[i] /\ x[j] = c[j]
          /\ g[k] = h[k] /\ g[l] = h[l]
      BY <1>5, <1>6, <1>10, <3>1
    <3>3. c[i].value = h[k].value /\ c[j].value = h[l].value
      BY <1>10, <3>2
    <3>4. i \in 1 .. Len(c) /\ j \in 1 .. Len(c) /\ k \in 1 .. Len(h) /\ l \in 1 .. Len(h)
      BY <1>3, <3>1
    <3> QED
      BY <3>2, <3>3, <3>4 DEF Matches
  <2> QED
    BY <2>2, <2>3
<1>11. Matches(x, g)
  BY <1>1, <1>2, <1>7, <1>8, <1>10 DEF Matches
<1> QED
  BY <1>11 DEF x, g

LEMMA NumbersKept ==
  ASSUME NumberInv, UNCHANGED <<history, calls>>,
         \A d \in Callers : at'[d] \in WriteAts => at[d] \in WriteAts /\ job'[d].value = job[d].value
  PROVE  NumberInv'
<1>1. WritesBegun' = WritesBegun
  BY DEF WritesBegun
<1> QED
  BY <1>1 DEF NumberInv

(* In the step of a caller, the others stay where they are.                  *)
LEMMA OthersStay ==
  ASSUME TypeInv, NEW c \in Callers, NEW next, NEW j, Goto(c, next), Set(c, j)
  PROVE  /\ at'[c] = next /\ job'[c] = j
         /\ \A d \in Callers \ {c} : at'[d] = at[d] /\ job'[d] = job[d]
  BY DEF TypeInv, SharedTypeOK, Goto, Set

LEMMA ReadsKeepNumbers ==
  ASSUME TypeInv, NumberInv, NEW c \in Callers, ReadEffect(c)
  PROVE  NumberInv' /\ UNCHANGED <<Log, history>>
<1>1. PICK j \in JobType : Set(c, j)
  BY DEF ReadEffect, JobKept
<1>2. PICK next \in Reading \union {"idle"} : Goto(c, next)
  BY DEF ReadEffect, Moved
<1>3. next \notin WriteAts
  BY WriterAts
<1>4. \A d \in Callers : at'[d] \in WriteAts => at[d] \in WriteAts /\ job'[d] = job[d]
  BY <1>1, <1>2, <1>3, OthersStay
<1>5. UNCHANGED <<history, calls>> /\ UNCHANGED Log
  BY DEF ReadEffect, StreamsKept, Log
<1> QED
  BY <1>4, <1>5, NumbersKept

(* What a step of a write does to the log and to the values accepted.        *)
LEMMA WriteLogs ==
  ASSUME TypeInv, NEW c \in Callers, WriteStep(c)
  PROVE  /\ UNCHANGED calls /\ at[c] \in WriteAts
         /\ \A d \in Callers : at'[d] \in WriteAts => at[d] \in WriteAts /\ job'[d].value = job[d].value
         /\ \/ UNCHANGED history /\ (Log' = Log \/ \E cell \in Cell : cell.kind # "value" /\ Log' = Append(Log, cell))
            \/ /\ at'[c] = "idle" /\ at[c] = "value"
               /\ history' = Append(history, [time |-> job[c].time, value |-> job[c].value])
               /\ \E off \in Nat : Log' = Append(Log, ValueCell(off, job[c].value))
<1>1. at[c] \in WriteAts
  BY WriterAts DEF WriteStep, ReadClock, CheckMoreRecent, LockWrite, WriteEndLine, WriteEntryHour,
                   TellEntry, WriteEntryPosition, WriteHour, WriteValue
<1>2. /\ job[c] \in JobType /\ job[c].time \in Nat /\ job[c].value \in Nat
      /\ UNCHANGED job => Set(c, job[c])
      /\ data \in StreamOf(Cell) /\ data.bad \in BOOLEAN
  BY <1>1, WriterFacts
<1>3. ASSUME NEW next, NEW j, Goto(c, next), Set(c, j), j.value = job[c].value
      PROVE  \A d \in Callers : at'[d] \in WriteAts => at[d] \in WriteAts /\ job'[d].value = job[d].value
  BY <1>1, <1>3, OthersStay
<1>4. CASE ReadClock(c)
  <2>1. /\ Set(c, WithTime(job[c], now)) /\ Goto(c, "writeLock") /\ now \in Nat
        /\ UNCHANGED <<data, history, calls>>
    BY <1>4 DEF ReadClock, TypeInv, SharedTypeOK
  <2>2. WithTime(job[c], now).value = job[c].value
    BY <1>2, <2>1, JobsMade DEF SameCall
  <2> QED
    BY <1>1, <1>3, <2>1, <2>2 DEF Log
<1>5. CASE CheckMoreRecent(c)
  <2>1. /\ UNCHANGED <<data, history, calls, job>>
        /\ Goto(c, "writeLock") \/ Goto(c, "idle")
    BY <1>5 DEF CheckMoreRecent, Return, Goto
  <2> QED
    BY <1>1, <1>2, <1>3, <2>1 DEF Log
<1>6. CASE LockWrite(c)
  <2>1. UNCHANGED <<data, history, calls, job>> /\ \E next \in Ats : Goto(c, next)
    BY <1>6 DEF LockWrite, Ats
  <2> QED
    BY <1>1, <1>2, <1>3, <2>1 DEF Log
<1>7. CASE WriteEntryHour(c) \/ WriteEntryPosition(c)
  <2>1. UNCHANGED <<data, history, calls, job>> /\ \E next \in Ats : Goto(c, next)
    BY <1>7 DEF WriteEntryHour, WriteEntryPosition, Ats
  <2> QED
    BY <1>1, <1>2, <1>3, <2>1 DEF Log
<1>8. CASE WriteEndLine(c) \/ WriteHour(c)
  <2>1. /\ UNCHANGED <<history, calls, job>> /\ \E next \in Ats : Goto(c, next)
        /\ data' = WriteTo(data, EndLine) \/ data' = WriteTo(data, HourCell(FromTimeT(job[c].time)))
    BY <1>8 DEF WriteEndLine, WriteHour, Ats
  <2>2. PICK cell \in Cell : cell.kind # "value" /\ data' = WriteTo(data, cell)
    BY <1>2, <2>1, CellsWritten, WriteMakes
  <2>3. Log' = Log \/ Log' = Append(Log, cell)
    BY <1>2, <2>2, WriteToFacts DEF Log
  <2> QED
    BY <1>1, <1>2, <1>3, <2>1, <2>2, <2>3
<1>9. CASE WriteValue(c)
  <2> DEFINE cell == ValueCell(OffsetOf(job[c].time), job[c].value)
  <2>1. /\ UNCHANGED <<calls, job>> /\ Goto(c, "idle") /\ at[c] = "value" /\ data' = WriteTo(data, cell)
        /\ data.bad => history' = history
        /\ ~data.bad => history' = Append(history, [time |-> job[c].time, value |-> job[c].value])
    BY <1>9 DEF WriteValue, Return, Goto
  <2>2. OffsetOf(job[c].time) \in Nat /\ cell \in Cell
    BY <1>2, WriteMakes, CellsWritten
  <2>3. at'[c] = "idle"
    BY <1>2, <2>1, OthersStay
  <2>4. CASE data.bad
    <3>1. Log' = Log
      BY <1>2, <2>1, <2>2, <2>4, WriteToFacts DEF Log
    <3> QED
      BY <1>1, <1>2, <1>3, <2>1, <2>4, <3>1
  <2>5. CASE ~data.bad
    <3>1. Log' = Append(Log, cell)
      BY <1>2, <2>1, <2>2, <2>5, WriteToFacts DEF Log
    <3> QED
      BY <1>1, <1>2, <1>3, <2>1, <2>2, <2>3, <2>5, <3>1
  <2> QED
    BY <2>4, <2>5
<1>10. CASE TellEntry(c)
  <2>1. /\ Set(c, WithSeek(job[c], PositionOf(data))) /\ Goto(c, "entryPosition")
        /\ UNCHANGED <<data, history, calls>>
        /\ WithSeek(job[c], PositionOf(data)).value = job[c].value
    BY <1>10, TellFacts DEF SameCall
  <2> QED
    BY <1>1, <1>3, <2>1 DEF Log
<1> QED
  BY <1>4, <1>5, <1>6, <1>7, <1>8, <1>9, <1>10 DEF WriteStep

LEMMA WritesKeepNumbers ==
  ASSUME TypeInv, NumberInv, Matches(Log, history), NEW c \in Callers, WriteStep(c)
  PROVE  NumberInv' /\ Matches(Log, history)'
<1>1. Log \in Seq(Cell) /\ history \in Seq(ValueType) /\ Len(history) \in Nat
  BY StreamFields DEF TypeInv, SharedTypeOK, Log
<1>2. /\ UNCHANGED calls /\ at[c] \in WriteAts
      /\ \A d \in Callers : at'[d] \in WriteAts => at[d] \in WriteAts /\ job'[d].value = job[d].value
  BY WriteLogs
<1>3. CASE UNCHANGED history
           /\ (Log' = Log \/ \E cell \in Cell : cell.kind # "value" /\ Log' = Append(Log, cell))
  <2>1. Matches(Log', history)
    BY <1>1, <1>3, MatchStays
  <2> QED
    BY <1>2, <1>3, <2>1, NumbersKept
<1>4. CASE /\ at'[c] = "idle" /\ at[c] = "value"
           /\ history' = Append(history, [time |-> job[c].time, value |-> job[c].value])
           /\ \E off \in Nat : Log' = Append(Log, ValueCell(off, job[c].value))
  <2> DEFINE v == [time |-> job[c].time, value |-> job[c].value]
  <2>1. v \in ValueType /\ v.value = job[c].value /\ job[c].value \in Nat
    BY <1>2, WriterFacts DEF ValueType
  <2>2. PICK off \in Nat : Log' = Append(Log, ValueCell(off, job[c].value))
    BY <1>4
  <2>3. history' = Append(history, v)
    BY <1>4
  <2> HIDE DEF v
  <2>4. /\ v.value < FirstNumber + WritesBegun
        /\ \A k \in 1 .. Len(history) : history[k].value # v.value
    BY <1>2, <2>1 DEF NumberInv
  <2>5. Matches(Log', history')
    <3>1. /\ ValueCell(off, job[c].value) \in Cell /\ ValueCell(off, job[c].value).kind = "value"
          /\ ValueCell(off, job[c].value).value = v.value
      BY <2>1, CellsWritten
    <3> QED
      BY <1>1, <2>1, <2>2, <2>3, <2>4, <3>1, MatchGrows
  <2>6. /\ Len(history') = Len(history) + 1 /\ history'[Len(history) + 1] = v
        /\ \A k \in 1 .. Len(history) : history'[k] = history[k]
    BY <1>1, <2>1, <2>3, Appended
  <2>7. \A k \in 1 .. Len(history') : k = Len(history) + 1 \/ k \in 1 .. Len(history)
    BY <1>1, <2>6
  <2>8. WritesBegun' = WritesBegun
    BY <1>2 DEF WritesBegun
  <2>9. \A k \in 1 .. Len(history') : history'[k].value < FirstNumber + WritesBegun'
    BY <2>4, <2>6, <2>7, <2>8 DEF NumberInv
  <2>10. \A k, l \in 1 .. Len(history') : history'[k].value = history'[l].value => k = l
    BY <2>4, <2>6, <2>7 DEF NumberInv
  <2>11. ASSUME NEW d \in Callers, at'[d] \in WriteAts
         PROVE  /\ job'[d].value < FirstNumber + WritesBegun'
                /\ \A k \in 1 .. Len(history') : history'[k].value # job'[d].value
    <3>1. d # c
      BY <1>4, <2>11, WriterAts
    <3>2. at[d] \in WriteAts /\ job'[d].value = job[d].value
      BY <1>2, <2>11
    <3>3. job[d].value # v.value
      BY <1>2, <2>1, <3>1, <3>2 DEF NumberInv
    <3> QED
      BY <2>6, <2>7, <2>8, <3>2, <3>3 DEF NumberInv
  <2>12. \A d, f \in Callers :
           at'[d] \in WriteAts /\ at'[f] \in WriteAts /\ job'[d].value = job'[f].value => d = f
    BY <1>2 DEF NumberInv
  <2> QED
    BY <2>5, <2>9, <2>10, <2>11, <2>12 DEF NumberInv
<1> QED
  BY <1>3, <1>4, WriteLogs

LEMMA BeginsKeepNumbers ==
  ASSUME TypeInv, NumberInv, NEW c \in Callers, Begin(c)
  PROVE  NumberInv' /\ UNCHANGED <<Log, history>>
<1>1. PICK op \in WriteOps \union ReadOps, argument \in Nat :
        /\ job'[c] = Job(op, argument, FirstNumber + WritesBegun, 0, <<>>, Len(history),
                         \A d \in Callers \ {c} : at[d] = "idle")
        /\ \A d \in Callers \ {c} :
             job'[d] = IF at[d] = "idle" THEN NoJob ELSE NotAlone(job[d])
        /\ job'[c] \in JobType /\ job' \in [Callers -> JobType]
        /\ op = "WriteTimeValue" => HourSecs <= argument
        /\ at[c] = "idle" /\ Goto(c, FirstStep(op)) /\ WritesBegun + ReadsBegun < MaxCalls
        /\ calls' = [calls EXCEPT ![op] = @ + 1] /\ answer' = NoAnswer
        /\ UNCHANGED <<now, data, index, info, writer, reader, history>>
  BY BeginFacts
<1>2. at'[c] = FirstStep(op) /\ \A d \in Callers \ {c} : at'[d] = at[d]
  BY <1>1 DEF TypeInv, SharedTypeOK, Goto
<1>3. /\ WritesBegun \in Nat /\ FirstNumber \in Nat
      /\ WritesBegun' = IF op \in WriteOps THEN WritesBegun + 1 ELSE WritesBegun
  <2>1. calls \in [WriteOps \union ReadOps -> 0 .. MaxCalls]
    BY DEF TypeInv, SharedTypeOK
  <2>2. \A o \in WriteOps \union ReadOps : calls[o] \in Nat /\ calls'[o] = IF o = op THEN calls[o] + 1 ELSE calls[o]
    BY <1>1, <2>1, CallsCounted
  <2> QED
    BY <2>2, CallsCounted, StartsAssumption DEF WritesBegun, WriteOps, ReadOps
<1>4. op \in ReadOps => FirstStep(op) \notin WriteAts
  BY DEF ReadOps, FirstStep, WriteAts, Writing
<1>5. ASSUME NEW d \in Callers \ {c}, at'[d] \in WriteAts
      PROVE  at[d] \in WriteAts /\ job'[d].value = job[d].value
  <2>1. at[d] \in WriteAts /\ at[d] # "idle"
    BY <1>2, <1>5, WriterAts
  <2> QED
    BY <2>1, OthersBeside
<1>6. job'[c].value = FirstNumber + WritesBegun
  BY <1>1 DEF Job
<1>7. history \in Seq(ValueType) /\ Len(history) \in Nat /\ \A k \in 1 .. Len(history) : history[k].value \in Nat
  <2>1. history \in Seq(ValueType)
    BY DEF TypeInv
  <2>2. ASSUME NEW k \in 1 .. Len(history) PROVE history[k].value \in Nat
    <3>1. history[k] \in ValueType
      BY <2>1
    <3> QED
      BY <3>1 DEF ValueType
  <2> QED
    BY <2>1, <2>2
<1>8. ASSUME NEW d \in Callers, at'[d] \in WriteAts
      PROVE  /\ job'[d].value < FirstNumber + WritesBegun'
             /\ \A k \in 1 .. Len(history) : history[k].value # job'[d].value
  <2>1. CASE d = c
    <3>1. op \in WriteOps
      BY <1>2, <1>4, <1>8, <2>1
    <3> QED
      BY <1>3, <1>6, <1>7, <2>1, <3>1 DEF NumberInv
  <2>2. CASE d # c
    <3>1. at[d] \in WriteAts /\ job'[d].value = job[d].value /\ job[d].value \in Nat
      BY <1>5, <1>8, <2>2, WriterFacts
    <3>2. /\ job[d].value < FirstNumber + WritesBegun
          /\ \A k \in 1 .. Len(history) : history[k].value # job[d].value
      BY <3>1 DEF NumberInv
    <3> QED
      BY <1>3, <3>1, <3>2
  <2> QED
    BY <2>1, <2>2
<1>9. ASSUME NEW d \in Callers, NEW f \in Callers, at'[d] \in WriteAts, at'[f] \in WriteAts,
             job'[d].value = job'[f].value
      PROVE  d = f
  <2>1. ASSUME NEW g \in Callers \ {c}, at'[g] \in WriteAts PROVE job'[g].value # job'[c].value
    <3>1. at[g] \in WriteAts /\ job'[g].value = job[g].value /\ job[g].value \in Nat
      BY <1>5, <2>1, WriterFacts
    <3>2. job[g].value < FirstNumber + WritesBegun
      BY <3>1 DEF NumberInv
    <3> QED
      BY <1>3, <1>6, <3>1, <3>2
  <2>2. d # c /\ f # c => at[d] \in WriteAts /\ at[f] \in WriteAts /\ job[d].value = job[f].value
    BY <1>5, <1>9
  <2> QED
    BY <1>9, <2>1, <2>2 DEF NumberInv
<1>10. \A k \in 1 .. Len(history) : history[k].value < FirstNumber + WritesBegun'
  BY <1>3, <1>7 DEF NumberInv
<1>11. NumberInv'
  <2>1. history' = history
    BY <1>1
  <2>2. \A k, l \in 1 .. Len(history) : history[k].value = history[l].value => k = l
    BY DEF NumberInv
  <2> QED
    BY <1>8, <1>9, <1>10, <2>1, <2>2 DEF NumberInv
<1> QED
  BY <1>1, <1>11 DEF Log

LEMMA InitNumbers == Init => NumberInv /\ Matches(Log, history)
<1> SUFFICES ASSUME Init PROVE NumberInv /\ Matches(Log, history)
  OBVIOUS
<1>1. PICK blocks \in Starts :
        LET times == FlattenSeq(blocks)
        IN  /\ data = FileAtEnd(DataCells(blocks, Len(blocks))) /\ index = FileAtEnd(IndexCells(blocks))
            /\ info = InfoBefore(blocks)
            /\ history = [k \in 1 .. Len(times) |-> [time |-> times[k], value |-> k]]
  BY DEF Init
<1> DEFINE n == Len(FlattenSeq(blocks))
<1>2. /\ history \in Seq(ValueType) /\ Len(history) = n /\ n \in Nat
      /\ \A k \in 1 .. n : history[k].value = k
  BY <1>1, InitHistory
<1>3. n < FirstNumber /\ FirstNumber \in Nat
  BY StartsAssumption
<1>4. Log \in Seq(Cell) /\ Len(Log) \in Nat /\ Numbered(Log, n)
  <2>1. Log = DataCells(blocks, Len(blocks)) /\ data \in StreamOf(Cell)
    BY <1>1, InitFiles DEF Log
  <2>2. Log \in Seq(Cell) /\ Len(Log) \in Nat
    BY <2>1, StreamFields DEF Log
  <2> QED
    BY <2>1, <2>2, StartsHold, ValuesCount DEF Started
<1> HIDE DEF n
<1>5. Matches(Log, history)
  <2>1. \A i \in 1 .. Len(Log) : IsValue(Log, i) => \E k \in 1 .. n : history[k].value = Log[i].value
    BY <1>2, <1>4 DEF Numbered
  <2>2. \A k \in 1 .. n : \E i \in 1 .. Len(Log) : IsValue(Log, i) /\ Log[i].value = history[k].value
    BY <1>2, <1>4 DEF Numbered
  <2>3. ASSUME NEW i \in 1 .. Len(Log), NEW j \in 1 .. Len(Log), NEW k \in 1 .. n, NEW l \in 1 .. n,
               IsValue(Log, i), IsValue(Log, j),
               Log[i].value = history[k].value, Log[j].value = history[l].value
        PROVE  i < j <=> k < l
    <3>1. Log[i].value = k /\ Log[j].value = l
      BY <1>2, <2>3
    <3>2. i < j <=> Log[i].value < Log[j].value
      BY <1>4, <2>3 DEF Numbered
    <3> QED
      BY <3>1, <3>2
  <2> QED
    BY <1>2, <2>1, <2>2, <2>3 DEF Matches
<1>6. WritesBegun = 0
  BY DEF Init, WritesBegun, WriteOps, ReadOps
<1>7. \A c \in Callers : at[c] \notin WriteAts
  BY WriterAts DEF Init
<1>8. NumberInv
  BY <1>2, <1>3, <1>6, <1>7 DEF NumberInv
<1> QED
  BY <1>5, <1>8

NumberedInv == TypeInv /\ NumberInv /\ Matches(Log, history)

LEMMA NumberStep == NumberedInv /\ [Next]_vars => NumberedInv'
<1> SUFFICES ASSUME NumberedInv, [Next]_vars PROVE (NumberInv /\ Matches(Log, history))'
  BY TypeStep DEF NumberedInv
<1> USE DEF NumberedInv
<1>1. CASE Tick \/ UNCHANGED vars
  <2>1. UNCHANGED <<data, at, job, history, calls>>
    BY <1>1 DEF Tick, vars
  <2>2. UNCHANGED Log
    BY <2>1 DEF Log
  <2> QED
    BY <2>1, <2>2, NumbersKept
<1>2. CASE \E c \in Callers : Begin(c)
  BY <1>2, BeginsKeepNumbers
<1>3. CASE \E c \in Callers : WriteStep(c)
  BY <1>3, WritesKeepNumbers
<1>4. CASE \E c \in Callers : ReadStep(c)
  BY <1>4, ReadsHaveEffect, ReadsKeepNumbers
<1> QED
  BY <1>1, <1>2, <1>3, <1>4 DEF Next

(* Whatever reads do to the streams behind the writes, every write that      *)
(* returned true left its record, once and in the order of the mutex, and no *)
(* other record is there.                                                    *)
THEOREM TrueAlwaysWritten == Spec => []TrueMeansWritten
<1>1. Init => NumberedInv
  BY InitTyped, InitNumbers DEF NumberedInv
<1>2. NumberedInv => TrueMeansWritten
  <2>1. NumberedInv => Len(Log) \in Nat
    BY StreamFields DEF NumberedInv, TypeInv, SharedTypeOK, Log
  <2> QED
    BY <2>1, WrittenMatches DEF NumberedInv
<1> QED
  BY <1>1, <1>2, NumberStep, PTL DEF Spec

-----------------------------------------------------------------------------
(* The rule of dated writes.                                                 *)

(* No accepted value is later than FilesInfo says, and startHour is the      *)
(* beginning of maxHour but while a writer writes a new hour, which is a     *)
(* later one.                                                                *)
HoursInv ==
  /\ history # <<>> =>
       info.maxHour > 0 /\ Last(history).time <= ToTimeT(info.maxHour, info.maxOffset)
  /\ writer = None => info.startHour = ToTimeT(info.maxHour, 0)
  /\ \A c \in Callers :
       /\ at[c] \in {"endLine", "entryHour"} =>
            info.startHour = ToTimeT(info.maxHour, 0) /\ StartsHour(job[c].time)
       /\ at[c] \in {"entryTell", "entryPosition", "hour"} =>
            /\ info.startHour = ToTimeT(FromTimeT(job[c].time), 0)
            /\ info.maxHour < FromTimeT(job[c].time)
       /\ at[c] = "value" =>
            /\ info.startHour = ToTimeT(info.maxHour, 0) /\ info.maxHour > 0
            /\ ~StartsHour(job[c].time)

(* Beside a call that runs alone nobody writes, and its date is later than   *)
(* the last value once the rule has been checked.                            *)
AloneInv ==
  /\ \A c \in Callers : at[c] = "clock" => job[c].op = "WriteValue"
  /\ \A c \in Callers : at[c] # "idle" /\ job[c].alone =>
       /\ \A d \in Callers \ {c} : at[d] = "idle"
       /\ job[c].seen = Len(history)
       /\ /\ job[c].op = "WriteTimeValue" /\ at[c] \in {"writeLock"} \union Writing
          /\ history # <<>>
          => Last(history).time < job[c].time

RuleInv == HoursInv /\ AloneInv /\ RuleKeptAlone

LEMMA LastValue ==
  ASSUME NEW h \in Seq(ValueType), h # <<>>
  PROVE  Len(h) \in Nat \ {0} /\ Last(h) = h[Len(h)] /\ Last(h).time \in Nat
<1>1. Len(h) \in Nat \ {0}
  OBVIOUS
<1>2. h[Len(h)] \in ValueType
  BY <1>1
<1> QED
  BY <1>1, <1>2 DEF Last, ValueType

(* A value written in an hour in force is not later than FilesInfo says.     *)
LEMMA OffsetCovers ==
  ASSUME NEW time \in Nat, NEW hour \in Nat, TypeInv, info.startHour = ToTimeT(hour, 0),
         ~StartsHour(time)
  PROVE  time <= ToTimeT(hour, OffsetOf(time))
<1>1. HourSecs \in Nat \ {0} /\ HourSecs < 65534
  BY HourSecsAssumption, DatesAssumption
<1>2. info.startHour = hour * HourSecs /\ info.startHour \in Nat /\ time - info.startHour <= HourSecs - 1
  BY <1>1, InfoTyped DEF ToTimeT, StartsHour
<1> DEFINE diff == time - info.startHour
<1>3. diff \in Int /\ diff < 65536 /\ OffsetOf(time) = diff % 65536
  BY <1>1, <1>2 DEF OffsetOf
<1>4. ToTimeT(hour, OffsetOf(time)) = info.startHour + (diff % 65536)
  BY <1>2, <1>3 DEF ToTimeT
<1>5. time = info.startHour + diff
  BY <1>2
<1> HIDE DEF diff
<1>6. diff <= diff % 65536
  BY <1>3
<1> QED
  BY <1>2, <1>3, <1>4, <1>5, <1>6

(* A time behind the hour in force lies in a later hour.                     *)
LEMMA LaterHour ==
  ASSUME NEW time \in Nat, NEW hour \in Nat, TypeInv, info.startHour = ToTimeT(hour, 0),
         StartsHour(time)
  PROVE  hour < FromTimeT(time)
<1>1. HourSecs \in Nat \ {0} /\ FromTimeT(time) \in Nat
  BY HourSecsAssumption, HourOfTime
<1>2. time >= hour * HourSecs + HourSecs
  BY <1>1 DEF ToTimeT, StartsHour
<1>3. time < FromTimeT(time) * HourSecs + HourSecs
  BY HourOfTime, <1>1 DEF ToTimeT
<1> DEFINE f == FromTimeT(time)
<1> HIDE DEF f
<1>4. f \in Nat /\ hour * HourSecs < f * HourSecs
  <2>1. f * HourSecs \in Nat /\ hour * HourSecs \in Nat
    BY <1>1 DEF f
  <2> QED
    BY <1>1, <1>2, <1>3, <2>1 DEF f
<1>5. ToTimeT(hour, 0) < ToTimeT(f, 0)
  BY <1>1, <1>4 DEF ToTimeT
<1> QED
  BY <1>4, <1>5, HoursOrdered DEF f

(* FilesInfo covers the values written before the hour changed.              *)
LEMMA LaterCovers ==
  ASSUME NEW hour \in Nat, NEW next \in Nat, hour <= next, NEW offset \in Nat
  PROVE  ToTimeT(hour, offset) <= ToTimeT(next, offset)
<1>1. hour * HourSecs <= next * HourSecs
  BY HourSecsAssumption
<1>2. hour * HourSecs \in Nat /\ next * HourSecs \in Nat
  BY HourSecsAssumption
<1> QED
  BY <1>1, <1>2 DEF ToTimeT

(* In the hour 0 there is no time to write.                                  *)
LEMMA HourInForce ==
  ASSUME NEW time \in Nat, HourSecs <= time, TypeInv, info.startHour = ToTimeT(info.maxHour, 0),
         ~StartsHour(time)
  PROVE  info.maxHour > 0
<1>1. HourSecs \in Nat \ {0} /\ info.maxHour \in Nat
  BY HourSecsAssumption, InfoTyped
<1>2. time - info.startHour < HourSecs /\ info.startHour \in Nat
  BY <1>1, InfoTyped DEF StartsHour
<1>3. info.startHour # 0
  BY <1>1, <1>2
<1>4. ToTimeT(0, 0) = 0
  BY <1>1 DEF ToTimeT
<1> QED
  BY <1>1, <1>3, <1>4

LEMMA HoursKept ==
  ASSUME HoursInv, UNCHANGED <<info, writer, history>>,
         \A d \in Callers : at'[d] \in Writing => at'[d] = at[d] /\ job'[d].time = job[d].time
  PROVE  HoursInv'
<1>1. \A time : StartsHour(time)' <=> StartsHour(time)
  BY DEF StartsHour
<1> QED
  BY <1>1 DEF HoursInv, Writing, StartsHour

(* HoursInv of the writer and of those outside the mutex.                    *)
LEMMA HoursBy ==
  ASSUME TypeInv, NEW c \in Callers, NEW next, Goto(c, next), job'[c].time = job[c].time,
         writer \in {None, c}, writer' = None => info'.startHour = ToTimeT(info'.maxHour, 0),
         history' # <<>> =>
           info'.maxHour > 0 /\ Last(history').time <= ToTimeT(info'.maxHour, info'.maxOffset),
         next \in {"endLine", "entryHour"} =>
           info'.startHour = ToTimeT(info'.maxHour, 0) /\ StartsHour(job[c].time)',
         next \in {"entryTell", "entryPosition", "hour"} =>
           /\ info'.startHour = ToTimeT(FromTimeT(job[c].time), 0)
           /\ info'.maxHour < FromTimeT(job[c].time),
         next = "value" =>
           /\ info'.startHour = ToTimeT(info'.maxHour, 0) /\ info'.maxHour > 0
           /\ ~StartsHour(job[c].time)'
  PROVE  HoursInv'
<1>1. at'[c] = next /\ \A d \in Callers \ {c} : at'[d] = at[d]
  BY DEF TypeInv, SharedTypeOK, Goto
<1>2. \A d \in Callers \ {c} : at'[d] \notin Writing
  BY <1>1, CallersAssumption DEF TypeInv, SharedTypeOK
<1>3. \A d \in Callers \ {c} :
        /\ at'[d] \notin {"endLine", "entryHour"} /\ at'[d] # "value"
        /\ at'[d] \notin {"entryTell", "entryPosition", "hour"}
  BY <1>2 DEF Writing
<1>4. ASSUME NEW d \in Callers
      PROVE  /\ at'[d] \in {"endLine", "entryHour"} =>
                  info'.startHour = ToTimeT(info'.maxHour, 0) /\ StartsHour(job[d].time)'
             /\ at'[d] \in {"entryTell", "entryPosition", "hour"} =>
                  /\ info'.startHour = ToTimeT(FromTimeT(job'[d].time), 0)
                  /\ info'.maxHour < FromTimeT(job'[d].time)
             /\ at'[d] = "value" =>
                  /\ info'.startHour = ToTimeT(info'.maxHour, 0) /\ info'.maxHour > 0
                  /\ ~StartsHour(job[d].time)'
  <2>1. CASE d = c
    BY <1>1, <2>1 DEF StartsHour
  <2>2. CASE d # c
    BY <1>3, <2>2
  <2> QED
    BY <2>1, <2>2
<1> QED
  BY <1>4 DEF HoursInv

LEMMA ReadsKeepHours ==
  ASSUME TypeInv, HoursInv, NEW c \in Callers, ReadEffect(c)
  PROVE  HoursInv'
<1>1. PICK j \in JobType : Set(c, j)
  BY DEF ReadEffect, JobKept
<1>2. PICK next \in Reading \union {"idle"} : Goto(c, next)
  BY DEF ReadEffect, Moved
<1>3. next \notin Writing
  BY WriterAts
<1>4. \A d \in Callers : at'[d] \in Writing => at'[d] = at[d] /\ job'[d].time = job[d].time
  BY <1>1, <1>2, <1>3, OthersStay
<1>5. UNCHANGED <<info, writer, history>>
  BY DEF ReadEffect
<1> QED
  BY <1>4, <1>5, HoursKept

LEMMA BeginsKeepHours ==
  ASSUME TypeInv, HoursInv, NEW c \in Callers, Begin(c)
  PROVE  HoursInv'
<1>1. PICK op \in WriteOps \union ReadOps :
        /\ \A d \in Callers \ {c} :
             job'[d] = IF at[d] = "idle" THEN NoJob ELSE NotAlone(job[d])
        /\ Goto(c, FirstStep(op)) /\ UNCHANGED <<info, writer, history>>
  BY BeginFacts
<1>2. at'[c] = FirstStep(op) /\ \A d \in Callers \ {c} : at'[d] = at[d]
  BY <1>1 DEF TypeInv, SharedTypeOK, Goto
<1>3. FirstStep(op) \notin Writing
  BY DEF FirstStep, Writing
<1>4. ASSUME NEW d \in Callers, at'[d] \in Writing
      PROVE  at'[d] = at[d] /\ job'[d].time = job[d].time
  <2>1. d # c /\ at[d] \in Writing /\ at[d] # "idle"
    BY <1>2, <1>3, <1>4 DEF Writing
  <2> QED
    BY <1>1, <1>2, <2>1, JobsKept, JobsMade
<1> QED
  BY <1>1, <1>4, HoursKept

LEMMA WritesKeepHours ==
  ASSUME TypeInv, HoursInv, NEW c \in Callers, WriteStep(c)
  PROVE  HoursInv'
<1> DEFINE time == job[c].time
           hour == FromTimeT(time)
<1>1. at[c] \in WriteAts
  BY WriteLogs
<1>2. /\ job[c] \in JobType /\ time \in Nat /\ (UNCHANGED job => Set(c, job[c]))
      /\ at[c] # "clock" => HourSecs <= time
      /\ writer = c <=> at[c] \in Writing
  BY <1>1, WriterFacts
<1>3. /\ info.startHour \in Nat /\ info.minHour \in Nat /\ info.maxHour \in Nat
      /\ info.maxOffset \in Nat /\ info.indexSize \in Nat
  BY InfoTyped
<1>4. hour \in Nat
  BY <1>2, HourOfTime
<1>5. history \in Seq(ValueType)
  BY DEF TypeInv
<1>6. CASE ReadClock(c)
  <2>1. /\ Goto(c, "writeLock") /\ Set(c, WithTime(job[c], now)) /\ UNCHANGED <<info, writer, history>>
    BY <1>6 DEF ReadClock
  <2>2. \A d \in Callers : at'[d] \in Writing => at'[d] = at[d] /\ job'[d].time = job[d].time
    BY <2>1, OthersStay, WriterAts
  <2> QED
    BY <2>1, <2>2, HoursKept
<1>7. CASE CheckMoreRecent(c)
  <2>1. /\ Goto(c, "writeLock") \/ Goto(c, "idle")
        /\ UNCHANGED <<info, writer, history, job>>
    BY <1>7 DEF CheckMoreRecent, Return, Goto
  <2>2. \A d \in Callers : at'[d] \in Writing => at'[d] = at[d] /\ job'[d].time = job[d].time
    BY <1>2, <2>1, OthersStay, WriterAts
  <2> QED
    BY <2>1, <2>2, HoursKept
<1>8. CASE LockWrite(c)
  <2>1. /\ at[c] = "writeLock" /\ writer = None /\ writer' = c /\ UNCHANGED <<info, job, history>>
        /\ Goto(c, IF ~StartsHour(time) THEN "value"
                   ELSE IF info.startHour > 0 THEN "endLine" ELSE "entryHour")
    BY <1>8 DEF LockWrite, Free
  <2>2. info.startHour = ToTimeT(info.maxHour, 0)
    BY <2>1 DEF HoursInv
  <2>3. StartsHour(time)' <=> StartsHour(time)
    BY <2>1 DEF StartsHour
  <2>4. writer' # None
    BY <2>1, CallersAssumption
  <2>5. history' # <<>> =>
          info'.maxHour > 0 /\ Last(history').time <= ToTimeT(info'.maxHour, info'.maxOffset)
    BY <2>1 DEF HoursInv
  <2>6. CASE StartsHour(time)
    <3>1. PICK next \in {"endLine", "entryHour"} : Goto(c, next)
      BY <2>1, <2>6
    <3> QED
      BY <2>1, <2>2, <2>3, <2>4, <2>5, <2>6, <3>1, HoursBy
  <2>7. CASE ~StartsHour(time)
    <3>1. Goto(c, "value") /\ info.maxHour > 0
      BY <1>2, <2>1, <2>2, <2>7, HourInForce
    <3> QED
      BY <2>1, <2>2, <2>3, <2>4, <2>5, <2>7, <3>1, HoursBy
  <2> QED
    BY <2>6, <2>7
<1>9. CASE WriteEndLine(c)
  <2>1. /\ at[c] = "endLine" /\ UNCHANGED <<info, writer, job, history>> /\ Goto(c, "entryHour")
    BY <1>9 DEF WriteEndLine
  <2>2. writer = c /\ writer' # None
    BY <1>2, <2>1, WriterAts, CallersAssumption
  <2>3. info.startHour = ToTimeT(info.maxHour, 0) /\ StartsHour(time)
    BY <2>1 DEF HoursInv
  <2>4. StartsHour(time)'
    BY <2>1, <2>3 DEF StartsHour
  <2>5. history' # <<>> =>
          info'.maxHour > 0 /\ Last(history').time <= ToTimeT(info'.maxHour, info'.maxOffset)
    BY <2>1 DEF HoursInv
  <2> QED
    BY <2>1, <2>2, <2>3, <2>4, <2>5, HoursBy
<1>10. CASE WriteEntryHour(c)
  <2>1. /\ at[c] = "entryHour" /\ UNCHANGED <<writer, job, history>> /\ Goto(c, "entryTell")
        /\ info' = FilesInfo(ToTimeT(hour, 0), info.minHour, info.maxHour, info.maxOffset, info.indexSize)
    BY <1>10 DEF WriteEntryHour
  <2>2. info'.startHour = ToTimeT(hour, 0) /\ info'.maxHour = info.maxHour
        /\ info'.maxOffset = info.maxOffset
    BY <2>1 DEF FilesInfo
  <2>3. writer = c /\ writer' # None
    BY <1>2, <2>1, WriterAts, CallersAssumption
  <2>4. info.startHour = ToTimeT(info.maxHour, 0) /\ StartsHour(time)
    BY <2>1 DEF HoursInv
  <2>5. info.maxHour < hour
    BY <1>2, <1>3, <2>4, LaterHour
  <2>6. history' # <<>> =>
          info'.maxHour > 0 /\ Last(history').time <= ToTimeT(info'.maxHour, info'.maxOffset)
    BY <2>1, <2>2 DEF HoursInv
  <2> QED
    BY <2>1, <2>2, <2>3, <2>5, <2>6, HoursBy
<1>11. CASE WriteEntryPosition(c)
  <2>1. /\ at[c] = "entryPosition" /\ UNCHANGED <<writer, job, history>> /\ Goto(c, "hour")
        /\ info' = FilesInfo(info.startHour, info.minHour, info.maxHour, info.maxOffset,
                             info.indexSize + 1)
    BY <1>11 DEF WriteEntryPosition
  <2>2. info'.startHour = info.startHour /\ info'.maxHour = info.maxHour
        /\ info'.maxOffset = info.maxOffset
    BY <2>1 DEF FilesInfo
  <2>3. writer = c /\ writer' # None
    BY <1>2, <2>1, WriterAts, CallersAssumption
  <2>4. info.startHour = ToTimeT(hour, 0) /\ info.maxHour < hour
    BY <2>1 DEF HoursInv
  <2>5. history' # <<>> =>
          info'.maxHour > 0 /\ Last(history').time <= ToTimeT(info'.maxHour, info'.maxOffset)
    BY <2>1, <2>2 DEF HoursInv
  <2> QED
    BY <2>1, <2>2, <2>3, <2>4, <2>5, HoursBy
<1>12. CASE WriteHour(c)
  <2> DEFINE lowest == IF info.minHour = 0 THEN hour ELSE info.minHour
  <2>1. /\ at[c] = "hour" /\ UNCHANGED <<writer, job, history>> /\ Goto(c, "value")
        /\ info' = FilesInfo(info.startHour, lowest, hour, info.maxOffset, info.indexSize)
    BY <1>12 DEF WriteHour
  <2>2. info'.startHour = info.startHour /\ info'.maxHour = hour
        /\ info'.maxOffset = info.maxOffset
    BY <2>1 DEF FilesInfo
  <2>3. writer = c /\ writer' # None
    BY <1>2, <2>1, WriterAts, CallersAssumption
  <2>4. info.startHour = ToTimeT(hour, 0) /\ info.maxHour < hour
    BY <2>1 DEF HoursInv
  <2>5. ~StartsHour(time)'
    <3>1. ToTimeT(hour, 0) \in Nat /\ time < ToTimeT(hour, 0) + HourSecs
      BY <1>2, HourOfTime
    <3> QED
      BY <1>2, <2>1, <2>2, <2>4, <3>1, HourSecsAssumption DEF StartsHour
  <2>6. hour > 0
    BY <1>3, <1>4, <2>4
  <2>7. history' # <<>> =>
          info'.maxHour > 0 /\ Last(history').time <= ToTimeT(info'.maxHour, info'.maxOffset)
    <3> SUFFICES ASSUME history # <<>> PROVE Last(history).time <= ToTimeT(hour, info.maxOffset)
      BY <2>1, <2>2, <2>6
    <3>1. Last(history).time \in Nat /\ Last(history).time <= ToTimeT(info.maxHour, info.maxOffset)
      BY <1>5, LastValue DEF HoursInv
    <3>2. ToTimeT(info.maxHour, info.maxOffset) <= ToTimeT(hour, info.maxOffset)
      BY <1>3, <1>4, <2>4, LaterCovers
    <3>3. ToTimeT(info.maxHour, info.maxOffset) \in Nat /\ ToTimeT(hour, info.maxOffset) \in Nat
      BY <1>3, <1>4, TimeTyped
    <3> QED
      BY <3>1, <3>2, <3>3
  <2> QED
    BY <2>1, <2>2, <2>3, <2>4, <2>5, <2>6, <2>7, HoursBy
<1>13. CASE WriteValue(c)
  <2> DEFINE v == [time |-> time, value |-> job[c].value]
  <2>1. /\ at[c] = "value" /\ writer' = None /\ UNCHANGED job /\ Goto(c, "idle")
        /\ data.bad => UNCHANGED <<info, history>>
        /\ ~data.bad => /\ info' = FilesInfo(info.startHour, info.minHour, info.maxHour,
                                             OffsetOf(time), info.indexSize)
                        /\ history' = Append(history, v)
    BY <1>13 DEF WriteValue, Released, Return, Goto
  <2>2. writer = c
    BY <1>2, <2>1, WriterAts
  <2>3. info.startHour = ToTimeT(info.maxHour, 0) /\ info.maxHour > 0 /\ ~StartsHour(time)
    BY <2>1 DEF HoursInv
  <2>4. CASE data.bad
    <3>1. UNCHANGED <<info, history>>
      BY <2>1, <2>4
    <3> QED
      BY <2>1, <2>2, <2>3, <3>1, HoursBy DEF HoursInv
  <2>5. CASE ~data.bad
    <3>1. /\ info'.startHour = info.startHour /\ info'.maxHour = info.maxHour
          /\ info'.maxOffset = OffsetOf(time) /\ history' = Append(history, v)
      BY <2>1, <2>5 DEF FilesInfo
    <3>2. Last(history') = v
      <4>1. v \in ValueType
        BY <1>1, <1>2, WriterFacts DEF ValueType
      <4> HIDE DEF v
      <4>2. Len(history') = Len(history) + 1 /\ history'[Len(history) + 1] = v
        BY <1>5, <3>1, <4>1, Appended
      <4> QED
        BY <4>2 DEF Last
    <3>3. Last(history').time <= ToTimeT(info'.maxHour, info'.maxOffset)
      BY <1>2, <1>3, <2>3, <3>1, <3>2, OffsetCovers
    <3> QED
      BY <2>1, <2>2, <2>3, <3>1, <3>3, HoursBy
  <2> QED
    BY <2>4, <2>5
<1>14. CASE TellEntry(c)
  <2>1. /\ at[c] = "entryTell" /\ Goto(c, "entryPosition") /\ UNCHANGED <<info, writer, history>>
        /\ writer = c /\ writer' # None /\ job'[c].time = time
    BY <1>14, TellFacts, CallersAssumption
  <2>2. info.startHour = ToTimeT(hour, 0) /\ info.maxHour < hour
    BY <2>1 DEF HoursInv
  <2>3. history' # <<>> =>
          info'.maxHour > 0 /\ Last(history').time <= ToTimeT(info'.maxHour, info'.maxOffset)
    BY <2>1 DEF HoursInv
  <2> QED
    BY <2>1, <2>2, <2>3, HoursBy
<1> QED
  BY <1>6, <1>7, <1>8, <1>9, <1>10, <1>11, <1>12, <1>13, <1>14 DEF WriteStep

(* A step of a caller beside which others may be idle.                       *)
LEMMA AloneBy ==
  ASSUME TypeInv, AloneInv, NEW c \in Callers, at[c] # "idle",
         NEW next, next # "clock", Goto(c, next), NEW j \in JobType, Set(c, j), SameCall(j, job[c]),
         job[c].alone /\ next # "idle" => history' = history,
         /\ job[c].alone /\ job[c].op = "WriteTimeValue"
         /\ next \in {"writeLock"} \union Writing /\ history' # <<>>
         => Last(history').time < j.time
  PROVE  AloneInv'
<1>1. /\ at'[c] = next /\ job'[c] = j
      /\ \A d \in Callers \ {c} : at'[d] = at[d] /\ job'[d] = job[d]
  BY OthersStay
<1>2. ASSUME NEW d \in Callers, at'[d] # "idle", job'[d].alone
      PROVE  /\ \A e \in Callers \ {d} : at'[e] = "idle"
             /\ job'[d].seen = Len(history')
             /\ job'[d].op = "WriteTimeValue" /\ at'[d] \in {"writeLock"} \union Writing /\ history' # <<>>
                  => Last(history').time < job'[d].time
  <2>1. d = c
    <3>1. CASE d # c
      <4>1. at[d] # "idle" /\ job[d].alone
        BY <1>1, <1>2, <3>1
      <4>2. at[c] = "idle"
        BY <3>1, <4>1 DEF AloneInv
      <4> QED
        BY <4>2
    <3> QED
      BY <3>1
  <2>2. job[c].alone /\ next # "idle" /\ j.seen = job[c].seen /\ j.op = job[c].op
    BY <1>1, <1>2, <2>1 DEF SameCall
  <2>3. (\A e \in Callers \ {c} : at[e] = "idle") /\ job[c].seen = Len(history)
    BY <2>2 DEF AloneInv
  <2> QED
    BY <1>1, <2>1, <2>2, <2>3
<1>3. \A d \in Callers : at'[d] = "clock" => job'[d].op = "WriteValue"
  BY <1>1 DEF AloneInv
<1> QED
  BY <1>2, <1>3 DEF AloneInv

LEMMA ReadsKeepAlone ==
  ASSUME TypeInv, AloneInv, RuleKeptAlone, NEW c \in Callers, ReadEffect(c)
  PROVE  AloneInv' /\ RuleKeptAlone'
<1>1. PICK j \in JobType : Set(c, j) /\ SameCall(j, job[c])
  BY DEF ReadEffect, JobKept
<1>2. PICK next \in Reading \union {"idle"} : Goto(c, next)
  BY DEF ReadEffect, Moved
<1>3. /\ next \notin {"writeLock"} \union Writing /\ next # "clock"
      /\ at[c] # "idle" /\ at[c] \in ReadAts
  BY WriterAts DEF ReadEffect
<1>4. history' = history /\ Answered(c)
  BY DEF ReadEffect
<1>5. AloneInv'
  BY <1>1, <1>2, <1>3, <1>4, AloneBy
<1>6. job[c].op # "WriteTimeValue"
  BY <1>3 DEF TypeInv, ReadOps
<1> QED
  BY <1>4, <1>5, <1>6 DEF Answered, RuleKeptAlone

LEMMA BeginsKeepAlone ==
  ASSUME TypeInv, AloneInv, RuleKeptAlone, NEW c \in Callers, Begin(c)
  PROVE  AloneInv' /\ RuleKeptAlone'
<1> DEFINE others == \A d \in Callers \ {c} : at[d] = "idle"
<1>1. PICK op \in WriteOps \union ReadOps, argument \in Nat :
        /\ job'[c] = Job(op, argument, FirstNumber + WritesBegun, 0, <<>>, Len(history), others)
        /\ \A d \in Callers \ {c} :
             job'[d] = IF at[d] = "idle" THEN NoJob ELSE NotAlone(job[d])
        /\ Goto(c, FirstStep(op)) /\ answer' = NoAnswer /\ history' = history
  BY BeginFacts
<1>2. at'[c] = FirstStep(op) /\ \A d \in Callers \ {c} : at'[d] = at[d]
  BY <1>1 DEF TypeInv, SharedTypeOK, Goto
<1>3. FirstStep(op) \notin {"writeLock"} \union Writing
  BY DEF FirstStep, Writing
<1>4. job'[c].seen = Len(history) /\ job'[c].alone = others /\ job'[c].op = op
  BY <1>1 DEF Job
<1>5. ASSUME NEW d \in Callers \ {c}, at'[d] # "idle" PROVE job'[d].alone = FALSE
  BY <1>5, OthersBeside
<1>6. AloneInv'
  <2>1. ASSUME NEW d \in Callers, at'[d] # "idle", job'[d].alone
        PROVE  /\ \A e \in Callers \ {d} : at'[e] = "idle"
               /\ job'[d].seen = Len(history') /\ at'[d] \notin {"writeLock"} \union Writing
    <3>1. d = c
      BY <1>5, <2>1
    <3>2. others
      BY <1>4, <2>1, <3>1
    <3> QED
      BY <1>1, <1>2, <1>3, <1>4, <3>1, <3>2
  <2>2. ASSUME NEW d \in Callers, at'[d] = "clock" PROVE job'[d].op = "WriteValue"
    <3>1. CASE d = c
      BY <1>1, <1>2, <1>4, <2>2, <3>1 DEF FirstStep, WriteOps, ReadOps
    <3>2. CASE d # c
      <4>1. at[d] = "clock" /\ job[d].op = "WriteValue"
        BY <1>2, <2>2, <3>2 DEF AloneInv
      <4> QED
        BY <3>2, <4>1, OthersBeside
    <3> QED
      BY <3>1, <3>2
  <2> QED
    BY <2>1, <2>2 DEF AloneInv
<1>7. answer'.op = "none"
  BY <1>1 DEF NoAnswer
<1> QED
  BY <1>6, <1>7 DEF RuleKeptAlone

LEMMA WritesKeepAlone ==
  ASSUME TypeInv, HoursInv, AloneInv, RuleKeptAlone, NEW c \in Callers, WriteStep(c)
  PROVE  AloneInv' /\ RuleKeptAlone'
<1> DEFINE time == job[c].time
<1>1. at[c] \in WriteAts /\ at[c] # "idle"
  BY WriteLogs, WriterAts
<1>2. /\ job[c] \in JobType /\ time \in Nat /\ (UNCHANGED job => Set(c, job[c]))
      /\ SameCall(job[c], job[c])
      /\ history \in Seq(ValueType) /\ Len(history) \in Nat /\ job[c].seen \in Nat
  BY <1>1, WriterFacts, JobsMade, JobFields
<1>3. CASE ReadClock(c)
  <2>1. /\ at[c] = "clock" /\ Set(c, WithTime(job[c], now)) /\ Goto(c, "writeLock")
        /\ UNCHANGED <<history, answer>> /\ now \in Nat
    BY <1>3 DEF ReadClock, TypeInv, SharedTypeOK
  <2>2. WithTime(job[c], now) \in JobType /\ SameCall(WithTime(job[c], now), job[c])
    BY <1>2, <2>1, JobsMade
  <2>3. job[c].op = "WriteValue"
    BY <2>1 DEF AloneInv
  <2> QED
    BY <1>1, <2>1, <2>2, <2>3, AloneBy DEF RuleKeptAlone
<1>4. CASE CheckMoreRecent(c)
  <2>1. at[c] = "check" /\ UNCHANGED <<history, job>>
    BY <1>4 DEF CheckMoreRecent
  <2>2. CASE Return(c, FALSE)
    <3>1. Goto(c, "idle") /\ answer'.ok = FALSE
      BY <2>2, ReturnAnswers
    <3> QED
      BY <1>1, <1>2, <2>1, <3>1, AloneBy DEF Writing, RuleKeptAlone
  <2>3. CASE ~HasMoreRecent(time) /\ Goto(c, "writeLock") /\ UNCHANGED answer
    <3>1. ASSUME job[c].alone, history # <<>> PROVE Last(history).time < time
      <4>1. writer = None
        <5>1. \A d \in Callers : at[d] \notin Writing
          BY <1>1, <2>1, <3>1 DEF AloneInv, Writing
        <5> QED
          BY <5>1 DEF TypeInv, SharedTypeOK
      <4>2. /\ info.maxHour > 0 /\ Last(history).time <= ToTimeT(info.maxHour, info.maxOffset)
            /\ Last(history).time \in Nat
        BY <1>2, <3>1, LastValue DEF HoursInv
      <4>3. ToTimeT(info.maxHour, info.maxOffset) \in Nat
        BY InfoTyped, TimeTyped
      <4>4. ToTimeT(info.maxHour, info.maxOffset) < time
        BY <1>2, <2>3, <4>2, <4>3 DEF HasMoreRecent
      <4> QED
        BY <1>2, <4>2, <4>3, <4>4
    <3> QED
      BY <1>1, <1>2, <2>1, <2>3, <3>1, AloneBy DEF RuleKeptAlone
  <2> QED
    BY <1>4, <2>2, <2>3 DEF CheckMoreRecent
<1>5. CASE LockWrite(c) \/ WriteEndLine(c) \/ WriteEntryHour(c) \/ WriteEntryPosition(c) \/ WriteHour(c)
  <2>1. /\ at[c] \in {"writeLock"} \union Writing /\ UNCHANGED <<history, answer, job>>
        /\ \E next \in Writing : Goto(c, next)
    BY <1>5 DEF LockWrite, WriteEndLine, WriteEntryHour, WriteEntryPosition, WriteHour, Writing
  <2>2. PICK next \in Writing : Goto(c, next)
    BY <2>1
  <2>3. next # "clock"
    BY DEF Writing
  <2>4. job[c].alone /\ job[c].op = "WriteTimeValue" /\ history # <<>> => Last(history).time < time
    BY <1>1, <2>1 DEF AloneInv
  <2> QED
    BY <1>1, <1>2, <2>1, <2>2, <2>3, <2>4, AloneBy DEF RuleKeptAlone
<1>6. CASE WriteValue(c)
  <2> DEFINE v == [time |-> time, value |-> job[c].value]
  <2>1. /\ at[c] = "value" /\ UNCHANGED job /\ Return(c, ~data.bad)
        /\ history' = history \/ history' = Append(history, v)
    BY <1>6 DEF WriteValue
  <2>2. /\ Goto(c, "idle") /\ answer'.op = job[c].op /\ answer'.seen = job[c].seen
        /\ answer'.time = time /\ answer'.alone = job[c].alone
    BY <2>1, ReturnAnswers
  <2>3. AloneInv'
    BY <1>1, <1>2, <2>1, <2>2, AloneBy DEF Writing
  <2>4. ASSUME job[c].op = "WriteTimeValue", job[c].alone, job[c].seen > 0
        PROVE  history'[job[c].seen].time < time
    <3>1. job[c].seen = Len(history) /\ history # <<>>
      BY <1>1, <1>2, <2>4 DEF AloneInv
    <3>2. Last(history).time < time /\ Last(history) = history[Len(history)]
      BY <1>1, <1>2, <2>1, <2>4, <3>1, LastValue DEF AloneInv, Writing
    <3>3. history'[Len(history)] = history[Len(history)]
      <4>1. v \in ValueType
        BY <1>1, <1>2, WriterFacts DEF ValueType
      <4>2. Len(history) \in 1 .. Len(history)
        BY <1>2, <2>4, <3>1
      <4> HIDE DEF v
      <4> QED
        BY <1>2, <2>1, <4>1, <4>2, Appended
    <3> QED
      BY <3>1, <3>2, <3>3
  <2> QED
    BY <2>2, <2>3, <2>4 DEF RuleKeptAlone
<1>7. CASE TellEntry(c)
  <2> DEFINE j == WithSeek(job[c], PositionOf(data))
  <2>1. /\ at[c] \in Writing /\ UNCHANGED <<history, answer>> /\ Goto(c, "entryPosition")
        /\ Set(c, j) /\ j \in JobType /\ SameCall(j, job[c])
    BY <1>7, TellFacts
  <2>2. j.time = time
    BY DEF WithSeek, Job
  <2> HIDE DEF j
  <2>3. job[c].alone /\ job[c].op = "WriteTimeValue" /\ history # <<>> => Last(history).time < time
    BY <1>1, <2>1 DEF AloneInv
  <2> QED
    BY <1>1, <2>1, <2>2, <2>3, AloneBy DEF RuleKeptAlone
<1> QED
  BY <1>3, <1>4, <1>5, <1>6, <1>7 DEF WriteStep

(* At the start FilesInfo is exact: it has the time of the last value.       *)
LEMMA InitRule == Init => RuleInv
<1> SUFFICES ASSUME Init PROVE RuleInv
  OBVIOUS
<1>1. PICK blocks \in Starts :
        LET times == FlattenSeq(blocks)
        IN  /\ data = FileAtEnd(DataCells(blocks, Len(blocks))) /\ index = FileAtEnd(IndexCells(blocks))
            /\ info = InfoBefore(blocks)
            /\ history = [k \in 1 .. Len(times) |-> [time |-> times[k], value |-> k]]
  BY DEF Init
<1>2. answer.op = "none" /\ \A c \in Callers : at[c] = "idle"
  BY DEF Init, NoAnswer
<1> DEFINE times == FlattenSeq(blocks)
           n     == Len(times)
<1>3. /\ history \in Seq(ValueType) /\ Len(history) = n /\ n \in Nat
      /\ \A k \in 1 .. n : history[k].time = times[k]
  BY <1>1, InitHistory
<1>4. Len(blocks) \in Nat
  BY StartsAssumption
<1>5. /\ info.startHour = ToTimeT(info.maxHour, 0)
      /\ history # <<>> =>
           info.maxHour > 0 /\ Last(history).time <= ToTimeT(info.maxHour, info.maxOffset)
  <2>1. CASE Len(blocks) = 0
    <3>1. blocks = <<>>
      BY <2>1, StartsAssumption
    <3>2. info = FilesInfo(0, 0, 0, 0, 0)
      BY <1>1, <3>1 DEF InfoBefore
    <3>3. FlattenSeq(<<>>) = <<>>
      BY DEF FlattenSeq
    <3>4. times = <<>>
      BY <3>1, <3>3
    <3> HIDE DEF times
    <3>5. history = <<>>
      BY <1>3, <3>4
    <3>6. ToTimeT(0, 0) = 0
      BY HourSecsAssumption DEF ToTimeT
    <3> QED
      BY <3>2, <3>5, <3>6 DEF FilesInfo
  <2>2. CASE Len(blocks) # 0
    <3> DEFINE N     == Len(blocks)
               block == blocks[N]
               hour  == BlockHour(block)
               off   == OffsetIn(hour, block[Len(block)])
    <3>1. /\ info = FilesInfo(ToTimeT(hour, 0), BlockHour(blocks[1]), hour, off, N)
          /\ hour \in Nat \ {0}
      BY <1>1, <1>4, <2>2, InitInfo
    <3>2. info.startHour = ToTimeT(hour, 0) /\ info.maxHour = hour /\ info.maxOffset = off
      BY <3>1 DEF FilesInfo
    <3>3. N \in 1 .. N /\ blocks \in Seq(Seq(Nat)) /\ block \in Seq(Nat) /\ Len(block) \in Nat \ {0}
      BY <1>4, <2>2, BlockFacts
    <3>4. times[n] = block[Len(block)] /\ n > 0 /\ block[Len(block)] \in Nat
      <4> DEFINE front == FlattenSeq(SubSeq(blocks, 1, N - 1))
      <4>1. times = front \o block /\ front \in Seq(Nat)
        <5>1. N - 1 \in 0 .. Len(blocks)
          BY <3>3
        <5> QED
          BY <3>3, <5>1, FlattenStep, FlattenFacts
      <4> HIDE DEF front, block, times
      <4>2. /\ Len(times) = Len(front) + Len(block) /\ Len(front) \in Nat
            /\ \A i \in Len(front) + 1 .. Len(front) + Len(block) : times[i] = block[i - Len(front)]
        BY <3>3, <4>1, Joined
      <4>3. Len(times) \in Len(front) + 1 .. Len(front) + Len(block) /\ Len(times) - Len(front) = Len(block)
        BY <3>3, <4>2
      <4>4. block[Len(block)] \in Nat
        BY <3>3
      <4> QED
        BY <4>2, <4>3, <4>4
    <3>5. Last(history).time = block[Len(block)]
      <4>1. n \in 1 .. n
        BY <1>3, <3>4
      <4>2. Last(history) = history[n]
        BY <1>3 DEF Last
      <4> QED
        BY <1>3, <3>4, <4>1, <4>2
    <3>6. ToTimeT(hour, off) = block[Len(block)]
      <4>1. hour * HourSecs \in Nat
        BY <3>1, HourSecsAssumption
      <4> HIDE DEF block, hour
      <4> QED
        BY <3>4, <4>1 DEF ToTimeT, OffsetIn
    <3> HIDE DEF hour, off, block
    <3> QED
      BY <3>1, <3>2, <3>4, <3>5, <3>6
  <2> QED
    BY <2>1, <2>2
<1>6. HoursInv
  BY <1>2, <1>5 DEF HoursInv
<1> QED
  BY <1>2, <1>6 DEF RuleInv, AloneInv, RuleKeptAlone

LEMMA RuleStep == TypeInv /\ RuleInv /\ [Next]_vars => RuleInv'
<1> SUFFICES ASSUME TypeInv, RuleInv, [Next]_vars PROVE RuleInv'
  OBVIOUS
<1> USE DEF RuleInv
<1>1. CASE Tick \/ UNCHANGED vars
  <2>1. UNCHANGED <<info, writer, history, at, job, answer>>
    BY <1>1 DEF Tick, vars
  <2>2. HoursInv'
    BY <2>1, HoursKept
  <2> QED
    BY <2>1, <2>2 DEF AloneInv, RuleKeptAlone
<1>2. CASE \E c \in Callers : Begin(c)
  BY <1>2, BeginsKeepHours, BeginsKeepAlone
<1>3. CASE \E c \in Callers : WriteStep(c)
  BY <1>3, WritesKeepHours, WritesKeepAlone
<1>4. CASE \E c \in Callers : ReadStep(c)
  BY <1>4, ReadsHaveEffect, ReadsKeepHours, ReadsKeepAlone
<1> QED
  BY <1>1, <1>2, <1>3, <1>4 DEF Next

(* A dated write that runs alone never follows a later value, whatever       *)
(* writes that failed or overlapped have left in FilesInfo.                  *)
THEOREM RuleAlwaysKeptAlone == Spec => []RuleKeptAlone
<1>1. Init => TypeInv /\ RuleInv
  BY InitTyped, InitRule
<1>2. TypeInv /\ RuleInv /\ [Next]_vars => (TypeInv /\ RuleInv)'
  BY TypeStep, RuleStep
<1>3. RuleInv => RuleKeptAlone
  BY DEF RuleInv
<1> QED
  BY <1>1, <1>2, <1>3, PTL DEF Spec

-----------------------------------------------------------------------------
(* Blocks among writers.                                                     *)

GoodAtEnd(s) == ~s.bad /\ AtEnd(s.file)

(* What the log c and the index e of n entries are like before the step of   *)
(* the writer, "idle" for no writer: the block is whole, or what stands      *)
(* behind it is the part of the next one that was written so far.            *)
InPhase(step, c, e, n, startHour, hour) ==
  LET last == c[Len(c)].kind
  IN  /\ step = "idle" => last = IF startHour = 0 THEN "header" ELSE "value"
      /\ step = "endLine" => last = "value"
      /\ step \in {"entryHour", "entryTell", "entryPosition", "hour"} => last \in {"header", "endline"}
      /\ step = "value" => last \in {"hour", "value"}
      /\ step \in {"idle", "endLine", "entryHour", "value"} => Indexes(e, n, c)
      /\ step \in {"entryTell", "entryPosition"} =>
           \E f \in Seq(IndexCell) : Indexes(f, n, c) /\ e = Append(f, HourCell(hour))
      /\ step = "hour" =>
           \E f \in Seq(IndexCell), m \in Nat :
             /\ Indexes(f, m, c) /\ n = m + 1
             /\ e = Append(Append(f, HourCell(hour)), PositionCell(Len(c)))

(* As long as nobody reads, both streams are good and at their end, and the  *)
(* position the writer was told is still that of the end.                    *)
BlockInv ==
  ReadsBegun = 0 =>
    /\ GoodAtEnd(data) /\ GoodAtEnd(index)
    /\ Len(Log) > 0 /\ HoursPlaced(Log)
    /\ \A c \in Callers : at[c] \notin ReadAts
    /\ writer = None =>
         InPhase("idle", Log, Contents(index.file), info.indexSize, info.startHour, 0)
    /\ \A c \in Callers : writer = c =>
         /\ InPhase(at[c], Log, Contents(index.file), info.indexSize, info.startHour,
                    FromTimeT(job[c].time))
         /\ at[c] = "entryPosition" => job[c].seek = Len(Log)

(* A cell other than an hour, behind an hour or a value.                     *)
LEMMA CellAdded ==
  ASSUME NEW c \in Seq(Cell), Len(c) > 0, HoursPlaced(c), c[Len(c)].kind \in {"hour", "value"},
         NEW cell \in Cell, cell.kind # "hour", NEW e, NEW n \in Nat, Indexes(e, n, c)
  PROVE  /\ Len(Append(c, cell)) > 0 /\ HoursPlaced(Append(c, cell))
         /\ Append(c, cell)[Len(Append(c, cell))] = cell
         /\ Indexes(e, n, Append(c, cell))
<1> DEFINE d == <<cell>>
<1>1. d \in Seq(Cell) /\ Append(c, cell) = c \o d /\ Len(d) = 1 /\ d[1] = cell
  OBVIOUS
<1>2. \A i \in 1 .. Len(d) : d[i].kind # "hour"
  BY <1>1
<1> HIDE DEF d
<1>3. Indexes(e, n, Append(c, cell))
  BY <1>1, <1>2, NoHourAdded
<1>4. HoursPlaced(Append(c, cell))
  BY PlacedGrows
<1> QED
  BY <1>3, <1>4, Appended

(* Nothing that the streams hold changes, nor what the writer is at.         *)
LEMMA BlocksKept ==
  ASSUME TypeInv, BlockInv, UNCHANGED <<data, index, info, writer>>,
         ReadsBegun' = 0 => ReadsBegun = 0 /\ \A c \in Callers : at'[c] \notin ReadAts,
         \A c \in Callers : writer = c =>
           at'[c] = at[c] /\ job'[c].time = job[c].time /\ job'[c].seek = job[c].seek
  PROVE  BlockInv'
<1> SUFFICES ASSUME ReadsBegun' = 0
             PROVE  /\ GoodAtEnd(data) /\ GoodAtEnd(index)
                    /\ Len(Log) > 0 /\ HoursPlaced(Log)
                    /\ \A c \in Callers : at'[c] \notin ReadAts
                    /\ writer = None =>
                         InPhase("idle", Log, Contents(index.file), info.indexSize, info.startHour, 0)
                    /\ \A c \in Callers : writer = c =>
                         /\ InPhase(at'[c], Log, Contents(index.file), info.indexSize,
                                    info.startHour, FromTimeT(job'[c].time))
                         /\ at'[c] = "entryPosition" => job'[c].seek = Len(Log)
  BY DEF BlockInv, Log, GoodAtEnd
<1> QED
  BY DEF BlockInv

(* The step of the writer, or of the caller that takes the mutex.            *)
LEMMA BlocksBy ==
  ASSUME TypeInv, BlockInv, NEW c \in Callers, writer \in {None, c}, writer' \in {None, c},
         NEW next, Goto(c, next), next \notin ReadAts, UNCHANGED calls,
         job'[c].time = job[c].time,
         ReadsBegun = 0 /\ next = "entryPosition" => job'[c].seek = Len(Log'),
         ReadsBegun = 0 =>
           /\ GoodAtEnd(data') /\ GoodAtEnd(index') /\ Len(Log') > 0 /\ HoursPlaced(Log')
           /\ writer' = None =>
                InPhase("idle", Log', Contents(index'.file), info'.indexSize, info'.startHour, 0)
           /\ writer' = c =>
                InPhase(next, Log', Contents(index'.file), info'.indexSize, info'.startHour,
                        FromTimeT(job[c].time))
  PROVE  BlockInv'
<1>1. at'[c] = next /\ \A d \in Callers \ {c} : at'[d] = at[d]
  BY DEF TypeInv, SharedTypeOK, Goto
<1>2. ReadsBegun' = ReadsBegun
  BY DEF ReadsBegun
<1>3. c # None
  BY CallersAssumption
<1> SUFFICES ASSUME ReadsBegun = 0
             PROVE  /\ GoodAtEnd(data') /\ GoodAtEnd(index') /\ Len(Log') > 0 /\ HoursPlaced(Log')
                    /\ \A d \in Callers : at'[d] \notin ReadAts
                    /\ writer' = None =>
                         InPhase("idle", Log', Contents(index'.file), info'.indexSize,
                                 info'.startHour, 0)
                    /\ \A d \in Callers : writer' = d =>
                         /\ InPhase(at'[d], Log', Contents(index'.file), info'.indexSize,
                                    info'.startHour, FromTimeT(job'[d].time))
                         /\ at'[d] = "entryPosition" => job'[d].seek = Len(Log')
  BY <1>2 DEF BlockInv, GoodAtEnd
<1>4. \A d \in Callers : at'[d] \notin ReadAts
  BY <1>1 DEF BlockInv
<1>5. \A d \in Callers : writer' = d => d = c
  BY CallersAssumption
<1> QED
  BY <1>1, <1>4, <1>5

(* Once an hour is in force, startHour tells that the log is not empty.      *)
LEMMA StartHourSet ==
  ASSUME TypeInv, info.startHour = ToTimeT(info.maxHour, 0), info.maxHour > 0
  PROVE  info.startHour # 0
<1>1. HourSecs \in Nat \ {0} /\ info.maxHour \in Nat \ {0}
  BY HourSecsAssumption, InfoTyped
<1>2. info.maxHour * HourSecs # 0
  BY <1>1
<1> QED
  BY <1>1, <1>2 DEF ToTimeT

LEMMA ReadsKeepBlocks ==
  ASSUME BlockInv, NEW c \in Callers, ReadEffect(c)
  PROVE  BlockInv'
<1>1. ReadsBegun' = ReadsBegun
  BY DEF ReadEffect, ReadsBegun
<1>2. ReadsBegun # 0
  BY DEF BlockInv, ReadEffect
<1> QED
  BY <1>1, <1>2 DEF BlockInv

LEMMA BeginsKeepBlocks ==
  ASSUME TypeInv, BlockInv, NEW c \in Callers, Begin(c)
  PROVE  BlockInv'
<1>1. PICK op \in WriteOps \union ReadOps :
        /\ \A d \in Callers \ {c} :
             job'[d] = IF at[d] = "idle" THEN NoJob ELSE NotAlone(job[d])
        /\ at[c] = "idle" /\ Goto(c, FirstStep(op)) /\ calls' = [calls EXCEPT ![op] = @ + 1]
        /\ UNCHANGED <<data, index, info, writer>>
  BY BeginFacts
<1>2. at'[c] = FirstStep(op) /\ \A d \in Callers \ {c} : at'[d] = at[d]
  BY <1>1 DEF TypeInv, SharedTypeOK, Goto
<1>3. ReadsBegun' = 0 => ReadsBegun = 0 /\ op \in WriteOps
  <2>1. calls \in [WriteOps \union ReadOps -> 0 .. MaxCalls]
    BY DEF TypeInv, SharedTypeOK
  <2>2. \A o \in WriteOps \union ReadOps :
          calls[o] \in Nat /\ calls'[o] = IF o = op THEN calls[o] + 1 ELSE calls[o]
    BY <1>1, <2>1, CallsCounted
  <2> QED
    BY <2>2 DEF ReadsBegun, WriteOps, ReadOps
<1>4. op \in WriteOps => FirstStep(op) \notin ReadAts
  BY DEF WriteOps, FirstStep, ReadAts, Reading, Ats
<1>5. ReadsBegun' = 0 => ReadsBegun = 0 /\ \A d \in Callers : at'[d] \notin ReadAts
  BY <1>2, <1>3, <1>4 DEF BlockInv
<1>6. ASSUME NEW d \in Callers, writer = d
      PROVE  at'[d] = at[d] /\ job'[d].time = job[d].time /\ job'[d].seek = job[d].seek
  <2>1. at[d] \in Writing
    BY <1>6 DEF TypeInv, SharedTypeOK
  <2>2. d # c /\ at[d] # "idle"
    BY <1>1, <2>1, WriterAts
  <2> QED
    BY <2>2, OthersBeside
<1> QED
  BY <1>1, <1>5, <1>6, BlocksKept

(* Steps of a write that neither hold the mutex nor take it.                 *)
LEMMA OutsideKeepsBlocks ==
  ASSUME TypeInv, BlockInv, NEW c \in Callers, ReadClock(c) \/ CheckMoreRecent(c)
  PROVE  BlockInv'
<1>1. /\ at[c] \in {"clock", "check"} /\ UNCHANGED <<data, index, info, writer, calls>>
      /\ \E next \in {"writeLock", "idle"} : Goto(c, next)
      /\ \E j : Set(c, j)
  <2>1. CASE ReadClock(c)
    BY <2>1 DEF ReadClock
  <2>2. CASE CheckMoreRecent(c)
    <3>1. Goto(c, "writeLock") \/ Goto(c, "idle")
      BY <2>2 DEF CheckMoreRecent, Return, Goto
    <3>2. at[c] = "check" /\ UNCHANGED <<data, index, info, writer, job, calls>>
      BY <2>2 DEF CheckMoreRecent
    <3>3. Set(c, job[c])
      BY <3>2, WriterAts, WriterFacts
    <3> QED
      BY <3>1, <3>2, <3>3
  <2> QED
    BY <2>1, <2>2
<1>2. PICK next \in {"writeLock", "idle"} : Goto(c, next) /\ \E j : Set(c, j)
  BY <1>1
<1>3. /\ at'[c] = next /\ \A d \in Callers \ {c} : at'[d] = at[d] /\ job'[d] = job[d]
  BY <1>2, OthersStay
<1>4. ReadsBegun' = ReadsBegun
  BY <1>1 DEF ReadsBegun
<1>5. writer # c
  BY <1>1, WriterAts, WriterFacts
<1>6. next \notin ReadAts
  BY WriterAts
<1>7. ReadsBegun' = 0 => ReadsBegun = 0 /\ \A d \in Callers : at'[d] \notin ReadAts
  BY <1>3, <1>4, <1>6 DEF BlockInv
<1> QED
  BY <1>1, <1>3, <1>5, <1>7, BlocksKept

LEMMA LockKeepsBlocks ==
  ASSUME TypeInv, HoursInv, BlockInv, NEW c \in Callers, LockWrite(c)
  PROVE  BlockInv'
<1> DEFINE time == job[c].time
           next == IF ~StartsHour(time) THEN "value"
                   ELSE IF info.startHour > 0 THEN "endLine" ELSE "entryHour"
           e    == Contents(index.file)
<1>1. /\ at[c] = "writeLock" /\ writer = None /\ writer' = c /\ Goto(c, next)
      /\ UNCHANGED <<data, index, info, job, calls>>
  BY DEF LockWrite, Free
<1>2. time \in Nat /\ HourSecs <= time /\ info.startHour \in Nat
  BY <1>1, WriterAts, WriterFacts, InfoTyped
<1>3. info.startHour = ToTimeT(info.maxHour, 0)
  BY <1>1 DEF HoursInv
<1>4. ~StartsHour(time) => info.startHour # 0
  BY <1>2, <1>3, HourInForce, StartHourSet
<1>5. next \notin ReadAts /\ next # "entryPosition" /\ c # None
  BY CallersAssumption DEF ReadAts, Reading
<1>6. ASSUME ReadsBegun = 0
      PROVE  /\ GoodAtEnd(data) /\ GoodAtEnd(index) /\ Len(Log) > 0 /\ HoursPlaced(Log)
             /\ InPhase(next, Log, e, info.indexSize, info.startHour, FromTimeT(time))
  <2>1. InPhase("idle", Log, e, info.indexSize, info.startHour, 0)
    BY <1>1, <1>6 DEF BlockInv
  <2>2. /\ Log[Len(Log)].kind = (IF info.startHour = 0 THEN "header" ELSE "value")
        /\ Indexes(e, info.indexSize, Log)
    BY <2>1 DEF InPhase
  <2>3. InPhase(next, Log, e, info.indexSize, info.startHour, FromTimeT(time))
    <3>1. CASE ~StartsHour(time)
      BY <1>4, <2>2, <3>1 DEF InPhase
    <3>2. CASE StartsHour(time) /\ info.startHour > 0
      BY <2>2, <3>2 DEF InPhase
    <3>3. CASE StartsHour(time) /\ info.startHour = 0
      BY <2>2, <3>3 DEF InPhase
    <3> QED
      BY <1>2, <3>1, <3>2, <3>3
  <2> QED
    BY <1>6, <2>3 DEF BlockInv
<1>7. UNCHANGED Log
  BY <1>1 DEF Log
<1> HIDE DEF next
<1> QED
  BY <1>1, <1>5, <1>6, <1>7, BlocksBy

(* What the writer finds when nobody reads.                                  *)
LEMMA LogWritten ==
  ASSUME data \in StreamOf(Cell), GoodAtEnd(data), NEW cell \in Cell, data' = WriteTo(data, cell)
  PROVE  GoodAtEnd(data') /\ Log' = Append(Log, cell)
  BY WriteToFacts DEF GoodAtEnd, Log

LEMMA IndexWritten ==
  ASSUME index \in StreamOf(IndexCell), GoodAtEnd(index), NEW cell \in IndexCell,
         index' = WriteTo(index, cell)
  PROVE  GoodAtEnd(index') /\ Contents(index'.file) = Append(Contents(index.file), cell)
  BY WriteToFacts DEF GoodAtEnd

LEMMA WriterPhase ==
  ASSUME TypeInv, BlockInv, ReadsBegun = 0, NEW c \in Callers, at[c] \in Writing
  PROVE  /\ writer = c /\ data \in StreamOf(Cell) /\ index \in StreamOf(IndexCell)
         /\ Log \in Seq(Cell) /\ Len(Log) \in Nat /\ info.indexSize \in Nat
         /\ GoodAtEnd(data) /\ GoodAtEnd(index) /\ Len(Log) > 0 /\ HoursPlaced(Log)
         /\ InPhase(at[c], Log, Contents(index.file), info.indexSize, info.startHour,
                    FromTimeT(job[c].time))
<1>1. writer = c /\ data \in StreamOf(Cell) /\ index \in StreamOf(IndexCell)
  BY WriterAts, WriterFacts
<1> QED
  BY <1>1, StreamFields, InfoTyped DEF BlockInv, Log

LEMMA EndLineKeepsBlocks ==
  ASSUME TypeInv, BlockInv, NEW c \in Callers, WriteEndLine(c)
  PROVE  BlockInv'
<1>1. /\ at[c] = "endLine" /\ data' = WriteTo(data, EndLine) /\ Goto(c, "entryHour")
      /\ UNCHANGED <<index, info, writer, job, calls>>
  BY DEF WriteEndLine
<1>2. at[c] \in Writing /\ "entryHour" \notin ReadAts
  BY <1>1, WriterAts
<1>3. writer = c
  BY <1>2, WriterAts, WriterFacts
<1>4. ASSUME ReadsBegun = 0
      PROVE  /\ GoodAtEnd(data') /\ Len(Log') > 0 /\ HoursPlaced(Log') /\ GoodAtEnd(index)
             /\ InPhase("entryHour", Log', Contents(index.file), info.indexSize, info.startHour,
                        FromTimeT(job[c].time))
  <2>1. /\ Log[Len(Log)].kind = "value" /\ Indexes(Contents(index.file), info.indexSize, Log)
        /\ data \in StreamOf(Cell) /\ Log \in Seq(Cell) /\ info.indexSize \in Nat
        /\ GoodAtEnd(data) /\ GoodAtEnd(index) /\ Len(Log) > 0 /\ HoursPlaced(Log)
    BY <1>1, <1>2, <1>4, WriterPhase DEF InPhase
  <2>2. GoodAtEnd(data') /\ Log' = Append(Log, EndLine)
    BY <1>1, <2>1, CellsWritten, LogWritten
  <2>3. /\ Len(Log') > 0 /\ HoursPlaced(Log') /\ Log'[Len(Log')] = EndLine
        /\ Indexes(Contents(index.file), info.indexSize, Log')
    BY <2>1, <2>2, CellsWritten, CellAdded
  <2> QED
    BY <2>1, <2>2, <2>3, CellsWritten DEF InPhase
<1> QED
  BY <1>1, <1>2, <1>3, <1>4, CallersAssumption, BlocksBy

LEMMA EntryHourKeepsBlocks ==
  ASSUME TypeInv, BlockInv, NEW c \in Callers, WriteEntryHour(c)
  PROVE  BlockInv'
<1> DEFINE hour == FromTimeT(job[c].time)
           e    == Contents(index.file)
<1>1. /\ at[c] = "entryHour" /\ index' = WriteTo(index, HourCell(hour)) /\ Goto(c, "entryTell")
      /\ info'.indexSize = info.indexSize
      /\ UNCHANGED <<data, writer, job, calls>>
  BY DEF WriteEntryHour, FilesInfo
<1>2. at[c] \in Writing /\ "entryTell" \notin ReadAts
  BY <1>1, WriterAts
<1>3. writer = c /\ HourCell(hour) \in IndexCell
  BY <1>2, WriterAts, WriterFacts, WriteMakes
<1>4. UNCHANGED Log
  BY <1>1 DEF Log
<1>5. ASSUME ReadsBegun = 0
      PROVE  /\ GoodAtEnd(data) /\ Len(Log) > 0 /\ HoursPlaced(Log) /\ GoodAtEnd(index')
             /\ InPhase("entryTell", Log, Contents(index'.file), info.indexSize, info'.startHour, hour)
  <2>1. /\ Log[Len(Log)].kind \in {"header", "endline"} /\ Indexes(e, info.indexSize, Log)
        /\ index \in StreamOf(IndexCell)
        /\ GoodAtEnd(data) /\ GoodAtEnd(index) /\ Len(Log) > 0 /\ HoursPlaced(Log)
    BY <1>1, <1>2, <1>5, WriterPhase DEF InPhase
  <2>2. GoodAtEnd(index') /\ Contents(index'.file) = Append(e, HourCell(hour))
    BY <1>1, <1>3, <2>1, WriteToFacts DEF GoodAtEnd
  <2>3. e \in Seq(IndexCell)
    BY <2>1, StreamFields
  <2> HIDE DEF e, hour
  <2> QED
    BY <2>1, <2>2, <2>3 DEF InPhase
<1> QED
  BY <1>1, <1>2, <1>3, <1>4, <1>5, CallersAssumption, BlocksBy

LEMMA TellKeepsBlocks ==
  ASSUME TypeInv, BlockInv, NEW c \in Callers, TellEntry(c)
  PROVE  BlockInv'
<1> DEFINE hour == FromTimeT(job[c].time)
           e    == Contents(index.file)
<1>1. /\ at[c] = "entryTell" /\ at[c] \in Writing /\ Goto(c, "entryPosition") /\ writer = c
      /\ UNCHANGED <<data, index, info, writer, calls>>
      /\ job'[c].time = job[c].time /\ job'[c].seek = PositionOf(data)
  BY TellFacts
<1>2. "entryPosition" \notin ReadAts /\ UNCHANGED Log
  BY <1>1, WriterAts DEF Log
<1>3. ASSUME ReadsBegun = 0
      PROVE  /\ GoodAtEnd(data) /\ GoodAtEnd(index) /\ Len(Log) > 0 /\ HoursPlaced(Log)
             /\ InPhase("entryPosition", Log, e, info.indexSize, info.startHour, hour)
             /\ job'[c].seek = Len(Log)
  <2>1. /\ data \in StreamOf(Cell) /\ GoodAtEnd(data) /\ GoodAtEnd(index)
        /\ Len(Log) > 0 /\ HoursPlaced(Log)
        /\ InPhase("entryTell", Log, e, info.indexSize, info.startHour, hour)
    BY <1>1, <1>3, WriterPhase
  <2>2. PositionOf(data) = Len(Log)
    BY <2>1, PositionFacts DEF GoodAtEnd, Log
  <2> HIDE DEF e, hour
  <2>3. InPhase("entryPosition", Log, e, info.indexSize, info.startHour, hour)
    BY <2>1 DEF InPhase
  <2> QED
    BY <1>1, <2>1, <2>2, <2>3
<1> QED
  BY <1>1, <1>2, <1>3, CallersAssumption, BlocksBy

LEMMA EntryPositionKeepsBlocks ==
  ASSUME TypeInv, BlockInv, NEW c \in Callers, WriteEntryPosition(c)
  PROVE  BlockInv'
<1> DEFINE hour == FromTimeT(job[c].time)
           e    == Contents(index.file)
           cell == PositionCell(job[c].seek)
<1>1. /\ at[c] = "entryPosition" /\ index' = WriteTo(index, cell) /\ Goto(c, "hour")
      /\ info'.indexSize = info.indexSize + 1
      /\ UNCHANGED <<data, writer, job, calls>>
  BY DEF WriteEntryPosition, FilesInfo
<1>2. at[c] \in Writing /\ "hour" \notin ReadAts
  BY <1>1, WriterAts
<1>3. writer = c /\ cell \in IndexCell
  <2>1. writer = c /\ job[c].time \in Nat /\ job[c] \in JobType
    BY <1>2, WriterAts, WriterFacts
  <2> QED
    BY <2>1, JobFields, WriteMakes
<1>4. UNCHANGED Log
  BY <1>1 DEF Log
<1>5. ASSUME ReadsBegun = 0
      PROVE  /\ GoodAtEnd(data) /\ Len(Log) > 0 /\ HoursPlaced(Log) /\ GoodAtEnd(index')
             /\ InPhase("hour", Log, Contents(index'.file), info'.indexSize, info'.startHour, hour)
  <2>1. /\ Log[Len(Log)].kind \in {"header", "endline"}
        /\ data \in StreamOf(Cell) /\ index \in StreamOf(IndexCell) /\ info.indexSize \in Nat
        /\ GoodAtEnd(data) /\ GoodAtEnd(index) /\ Len(Log) > 0 /\ HoursPlaced(Log)
        /\ \E f \in Seq(IndexCell) : Indexes(f, info.indexSize, Log) /\ e = Append(f, HourCell(hour))
    BY <1>1, <1>2, <1>5, WriterPhase DEF InPhase
  <2>2. cell = PositionCell(Len(Log))
    BY <1>1, <1>3, <1>5 DEF BlockInv
  <2>3. GoodAtEnd(index') /\ Contents(index'.file) = Append(e, cell)
    BY <1>1, <1>3, <2>1, IndexWritten
  <2>4. \E f \in Seq(IndexCell), m \in Nat :
          /\ Indexes(f, m, Log) /\ info'.indexSize = m + 1
          /\ Contents(index'.file) = Append(Append(f, HourCell(hour)), PositionCell(Len(Log)))
    BY <1>1, <2>1, <2>2, <2>3
  <2> HIDE DEF e, hour, cell
  <2> QED
    BY <2>1, <2>3, <2>4 DEF InPhase
<1> QED
  BY <1>1, <1>2, <1>3, <1>4, <1>5, CallersAssumption, BlocksBy

LEMMA HourKeepsBlocks ==
  ASSUME TypeInv, BlockInv, NEW c \in Callers, WriteHour(c)
  PROVE  BlockInv'
<1> DEFINE hour == FromTimeT(job[c].time)
           e    == Contents(index.file)
<1>1. /\ at[c] = "hour" /\ data' = WriteTo(data, HourCell(hour)) /\ Goto(c, "value")
      /\ info'.indexSize = info.indexSize
      /\ UNCHANGED <<index, writer, job, calls>>
  BY DEF WriteHour, FilesInfo
<1>2. at[c] \in Writing /\ "value" \notin ReadAts
  BY <1>1, WriterAts
<1>3. /\ writer = c /\ hour \in Nat
      /\ HourCell(hour) \in Cell /\ HourCell(hour).kind = "hour"
  BY <1>2, WriterAts, WriterFacts, CellsWritten
<1>4. ASSUME ReadsBegun = 0
      PROVE  /\ GoodAtEnd(data') /\ Len(Log') > 0 /\ HoursPlaced(Log') /\ GoodAtEnd(index)
             /\ InPhase("value", Log', e, info.indexSize, info'.startHour, hour)
  <2>1. /\ Log[Len(Log)].kind \in {"header", "endline"}
        /\ data \in StreamOf(Cell) /\ Log \in Seq(Cell) /\ Len(Log) \in Nat
        /\ GoodAtEnd(data) /\ GoodAtEnd(index) /\ Len(Log) > 0 /\ HoursPlaced(Log)
    BY <1>1, <1>2, <1>4, WriterPhase DEF InPhase
  <2>2. PICK f \in Seq(IndexCell), m \in Nat :
          /\ Indexes(f, m, Log) /\ info.indexSize = m + 1
          /\ e = Append(Append(f, HourCell(hour)), PositionCell(Len(Log)))
    BY <1>1, <1>2, <1>4, WriterPhase DEF InPhase
  <2>3. GoodAtEnd(data') /\ Log' = Append(Log, HourCell(hour))
    BY <1>1, <1>3, <2>1, LogWritten
  <2>4. Indexes(e, info.indexSize, Log')
    BY <1>3, <2>1, <2>2, <2>3, HourAdded
  <2>5. Len(Log') = Len(Log) + 1 /\ Log'[Len(Log')].kind = "hour" /\ HoursPlaced(Log')
    BY <1>3, <2>1, <2>3, Appended, PlacedGrows
  <2> HIDE DEF e, hour
  <2> QED
    BY <2>1, <2>3, <2>4, <2>5 DEF InPhase
<1> QED
  BY <1>1, <1>2, <1>3, <1>4, CallersAssumption, BlocksBy

LEMMA ValueKeepsBlocks ==
  ASSUME TypeInv, HoursInv, BlockInv, NEW c \in Callers, WriteValue(c)
  PROVE  BlockInv'
<1> DEFINE cell == ValueCell(OffsetOf(job[c].time), job[c].value)
           e    == Contents(index.file)
<1>1. /\ at[c] = "value" /\ data' = WriteTo(data, cell) /\ Goto(c, "idle") /\ writer' = None
      /\ info'.indexSize = info.indexSize /\ info'.startHour = info.startHour
      /\ UNCHANGED <<index, job, calls>>
  BY DEF WriteValue, FilesInfo, Released, Return, Goto
<1>2. at[c] \in Writing /\ "idle" \notin ReadAts
  BY <1>1, WriterAts
<1>3. writer = c /\ cell \in Cell /\ cell.kind = "value"
  <2>1. writer = c /\ job[c].time \in Nat /\ job[c].value \in Nat
    BY <1>2, WriterAts, WriterFacts
  <2>2. OffsetOf(job[c].time) \in Nat
    BY <2>1, WriteMakes
  <2> QED
    BY <2>1, <2>2, CellsWritten
<1>4. info.startHour # 0
  BY <1>1, StartHourSet DEF HoursInv
<1> HIDE DEF cell
<1>5. ASSUME ReadsBegun = 0
      PROVE  /\ GoodAtEnd(data') /\ Len(Log') > 0 /\ HoursPlaced(Log') /\ GoodAtEnd(index)
             /\ InPhase("idle", Log', e, info.indexSize, info.startHour, 0)
  <2>1. /\ Log[Len(Log)].kind \in {"hour", "value"} /\ Indexes(e, info.indexSize, Log)
        /\ data \in StreamOf(Cell) /\ Log \in Seq(Cell) /\ info.indexSize \in Nat
        /\ GoodAtEnd(data) /\ GoodAtEnd(index) /\ Len(Log) > 0 /\ HoursPlaced(Log)
    BY <1>1, <1>2, <1>5, WriterPhase DEF InPhase
  <2>2. GoodAtEnd(data') /\ Log' = Append(Log, cell)
    BY <1>1, <1>3, <2>1, LogWritten
  <2>3. /\ Len(Log') > 0 /\ HoursPlaced(Log') /\ Log'[Len(Log')] = cell
        /\ Indexes(e, info.indexSize, Log')
    BY <1>3, <2>1, <2>2, CellAdded
  <2> QED
    BY <1>3, <1>4, <2>1, <2>2, <2>3 DEF InPhase
<1> QED
  BY <1>1, <1>2, <1>3, <1>5, CallersAssumption, BlocksBy

LEMMA InitBlocks == Init => BlockInv
<1> SUFFICES ASSUME Init PROVE BlockInv
  OBVIOUS
<1>1. PICK blocks \in Starts :
        /\ data = FileAtEnd(DataCells(blocks, Len(blocks))) /\ index = FileAtEnd(IndexCells(blocks))
        /\ info = InfoBefore(blocks)
  BY DEF Init
<1> DEFINE N == Len(blocks)
           e == Contents(index.file)
<1>2. GoodAtEnd(data) /\ Log = DataCells(blocks, N) /\ GoodAtEnd(index) /\ e = IndexFront(blocks, N)
  BY <1>1, InitFiles DEF GoodAtEnd, Log
<1>3. /\ Len(Log) > 0 /\ HoursPlaced(Log) /\ Indexes(e, N, Log)
      /\ Log[Len(Log)].kind = IF N = 0 THEN "header" ELSE "value"
  BY <1>2, StartsHold DEF Started
<1>4. N \in Nat
  BY StartsAssumption
<1>5. info.indexSize = N /\ (info.startHour = 0 <=> N = 0)
  <2>1. CASE N = 0
    <3>1. blocks = <<>>
      BY <2>1, StartsAssumption
    <3>2. info = FilesInfo(0, 0, 0, 0, 0)
      BY <1>1, <3>1 DEF InfoBefore
    <3> QED
      BY <2>1, <3>2 DEF FilesInfo
  <2>2. CASE N # 0
    <3> DEFINE hour == BlockHour(blocks[N])
    <3>1. PICK low, off : info = FilesInfo(ToTimeT(hour, 0), low, hour, off, N)
      BY <1>1, <1>4, <2>2, InitInfo
    <3>2. hour \in Nat \ {0}
      BY <1>4, <2>2, InitInfo
    <3> HIDE DEF hour
    <3>3. ToTimeT(hour, 0) # 0
      <4>1. HourSecs \in Nat \ {0}
        BY HourSecsAssumption
      <4>2. hour * HourSecs # 0
        BY <3>2, <4>1
      <4> QED
        BY <3>2, <4>1, <4>2 DEF ToTimeT
    <3> QED
      BY <2>2, <3>1, <3>3 DEF FilesInfo
  <2> QED
    BY <2>1, <2>2
<1> HIDE DEF N, e
<1>6. InPhase("idle", Log, e, info.indexSize, info.startHour, 0)
  BY <1>3, <1>5 DEF InPhase
<1>7. writer = None /\ \A c \in Callers : at[c] = "idle" /\ writer # c
  BY CallersAssumption DEF Init
<1>8. \A c \in Callers : at[c] \notin ReadAts
  BY <1>7, WriterAts
<1> QED
  BY <1>2, <1>3, <1>6, <1>7, <1>8 DEF BlockInv, e

LEMMA BlockStep == TypeInv /\ HoursInv /\ BlockInv /\ [Next]_vars => BlockInv'
<1> SUFFICES ASSUME TypeInv, HoursInv, BlockInv, [Next]_vars PROVE BlockInv'
  OBVIOUS
<1>1. CASE Tick \/ UNCHANGED vars
  <2>1. UNCHANGED <<data, index, info, writer, at, job, calls>>
    BY <1>1 DEF Tick, vars
  <2>2. ReadsBegun' = ReadsBegun
    BY <2>1 DEF ReadsBegun
  <2> QED
    BY <2>1, <2>2, BlocksKept DEF BlockInv
<1>2. CASE \E c \in Callers : Begin(c)
  BY <1>2, BeginsKeepBlocks
<1>3. CASE \E c \in Callers : WriteStep(c)
  BY <1>3, OutsideKeepsBlocks, LockKeepsBlocks, EndLineKeepsBlocks, EntryHourKeepsBlocks,
     TellKeepsBlocks, EntryPositionKeepsBlocks, HourKeepsBlocks, ValueKeepsBlocks DEF WriteStep
<1>4. CASE \E c \in Callers : ReadStep(c)
  BY <1>4, ReadsHaveEffect, ReadsKeepBlocks
<1> QED
  BY <1>1, <1>2, <1>3, <1>4 DEF Next

(* As long as nobody reads, writeMutex keeps the blocks whole and the index  *)
(* exact, however many writers race for it.                                  *)
THEOREM BlocksAlwaysWhole == Spec => []BlocksWhole
<1>1. Init => TypeInv /\ RuleInv /\ BlockInv
  BY InitTyped, InitRule, InitBlocks
<1>2. TypeInv /\ RuleInv /\ BlockInv /\ [Next]_vars => (TypeInv /\ RuleInv /\ BlockInv)'
  <2> SUFFICES ASSUME TypeInv, RuleInv, BlockInv, [Next]_vars PROVE (TypeInv /\ RuleInv /\ BlockInv)'
    OBVIOUS
  <2>1. TypeInv' /\ RuleInv'
    BY TypeStep, RuleStep
  <2>2. BlockInv'
    BY BlockStep DEF RuleInv
  <2> QED
    BY <2>1, <2>2
<1>3. TypeInv /\ BlockInv => BlocksWhole
  <2> SUFFICES ASSUME BlockInv, writer = None, ReadsBegun = 0
               PROVE  /\ HoursPlaced(Log) /\ Log[Len(Log)].kind \in {"header", "value"}
                      /\ Indexes(Contents(index.file), info.indexSize, Log)
    BY DEF BlocksWhole
  <2>1. InPhase("idle", Log, Contents(index.file), info.indexSize, info.startHour, 0)
    BY DEF BlockInv
  <2> QED
    BY <2>1 DEF BlockInv, InPhase
<1> QED
  BY <1>1, <1>2, <1>3, PTL DEF Spec
=============================================================================
