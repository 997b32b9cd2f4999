-------------------------- MODULE IndexProbeProofs ---------------------------
(* The interpolated search, proved for every index the store can build.      *)
EXTENDS IndexProbe, StoreLemmas

(* What the index is, and what the last answer was: preserved by every step. *)
Invariant ==
  /\ PTypeOK
  /\ First # 0
  /\ Ascending(entries)
  /\ Len(entries) <= LastHour - First + 1
  /\ \A k \in 1 .. Len(entries) : entries[k].pos = k
  /\ found # NotFound \/ wanted # 0 =>
       found = FindIndex(entries, Len(entries), First, LastHour, wanted)

(* Beginning an hour and searching keep the index as it was built.           *)
THEOREM InvariantHolds == PSpec => []Invariant
<1>1. PInit => Invariant
  <2> SUFFICES ASSUME PInit PROVE Invariant
    OBVIOUS
  <2>1. PICK hour \in 1 .. MaxHour : entries = <<Entry(hour, 1)>>
    BY DEF PInit
  <2> QED
    BY <2>1, MaxHourAssumption
    DEF PInit, Invariant, PTypeOK, EntryType, Entry, Ascending, First, LastHour, NotFound
<1>2. Invariant /\ [PNext]_pvars => Invariant'
  <2> SUFFICES ASSUME Invariant, [PNext]_pvars PROVE Invariant'
    OBVIOUS
  <2>1. ASSUME NEW hour \in 1 .. MaxHour, BeginHour(hour) PROVE Invariant'
    <3> DEFINE n == Len(entries)
    <3>1. n \in Nat \ {0} /\ hour \in Nat /\ entries \in Seq(EntryType)
      BY DEF Invariant, PTypeOK
    <3>2. entries' = Append(entries, Entry(hour, n + 1)) /\ Entry(hour, n + 1) \in EntryType
      BY <2>1, <3>1 DEF BeginHour, Entry, EntryType
    <3>3. /\ entries' \in Seq(EntryType) /\ Len(entries') = n + 1
          /\ \A k \in 1 .. n : entries'[k] = entries[k]
          /\ entries'[n + 1].hour = hour /\ entries'[n + 1].pos = n + 1
      BY <3>1, <3>2 DEF Entry
    <3>4. \A k \in 1 .. n : entries[k].hour \in Nat /\ entries[k].hour < hour
      <4>1. \A k \in 1 .. n : entries[k].hour \in Nat
        BY <3>1, EntryFields
      <4>2. entries[n].hour < hour
        BY <2>1 DEF BeginHour, LastHour
      <4> QED
        BY <3>1, <4>1, <4>2 DEF Invariant, Ascending
    <3>5. Ascending(entries)'
      <4> SUFFICES ASSUME NEW i \in 1 .. n + 1, NEW j \in 1 .. n + 1, i < j
                   PROVE  entries'[i].hour < entries'[j].hour
        BY <3>1, <3>3 DEF Ascending
      <4>1. CASE j = n + 1
        BY <3>1, <3>3, <3>4, <4>1
      <4>2. CASE j # n + 1
        BY <3>1, <3>3, <4>2 DEF Invariant, Ascending
      <4> QED
        BY <4>1, <4>2
    <3>6. (Len(entries) <= LastHour - First + 1)'
      BY <3>1, <3>3, <3>4, <2>1 DEF Invariant, LastHour, First, BeginHour
    <3>7. First' # 0
      BY <3>1, <3>3 DEF Invariant, First
    <3> QED
      BY <2>1, <3>1, <3>3, <3>5, <3>6, <3>7 DEF Invariant, PTypeOK, BeginHour, NotFound
  <2>2. ASSUME NEW hour \in 1 .. MaxHour, Search(hour) PROVE Invariant'
    <3>1. entries' = entries /\ hour \in Nat
      BY <2>2 DEF Search
    <3>2. /\ wanted' = hour
          /\ found' = FindIndex(entries, Len(entries), First, LastHour, hour)
      BY <2>2 DEF Search
    <3>3. found' \in Nat
      <4>1. CASE found' = NotFound
        BY <4>1 DEF NotFound
      <4>2. CASE found' # NotFound
        <5>1. /\ entries \in Seq(EntryType) /\ Len(entries) \in Nat \ {0}
              /\ First \in Nat /\ LastHour \in Nat /\ Len(entries) <= LastHour - First + 1
          BY EntryFields DEF Invariant, PTypeOK, First, LastHour
        <5>2. \E k \in 1 .. Len(entries) : entries[k].pos = found'
          BY <3>1, <3>2, <4>2, <5>1, FindIndexSound
        <5> QED
          BY <5>1, <5>2, EntryFields
      <4> QED
        BY <4>1, <4>2
    <3> QED
      BY <3>1, <3>2, <3>3 DEF Invariant, PTypeOK, First, LastHour, Ascending
  <2>3. CASE UNCHANGED pvars
    BY <2>3 DEF pvars, Invariant, PTypeOK, First, LastHour, Ascending
  <2> QED
    BY <2>1, <2>2, <2>3 DEF PNext
<1> QED
  BY <1>1, <1>2, PTL DEF PSpec

(* The lemmas of findIndex apply in every state.                             *)
LEMMA SearchFacts ==
  ASSUME Invariant
  PROVE  /\ entries \in Seq(EntryType) /\ Ascending(entries)
         /\ Len(entries) \in Nat \ {0} /\ First \in Nat \ {0} /\ LastHour \in Nat
         /\ Len(entries) <= LastHour - First + 1
         /\ \A k \in 1 .. Len(entries) : /\ entries[k].pos = k
                                        /\ entries[k].hour \in First .. LastHour
<1>1. entries \in Seq(EntryType) /\ Ascending(entries) /\ Len(entries) \in Nat \ {0}
  BY DEF Invariant, PTypeOK
<1>2. \A k \in 1 .. Len(entries) : entries[k].hour \in Nat
  BY <1>1, EntryFields
<1>3. \A k \in 1 .. Len(entries) : First <= entries[k].hour /\ entries[k].hour <= LastHour
  BY <1>1, <1>2 DEF Ascending, First, LastHour
<1> QED
  BY <1>1, <1>2, <1>3 DEF Invariant, First, LastHour

(* An answer of findIndex is the entry of the wanted hour.                   *)
THEOREM SearchIsSound == PSpec => []SearchSound
<1>1. Invariant => SearchSound
  <2> SUFFICES ASSUME Invariant, found # NotFound
               PROVE  found \in 1 .. Len(entries) /\ entries[found].hour = wanted
    BY DEF SearchSound
  <2>1. found = FindIndex(entries, Len(entries), First, LastHour, wanted) /\ wanted \in Nat
    BY DEF Invariant, PTypeOK
  <2>2. PICK k \in 1 .. Len(entries) : entries[k].hour = wanted /\ entries[k].pos = found
    BY <2>1, SearchFacts, FindIndexSound
  <2> QED
    BY <2>2, SearchFacts
<1> QED
  BY <1>1, InvariantHolds, PTL

LEMMA MissedOnlyWhenProbed == Invariant => FoundUnlessProbedBefore
<1> SUFFICES ASSUME Invariant, NEW k \in 1 .. Len(entries), wanted = entries[k].hour
             PROVE  found = k <=> k <= Slot(Len(entries), First, LastHour, wanted) + 1
  BY DEF FoundUnlessProbedBefore
<1>1. found = IF k <= Slot(Len(entries), First, LastHour, wanted) + 1 THEN k ELSE NotFound
  <2>1. FindIndex(entries, Len(entries), First, LastHour, wanted) =
          IF k <= Slot(Len(entries), First, LastHour, wanted) + 1 THEN k ELSE NotFound
    BY SearchFacts, FindIndexFinds
  <2>2. found # NotFound \/ wanted # 0 => found = FindIndex(entries, Len(entries), First, LastHour, wanted)
    BY DEF Invariant
  <2>3. wanted # 0
    BY SearchFacts DEF Invariant
  <2> QED
    BY <2>1, <2>2, <2>3
<1> QED
  BY <1>1 DEF NotFound

(* An hour of the index is missed exactly when it is probed before its entry.*)
THEOREM MissedOnlyWhenProbedBefore == PSpec => []FoundUnlessProbedBefore
  BY MissedOnlyWhenProbed, InvariantHolds, PTL

(* The first hour and the last one are found, whatever lies between them.    *)
THEOREM EndsFoundAlways == PSpec => []EndsAlwaysFound
<1>1. Invariant => EndsAlwaysFound
  <2> SUFFICES ASSUME Invariant PROVE EndsAlwaysFound
    OBVIOUS
  <2> DEFINE n == Len(entries)
  <2>1. /\ n \in Nat \ {0} /\ First \in Nat /\ LastHour \in Nat
        /\ n <= LastHour - First + 1 /\ Ascending(entries)
        /\ First \in First .. LastHour
    BY SearchFacts DEF First
  <2>2. First <= LastHour /\ (n = 1 <=> First = LastHour)
    <3>1. CASE n = 1
      BY <2>1, <3>1 DEF First, LastHour
    <3>2. CASE n > 1
      <4>1. \A i, j \in 1 .. n : i < j => entries[i].hour < entries[j].hour
        BY <2>1 DEF Ascending
      <4>2. entries[1].hour < entries[n].hour
        BY <2>1, <3>2, <4>1
      <4> QED
        BY <2>1, <3>2, <4>2 DEF First, LastHour
    <3>3. n = 1 \/ n > 1
      <4>1. n \in Nat /\ n # 0
        BY <2>1
      <4> HIDE DEF n
      <4> QED
        BY <4>1
    <3> QED
      BY <3>1, <3>2, <3>3
  <2>3. Slot(n, First, LastHour, LastHour) = n - 1
    BY <2>1, <2>2, SlotOfLastHour
  <2>4. Slot(n, First, LastHour, First) \in 0 .. n - 1
    BY <2>1, SlotInIndex
  <2>5. Invariant => FoundUnlessProbedBefore
    BY MissedOnlyWhenProbed
  <2> QED
    BY <2>1, <2>3, <2>4, <2>5 DEF EndsAlwaysFound, FoundUnlessProbedBefore, First, LastHour
<1> QED
  BY <1>1, InvariantHolds, PTL
=============================================================================
