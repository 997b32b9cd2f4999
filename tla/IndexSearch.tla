----------------------------- MODULE IndexSearch -----------------------------
(* LightTSDB::findIndex: where the hour block of a wanted hour starts in the *)
(* data file.  The index file is the sequence of its entries, in file order. *)
(* The search guesses a slot by interpolation between minHour and maxHour,   *)
(* then only walks backwards.  NotFound is the position 0 of the code, which *)
(* no hour block has because the file header stands there.                   *)
EXTENDS Integers, Sequences

NotFound == 0

Entry(hour, pos) == [hour |-> hour, pos |-> pos]

EntryType == [hour : Nat, pos : Nat]

(* Hours of the index, ascending: what every writer of this program makes.   *)
Ascending(entries) ==
  \A i, j \in 1 .. Len(entries) : i < j => entries[i].hour < entries[j].hour

(* Mutant: the span counts one hour too many.                                *)
SlotShort(size, minHour, maxHour, hour) ==
  IF maxHour = minHour THEN 0 ELSE (size * (hour - minHour)) \div (maxHour - minHour + 2)

(* Slot of the first probe, from 0.                                          *)
Slot(size, minHour, maxHour, hour) ==
  IF maxHour = minHour
  THEN 0
  ELSE (size * (hour - minHour)) \div (maxHour - minHour + 1)

(* Mutant: the walk also returns the entry of a smaller hour.                *)
WalkBackLoose(entries, from, hour) ==
  LET met == {k \in 1 .. from : entries[k].hour <= hour
                                   /\ \A j \in k + 1 .. from : entries[j].hour > hour}
  IN  IF met = {} THEN NotFound ELSE entries[CHOOSE k \in met : TRUE].pos

(* Mutant: the walk starts one entry too far back.                           *)
WalkBackShort(entries, from, hour) ==
  LET met == {k \in 1 .. from - 1 : entries[k].hour = hour
                                   /\ \A j \in k + 1 .. from - 1 : entries[j].hour > hour}
  IN  IF met = {} THEN NotFound ELSE entries[CHOOSE k \in met : TRUE].pos

(* The loop: back over larger hours, until the hour or a smaller one is met. *)
WalkBack(entries, from, hour) ==
  LET met == {k \in 1 .. from : entries[k].hour = hour
                                   /\ \A j \in k + 1 .. from : entries[j].hour > hour}
  IN  IF met = {} THEN NotFound ELSE entries[CHOOSE k \in met : TRUE].pos

FindIndex(entries, size, minHour, maxHour, hour) ==
  LET slot  == Slot(size, minHour, maxHour, hour) + 1
      found == entries[slot].hour
  IN  IF hour \notin minHour .. maxHour THEN NotFound
      ELSE IF found = hour THEN entries[slot].pos
      ELSE IF found > hour THEN WalkBack(entries, slot - 1, hour)
      ELSE NotFound
=============================================================================
