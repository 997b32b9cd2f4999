----------------------------- MODULE IndexProbe ------------------------------
(* findIndex over every index the store can build: writeTimeValue appends an *)
(* entry each time a later hour begins, and the search is asked for an hour. *)
(* Positions are the ranks of the entries, so that an answer names its entry.*)
EXTENDS IndexSearch

CONSTANT MaxHour    \* bound: last hour, the first being 1

ASSUME MaxHourAssumption == MaxHour \in Nat \ {0}

VARIABLES entries,  \* the index file
          wanted,   \* the hour last searched, 0 before the first search
          found     \* what findIndex returned for it

pvars == <<entries, wanted, found>>

First == entries[1].hour
LastHour == entries[Len(entries)].hour

PInit == /\ entries \in {<<Entry(hour, 1)>> : hour \in 1 .. MaxHour}
         /\ wanted = 0
         /\ found = NotFound

(* writeTimeValue: the hour is a later one, the block a further one.         *)
BeginHour(hour) ==
  /\ hour > LastHour
  /\ entries' = Append(entries, Entry(hour, Len(entries) + 1))
  /\ wanted' = 0
  /\ found' = NotFound

(* A read: indexSize counts the entries, minHour and maxHour are the hours   *)
(* of the first and of the last one.                                         *)
Search(hour) ==
  /\ wanted' = hour
  /\ found' = FindIndex(entries, Len(entries), First, LastHour, hour)
  /\ UNCHANGED entries

PNext == \E hour \in 1 .. MaxHour : BeginHour(hour) \/ Search(hour)

PSpec == PInit /\ [][PNext]_pvars

-----------------------------------------------------------------------------
PTypeOK == /\ entries \in Seq(EntryType) /\ entries # <<>>
           /\ wanted \in Nat /\ found \in Nat

(* An answer is the entry of the wanted hour, never that of a neighbour.     *)
SearchSound ==
  found # NotFound => found \in 1 .. Len(entries) /\ entries[found].hour = wanted

(* The first and the last hour are found whatever lies between them, which   *)
(* ReadLastValue and every read of the running hour rely on.                 *)
EndsAlwaysFound ==
  /\ wanted = First => found = 1
  /\ wanted = LastHour => found = Len(entries)

(* What a gap costs: an hour of the index is missed exactly when the         *)
(* interpolated slot lies before its entry, since the walk only goes back.   *)
FoundUnlessProbedBefore ==
  \A k \in 1 .. Len(entries) :
    wanted = entries[k].hour =>
      (found = k <=> k <= Slot(Len(entries), First, LastHour, wanted) + 1)

(* LightTSDB.h:206, "Read all values of a sensor into LightTSDB for an       *)
(* hour", for which findIndex must find every hour of the index.             *)
SearchComplete ==
  \A k \in 1 .. Len(entries) : wanted = entries[k].hour => found = k
=============================================================================
