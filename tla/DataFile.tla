------------------------------ MODULE DataFile ------------------------------
(* What a data file holds: a header, then blocks of an hour and its values;  *)
(* an end mark closes a block when the next one begins.                      *)
EXTENDS HourlyTimestamp, LtsdbFile

ValueTypes == {"Float", "Int", "Double", "Bool"}

HeaderCell(type)   == [kind |-> "header", type |-> type]
HourCell(hour)     == [kind |-> "hour", hour |-> hour]
ValueCell(off, v)  == [kind |-> "value", offset |-> off, value |-> v]
EndLine            == [kind |-> "endline"]

Cell == [kind : {"header"}, type : ValueTypes] \union [kind : {"hour"}, hour : Nat]
          \union [kind : {"value"}, offset : Nat, value : Nat] \union {EndLine}

IsHour(c, i)  == c[i].kind = "hour"
IsValue(c, i) == c[i].kind = "value"
IsEnd(c, i)   == c[i].kind = "endline"

(* The hour in force at cell i, and the time a value cell stands for.        *)
HourAt(c, i) ==
  LET latest == {j \in 1 .. i : IsHour(c, j) /\ \A k \in j + 1 .. i : ~IsHour(c, k)}
  IN  c[CHOOSE j \in latest : TRUE].hour

TimeAt(c, i) == ToTimeT(HourAt(c, i), c[i].offset)

Stamped(c, i) == [time |-> TimeAt(c, i), value |-> c[i].value]

(* The first of the cells that stop a loop, or the end of the file.          *)
FirstOf(c, stops) ==
  IF stops = {} THEN Len(c) + 1 ELSE CHOOSE i \in stops : \A j \in stops : i <= j

(* The value cells strictly between two cells.                               *)
Within(c, from, to) == {i \in from + 1 .. to - 1 : IsValue(c, i)}
=============================================================================
