--------------------------- MODULE HourlyTimestamp ---------------------------
(* Class HourlyTimestamp: a time_t is split into the number of its hour and  *)
(* an offset inside the hour.  HourSecs stands for the 3600 of the code.     *)
(* Times are those for which the 32-bit product of ToTimeT does not wrap     *)
(* (before 2106-02-07).                                                      *)
EXTENDS Integers

CONSTANT HourSecs   \* seconds of an hour

ASSUME HourSecsAssumption == HourSecs \in Nat \ {0}

FromTimeT(time) == time \div HourSecs

ToTimeT(hour, offset) == hour * HourSecs + offset

(* Mutant: offsets count from one second too late.                           *)
OffsetFromOne(hour, time) == time - ToTimeT(hour, 0) - 1

(* The HourlyOffset_t cast of writeTimeValue, for a time inside the hour.    *)
OffsetIn(hour, time) == time - ToTimeT(hour, 0)
=============================================================================
