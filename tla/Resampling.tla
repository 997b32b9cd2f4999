----------------------------- MODULE Resampling ------------------------------
(* ResampleValues on a list of values ReadValues returned: the loop of       *)
(* ResamplingHelper::Average, one turn per step, then PreserveExtremum.      *)
(* Times count from timeBegin.  An average is kept as its exact total over   *)
(* the interval, so that no rounding of floats is involved.                  *)
EXTENDS Integers, Sequences

CONSTANTS
  MaxSecond,    \* bound: seconds of the range
  MaxLevel,     \* bound: largest value
  MaxValues,    \* bound: length of the list
  Intervals,    \* intervals asked for
  EarlyFirst    \* TRUE: the first value lies in the first interval

ASSUME ResamplingAssumption ==
  /\ MaxSecond \in Nat /\ MaxLevel \in Nat /\ MaxValues \in Nat
  /\ Intervals \subseteq Nat \ {0}
  /\ EarlyFirst \in BOOLEAN

VARIABLES
  values,     \* the list, in time order
  interval,   \* the interval
  it,         \* the iterator: rank of the next value, Len(values) + 1 at the end
  tBegin,     \* begin of the running interval
  tLast,      \* until where the total counts
  totValue, lastValue, minValue, maxValue, found,
  averages,   \* the averages made
  output      \* what PreserveExtremum made of them

rvars == <<values, interval, it, tBegin, tLast, totValue, lastValue, minValue,
           maxValue, found, averages, output>>

Lower(a, b)  == IF a <= b THEN a ELSE b
Higher(a, b) == IF a >= b THEN a ELSE b

tEnd  == tBegin + interval
AtEnd == it > Len(values)

(* Lists of a range: in time order, from timeBegin on, not empty (an empty   *)
(* one returns before the averages).                                         *)
Lists ==
  UNION {{s \in [1 .. n -> [time : 0 .. MaxSecond, level : 0 .. MaxLevel]] :
            \A k \in 1 .. n - 1 : s[k].time <= s[k + 1].time} : n \in 1 .. MaxValues}

RInit ==
  /\ values \in Lists /\ interval \in Intervals
  /\ EarlyFirst => values[1].time < interval
  /\ it = 1 /\ tBegin = 0 /\ tLast = 0
  /\ totValue = 0 /\ found = FALSE
  /\ lastValue = values[1].level
  /\ minValue = values[1].level /\ maxValue = values[1].level
  /\ averages = <<>> /\ output = <<>>

-----------------------------------------------------------------------------
(* Average.                                                                  *)

(* How long the running value has lasted at a time.                          *)
Lasting(time) == time - tLast

(* First half of a turn: take the next value, if it lies in the interval.    *)
Take ==
  IF values[it].time < tEnd
  THEN [it   |-> it + 1,
        tot  |-> totValue + lastValue * Lasting(values[it].time),
        last |-> values[it].level,
        at   |-> values[it].time,
        mini |-> Lower(minValue, values[it].level),
        maxi |-> Higher(maxValue, values[it].level),
        found |-> TRUE]
  ELSE [it |-> it, tot |-> totValue, last |-> lastValue, at |-> tLast,
        mini |-> minValue, maxi |-> maxValue, found |-> found]

(* Mutant: the running value is not carried to the end of the interval.      *)
TotalUntaken(t) == t.tot

(* The total of the interval, the last value lasting until its end.          *)
Total(t) == t.tot + t.last * (tEnd - t.at)

(* Mutant: the end of the list does not end the interval.                    *)
OverNext(t) == t.it <= Len(values) /\ values[t.it].time >= tEnd

(* Mutant: only the end of the list does.                                    *)
OverLast(t) == t.it > Len(values)

(* The interval is over when the next value lies beyond it, or there is none *)
(* (the code then also looks at the time of the list's end, to no effect).   *)
Over(t) == t.it > Len(values) \/ values[t.it].time >= tEnd

(* Second half: end the interval, if it has begun and is over.               *)
Turn ==
  LET t == Take IN
  /\ ~AtEnd
  /\ it' = t.it /\ lastValue' = t.last /\ found' = t.found
  /\ IF t.found /\ Over(t)
     THEN /\ averages' = Append(averages, [time |-> tBegin, mini |-> t.mini,
                                           maxi |-> t.maxi, total |-> Total(t)])
          /\ tBegin' = tEnd /\ tLast' = tEnd /\ totValue' = 0
          /\ minValue' = t.last /\ maxValue' = t.last
     ELSE /\ tLast' = t.at /\ totValue' = t.tot
          /\ minValue' = t.mini /\ maxValue' = t.maxi
          /\ UNCHANGED <<averages, tBegin>>
  /\ UNCHANGED <<values, interval, output>>

-----------------------------------------------------------------------------
(* PreserveExtremum: a local minimum or maximum of the averages is replaced  *)
(* by the extreme value of its interval.                                     *)

Dips(k)  == averages[k - 1].total > averages[k].total /\ averages[k].total < averages[k + 1].total
Peaks(k) == averages[k - 1].total < averages[k].total /\ averages[k].total > averages[k + 1].total

Inner(k) == k # 1 /\ k # Len(averages)

(* Mutant: dips and peaks are taken for each other.                          *)
ExtremumSwapped(k) ==
  CASE Inner(k) /\ Dips(k)  -> averages[k].maxi * interval
    [] Inner(k) /\ Peaks(k) -> averages[k].mini * interval
    [] OTHER                -> averages[k].total

Extremum(k) ==
  CASE Inner(k) /\ Dips(k)  -> averages[k].mini * interval
    [] Inner(k) /\ Peaks(k) -> averages[k].maxi * interval
    [] OTHER                -> averages[k].total

PreserveExtremum ==
  /\ AtEnd /\ output = <<>>
  /\ output' = [k \in 1 .. Len(averages) |-> [time |-> averages[k].time, total |-> Extremum(k)]]
  /\ UNCHANGED <<values, interval, it, tBegin, tLast, totValue, lastValue, minValue,
                 maxValue, found, averages>>

RNext == Turn \/ PreserveExtremum

(* One thread runs the two loops.                                            *)
RSpec == RInit /\ [][RNext]_rvars /\ WF_rvars(RNext)

-----------------------------------------------------------------------------
Done == output # <<>>

(* The value in force at a second: the latest one not after it; before the   *)
(* first value, the first one.                                               *)
InForce(second) ==
  LET past == {k \in 1 .. Len(values) : values[k].time <= second}
  IN  IF past = {} THEN values[1].level
      ELSE values[CHOOSE k \in past : \A j \in past : j <= k].level

Area[second \in Nat] ==
  IF second = 0 THEN 0 ELSE Area[second - 1] + InForce(second - 1)

(* Average (808-852): each average is the exact mean over its interval of    *)
(* the value in force, and the intervals follow each other from timeBegin.   *)
AverageIsMean ==
  \A k \in 1 .. Len(averages) :
    /\ averages[k].time = (k - 1) * interval
    /\ averages[k].total = Area[averages[k].time + interval] - Area[averages[k].time]

(* When the list is used up, its last value lies in the last interval made:  *)
(* no value is left without an average and no interval is made for none.     *)
EveryValueAveraged ==
  AtEnd => /\ values[Len(values)].time < tBegin
           /\ values[Len(values)].time >= tBegin - interval

(* PreserveExtremum (854-884) keeps the extremes: at an inner dip or peak of *)
(* the averages the point is pushed outwards, never inside, and only to a    *)
(* level that some value had.                                                *)
ExtremesKept ==
  Done => \A k \in 1 .. Len(output) :
    /\ k # 1 /\ k # Len(output) /\ Dips(k) => output[k].total <= averages[k].total
    /\ k # 1 /\ k # Len(output) /\ Peaks(k) => output[k].total >= averages[k].total
    /\ output[k].total # averages[k].total =>
         \E j \in 1 .. Len(values) : output[k].total = values[j].level * interval

(* ResampleValues returns (LightTSDB.h:222-232 promises a result).           *)
Returns == <>Done
=============================================================================
