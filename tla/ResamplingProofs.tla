--------------------------- MODULE ResamplingProofs ---------------------------
(* ResampleValues, proved for every list of values, every interval and every *)
(* range: the averages are exact means, they cover the list, and the         *)
(* extremes that are put in their place are levels of their intervals.       *)
EXTENDS Resampling, TLAPS, WellFoundedInduction

-----------------------------------------------------------------------------
(* Areas.  Area is defined by recursion over the seconds: that there is such *)
(* a function is proved here, by way of its beginnings.                      *)

LEMMA SmallestMember ==
  ASSUME NEW S \in SUBSET Nat, S # {}
  PROVE  \E m \in S : \A k \in S : m <= k
<1> DEFINE R == {ss \in Nat \X Nat : ss[1] < ss[2]}
<1>1. IsWellFoundedOn(R, Nat)
  BY NatLessThanWellFounded DEF OpToRel
<1>2. PICK m \in S : \A k \in S : <<k, m>> \notin R
  BY <1>1, WFMin
<1>3. ASSUME NEW k \in S PROVE m <= k
  <2>1. <<k, m>> \in Nat \X Nat
    OBVIOUS
  <2> QED
    BY <1>2, <2>1
<1> QED
  BY <1>3

(* The sums of w up to a second.                                             *)
Beginnings(w, n) ==
  {g \in [0 .. n -> Int] : g[0] = 0 /\ \A i \in 1 .. n : g[i] = g[i - 1] + w[i - 1]}

LEMMA BeginningsExist ==
  ASSUME NEW w \in [Nat -> Int], NEW n \in Nat
  PROVE  Beginnings(w, n) # {}
<1> DEFINE S == {k \in Nat : Beginnings(w, k) = {}}
<1> SUFFICES ASSUME S # {} PROVE FALSE
  OBVIOUS
<1>1. PICK m \in S : \A k \in S : m <= k
  BY SmallestMember
<1>2. CASE m = 0
  <2>1. [i \in 0 .. 0 |-> 0] \in Beginnings(w, 0)
    BY DEF Beginnings
  <2> QED
    BY <1>2, <2>1
<1>3. CASE m # 0
  <2>1. m - 1 \in Nat /\ m - 1 \notin S
    BY <1>1, <1>3
  <2>2. PICK g \in Beginnings(w, m - 1) : TRUE
    BY <2>1
  <2> DEFINE h == [i \in 0 .. m |-> IF i = m THEN g[m - 1] + w[m - 1] ELSE g[i]]
  <2>3. /\ g \in [0 .. m - 1 -> Int] /\ g[0] = 0
        /\ \A i \in 1 .. m - 1 : g[i] = g[i - 1] + w[i - 1]
    BY <2>2 DEF Beginnings
  <2>4. h \in [0 .. m -> Int]
    BY <2>1, <2>3
  <2>5. h[0] = 0
    BY <1>3, <2>3
  <2>6. ASSUME NEW i \in 1 .. m PROVE h[i] = h[i - 1] + w[i - 1]
    <3>1. i \in 0 .. m /\ i - 1 \in 0 .. m /\ i - 1 # m
      OBVIOUS
    <3>2. h[i - 1] = g[i - 1]
      BY <3>1
    <3>3. CASE i = m
      BY <3>1, <3>2, <3>3
    <3>4. CASE i # m
      BY <2>3, <3>1, <3>2, <3>4
    <3> QED
      BY <3>3, <3>4
  <2>7. h \in Beginnings(w, m)
    BY <2>4, <2>5, <2>6 DEF Beginnings
  <2> QED
    BY <2>7
<1> QED
  BY <1>2, <1>3

LEMMA BeginningsAgree ==
  ASSUME NEW w \in [Nat -> Int], NEW n \in Nat, NEW g \in Beginnings(w, n),
         NEW h \in Beginnings(w, n + 1)
  PROVE  g[n] = h[n]
<1> DEFINE S == {i \in 0 .. n : g[i] # h[i]}
<1>1. /\ g \in [0 .. n -> Int] /\ g[0] = 0
      /\ \A i \in 1 .. n : g[i] = g[i - 1] + w[i - 1]
      /\ h \in [0 .. n + 1 -> Int] /\ h[0] = 0
      /\ \A i \in 1 .. n + 1 : h[i] = h[i - 1] + w[i - 1]
  BY DEF Beginnings
<1> SUFFICES ASSUME S # {} PROVE FALSE
  OBVIOUS
<1>2. PICK m \in S : \A k \in S : m <= k
  <2>1. S \in SUBSET Nat
    OBVIOUS
  <2> HIDE DEF S
  <2> QED
    BY <2>1, SmallestMember
<1>3. m # 0 /\ m \in 1 .. n /\ m \in 1 .. n + 1
  BY <1>1, <1>2
<1>4. m - 1 \in 0 .. n /\ m - 1 \notin S
  BY <1>2, <1>3
<1> QED
  BY <1>1, <1>2, <1>3, <1>4

LEMMA SumsExist ==
  ASSUME NEW w \in [Nat -> Int]
  PROVE  \E f \in [Nat -> Int] :
           f = [n \in Nat |-> IF n = 0 THEN 0 ELSE f[n - 1] + w[n - 1]]
<1> DEFINE G(n) == CHOOSE g \in Beginnings(w, n) : TRUE
           f    == [n \in Nat |-> G(n)[n]]
<1>1. ASSUME NEW n \in Nat PROVE G(n) \in Beginnings(w, n)
  BY BeginningsExist
<1> HIDE DEF G
<1>2. ASSUME NEW n \in Nat PROVE f[n] \in Int
  <2>1. G(n) \in [0 .. n -> Int] /\ n \in 0 .. n
    BY <1>1 DEF Beginnings
  <2> QED
    BY <2>1
<1>3. ASSUME NEW n \in Nat PROVE f[n] = IF n = 0 THEN 0 ELSE f[n - 1] + w[n - 1]
  <2>1. CASE n = 0
    <3>1. G(0) \in Beginnings(w, 0)
      BY <1>1
    <3> QED
      BY <2>1, <3>1 DEF Beginnings
  <2>2. CASE n # 0
    <3>1. n - 1 \in Nat /\ n \in 1 .. n /\ n - 1 + 1 = n
      BY <2>2
    <3>2. G(n) \in Beginnings(w, n) /\ G(n - 1) \in Beginnings(w, n - 1)
      BY <1>1, <3>1
    <3>3. G(n)[n] = G(n)[n - 1] + w[n - 1]
      BY <3>1, <3>2 DEF Beginnings
    <3>4. G(n - 1)[n - 1] = G(n)[n - 1]
      BY <3>1, <3>2, BeginningsAgree
    <3>5. f[n] = G(n)[n] /\ f[n - 1] = G(n - 1)[n - 1]
      BY <3>1
    <3> QED
      BY <2>2, <3>3, <3>4, <3>5
  <2> QED
    BY <2>1, <2>2
<1>4. f \in [Nat -> Int]
  BY <1>2
<1>5. f = [n \in Nat |-> IF n = 0 THEN 0 ELSE f[n - 1] + w[n - 1]]
  <2> DEFINE e == [n \in Nat |-> IF n = 0 THEN 0 ELSE f[n - 1] + w[n - 1]]
  <2>1. \A n \in Nat : f[n] = e[n]
    BY <1>3
  <2>2. f = [n \in Nat |-> f[n]] /\ e = [n \in Nat |-> e[n]]
    OBVIOUS
  <2> HIDE DEF f, e
  <2>3. f = e
    BY <2>1, <2>2
  <2> QED
    BY <2>3 DEF e
<1> QED
  BY <1>4, <1>5

(* The values in force are numbers: then areas are what they say.            *)
LEMMA AreaFacts ==
  (\A s \in Nat : InForce(s) \in Int)
    => /\ Area[0] = 0
       /\ \A s \in Nat : Area[s + 1] = Area[s] + InForce(s)
       /\ \A s \in Nat : Area[s] \in Int
<1> SUFFICES ASSUME \A s \in Nat : InForce(s) \in Int
             PROVE  /\ Area[0] = 0
                    /\ \A s \in Nat : Area[s + 1] = Area[s] + InForce(s)
                    /\ \A s \in Nat : Area[s] \in Int
  OBVIOUS
<1> DEFINE w == [s \in Nat |-> InForce(s)]
<1>1. w \in [Nat -> Int]
  OBVIOUS
<1>2. PICK f \in [Nat -> Int] : f = [n \in Nat |-> IF n = 0 THEN 0 ELSE f[n - 1] + w[n - 1]]
  BY <1>1, SumsExist
<1>3. f = [n \in Nat |-> IF n = 0 THEN 0 ELSE f[n - 1] + InForce(n - 1)]
  <2>1. \A n \in Nat : n # 0 => w[n - 1] = InForce(n - 1)
    OBVIOUS
  <2> HIDE DEF w
  <2> QED
    BY <1>2, <2>1
<1>4. Area = [n \in Nat |-> IF n = 0 THEN 0 ELSE Area[n - 1] + InForce(n - 1)]
  BY <1>3 DEF Area
<1>5. \A n \in Nat : Area[n] = IF n = 0 THEN 0 ELSE Area[n - 1] + InForce(n - 1)
  <2> DEFINE Step(n) == IF n = 0 THEN 0 ELSE Area[n - 1] + InForce(n - 1)
  <2>1. Area = [n \in Nat |-> Step(n)]
    BY <1>4
  <2> HIDE DEF Step
  <2>2. \A n \in Nat : Area[n] = Step(n)
    BY <2>1
  <2> QED
    BY <2>2 DEF Step
<1>6. Area[0] = 0
  BY <1>5
<1>7. ASSUME NEW s \in Nat PROVE Area[s + 1] = Area[s] + InForce(s)
  <2>1. s + 1 \in Nat /\ s + 1 # 0 /\ s + 1 - 1 = s
    OBVIOUS
  <2> QED
    BY <1>5, <2>1
<1>8. ASSUME NEW s \in Nat PROVE Area[s] \in Int
  <2> DEFINE S == {k \in Nat : Area[k] \notin Int}
  <2> SUFFICES ASSUME S # {} PROVE FALSE
    OBVIOUS
  <2>1. PICK m \in S : \A k \in S : m <= k
    BY SmallestMember
  <2>2. m # 0
    BY <1>6, <2>1
  <2>3. m - 1 \in Nat /\ m - 1 \notin S /\ m - 1 + 1 = m
    BY <2>1, <2>2
  <2> QED
    BY <1>7, <2>1, <2>3
<1> QED
  BY <1>6, <1>7, <1>8

-----------------------------------------------------------------------------
(* The inductive invariant of the loop.                                      *)

ValueType   == [time : Nat, level : Nat]
AverageType == [time : Nat, mini : Nat, maxi : Nat, total : Nat]

(* The list is in time order.                                                *)
Sorted == \A j, k \in 1 .. Len(values) : j <= k => values[j].time <= values[k].time

(* Some value had this level.                                                *)
Level(l) == \E j \in 1 .. Len(values) : l = values[j].level

(* Every variable of the loop keeps its type.                                *)
TypeInv ==
  /\ values \in Seq(ValueType) /\ values # <<>> /\ Sorted
  /\ interval \in Nat \ {0}
  /\ it \in 1 .. Len(values) + 1
  /\ tBegin \in Nat /\ tLast \in Nat /\ totValue \in Nat
  /\ lastValue \in Nat /\ minValue \in Nat /\ maxValue \in Nat /\ found \in BOOLEAN
  /\ averages \in Seq(AverageType)

(* From a time to the next value, this is the value in force.                *)
InForceFrom(time, next, level) ==
  \A s \in Nat : time <= s /\ (next > Len(values) \/ s < values[next].time) => InForce(s) = level

(* The head of the loop: the running total is the area of the running        *)
(* interval up to tLast, where the last value is in force.                   *)
LoopInv ==
  /\ tBegin <= tLast /\ tLast < tEnd
  /\ tBegin = Len(averages) * interval
  /\ ~AtEnd => tLast <= values[it].time
  /\ InForceFrom(tLast, it, lastValue)
  /\ totValue = Area[tLast] - Area[tBegin]
  /\ it > 1 => found

Between(low, total, high, seconds) == low * seconds <= total /\ total <= high * seconds

(* The extremes are levels of the list and enclose the values in force.      *)
SpreadInv ==
  /\ Level(minValue) /\ Level(maxValue) /\ Level(lastValue)
  /\ minValue <= lastValue /\ lastValue <= maxValue
  /\ Between(minValue, totValue, maxValue, tLast - tBegin)
  /\ \A k \in 1 .. Len(averages) :
       /\ Level(averages[k].mini) /\ Level(averages[k].maxi)
       /\ Between(averages[k].mini, averages[k].total, averages[k].maxi, interval)

OutputInv ==
  output # <<>> =>
    /\ AtEnd
    /\ output = [k \in 1 .. Len(averages) |-> [time |-> averages[k].time, total |-> Extremum(k)]]

ResampleInv ==
  /\ TypeInv /\ LoopInv /\ SpreadInv /\ AverageIsMean /\ EveryValueAveraged /\ OutputInv

-----------------------------------------------------------------------------
(* Values in force.                                                          *)

LEMMA ValueIsTyped ==
  ASSUME TypeInv, NEW k \in 1 .. Len(values)
  PROVE  values[k].time \in Nat /\ values[k].level \in Nat
<1>1. values[k] \in ValueType
  BY DEF TypeInv
<1> QED
  BY <1>1 DEF ValueType

LEMMA ListHasEnds ==
  ASSUME TypeInv
  PROVE  Len(values) \in Nat /\ 1 \in 1 .. Len(values) /\ Len(values) \in 1 .. Len(values)
BY DEF TypeInv

(* Before the first value, the first one.                                    *)
LEMMA InForceBefore ==
  ASSUME TypeInv, NEW s \in Nat, s < values[1].time
  PROVE  InForce(s) = values[1].level
<1>1. ASSUME NEW k \in 1 .. Len(values) PROVE ~(values[k].time <= s)
  <2>1. 1 \in 1 .. Len(values) /\ 1 <= k
    BY ListHasEnds
  <2>2. values[1].time <= values[k].time
    BY <2>1 DEF TypeInv, Sorted
  <2>3. values[1].time \in Nat /\ values[k].time \in Nat
    BY <2>1, ValueIsTyped
  <2> QED
    BY <2>2, <2>3
<1>2. {k \in 1 .. Len(values) : values[k].time <= s} = {}
  BY <1>1
<1> QED
  BY <1>2 DEF InForce

(* From a value to the next one, that value.                                 *)
LEMMA InForceAfter ==
  ASSUME TypeInv, NEW s \in Nat, NEW k \in 1 .. Len(values), values[k].time <= s,
         k + 1 > Len(values) \/ s < values[k + 1].time
  PROVE  InForce(s) = values[k].level
<1> DEFINE past == {j \in 1 .. Len(values) : values[j].time <= s}
<1>1. k \in past
  OBVIOUS
<1>2. ASSUME NEW j \in past PROVE j <= k
  <2> SUFFICES ASSUME k + 1 <= j PROVE FALSE
    OBVIOUS
  <2>1. k + 1 \in 1 .. Len(values) /\ j \in 1 .. Len(values) /\ values[j].time <= s
    BY ListHasEnds
  <2>2. values[k + 1].time <= values[j].time
    BY <2>1 DEF TypeInv, Sorted
  <2>3. values[k + 1].time \in Nat /\ values[j].time \in Nat /\ s < values[k + 1].time
    BY <2>1, ValueIsTyped, ListHasEnds
  <2> QED
    BY <2>1, <2>2, <2>3
<1>3. ASSUME NEW m \in past, \A j \in past : j <= m PROVE m = k
  <2>1. k <= m /\ m <= k /\ m \in Nat /\ k \in Nat
    BY <1>1, <1>2, <1>3
  <2> QED
    BY <2>1
<1>4. InForce(s) = IF past = {} THEN values[1].level
                   ELSE values[CHOOSE m \in past : \A j \in past : j <= m].level
  BY DEF InForce
<1> HIDE DEF past
<1>5. (CHOOSE m \in past : \A j \in past : j <= m) = k
  BY <1>1, <1>2, <1>3
<1> QED
  BY <1>1, <1>4, <1>5

LEMMA InForceIsLevel ==
  ASSUME TypeInv, NEW s \in Nat
  PROVE  InForce(s) \in Int
<1>1. CASE s < values[1].time
  BY <1>1, InForceBefore, ListHasEnds, ValueIsTyped
<1>2. CASE ~(s < values[1].time)
  <2> DEFINE S == {k \in 1 .. Len(values) : k + 1 > Len(values) \/ s < values[k + 1].time}
  <2>1. Len(values) \in S
    BY ListHasEnds
  <2>2. S \in SUBSET Nat
    OBVIOUS
  <2>3. PICK m \in S : \A k \in S : m <= k
    <3> HIDE DEF S
    <3> QED
      BY <2>1, <2>2, SmallestMember
  <2>4. values[m].time <= s
    <3>1. CASE m = 1
      BY <1>2, <3>1, ListHasEnds, ValueIsTyped
    <3>2. CASE m # 1
      <4>1. m - 1 \in 1 .. Len(values) /\ m - 1 \notin S /\ m - 1 + 1 = m /\ m \in 1 .. Len(values)
        <5>1. m \in 1 .. Len(values) /\ m - 1 \in 1 .. Len(values) /\ m - 1 + 1 = m
          BY <3>2, ListHasEnds
        <5>2. m - 1 \notin S
          <6> SUFFICES ASSUME m - 1 \in S PROVE FALSE
            OBVIOUS
          <6>1. m <= m - 1
            BY <2>3
          <6> QED
            BY <5>1, <6>1
        <5> QED
          BY <5>1, <5>2
      <4>2. values[m].time \in Nat /\ ~(s < values[m].time)
        BY <4>1, ValueIsTyped
      <4> QED
        BY <4>2
    <3> QED
      BY <3>1, <3>2
  <2>5. InForce(s) = values[m].level
    BY <2>3, <2>4, InForceAfter
  <2> QED
    BY <2>3, <2>5, ValueIsTyped
<1> QED
  BY <1>1, <1>2

LEMMA AreasAdd ==
  TypeInv => /\ Area[0] = 0
             /\ \A s \in Nat : Area[s + 1] = Area[s] + InForce(s)
             /\ \A s \in Nat : Area[s] \in Int
BY InForceIsLevel, AreaFacts

(* Under one value in force the area grows by the time it lasts.             *)
LEMMA AreaOver ==
  ASSUME TypeInv, NEW a \in Nat, NEW b \in Nat, a <= b, NEW v \in Int,
         \A s \in Nat : a <= s /\ s < b => InForce(s) = v
  PROVE  Area[b] - Area[a] = v * (b - a)
<1> DEFINE S == {k \in Nat : a <= k /\ k <= b /\ Area[k] - Area[a] # v * (k - a)}
<1> SUFFICES ASSUME S # {} PROVE FALSE
  OBVIOUS
<1>1. S \in SUBSET Nat
  OBVIOUS
<1>2. PICK m \in S : \A k \in S : m <= k
  <2> HIDE DEF S
  <2> QED
    BY <1>1, SmallestMember
<1>3. m # a
  <2>1. Area[a] - Area[a] = 0 /\ v * (a - a) = 0
    BY AreasAdd
  <2> QED
    BY <1>2, <2>1
<1>4. m - 1 \in Nat /\ a <= m - 1 /\ m - 1 < b /\ m - 1 + 1 = m /\ m - 1 \notin S
  BY <1>2, <1>3
<1>5. Area[m - 1] - Area[a] = v * (m - 1 - a)
  BY <1>4
<1>6. Area[m] = Area[m - 1] + v /\ Area[m - 1] \in Int /\ Area[a] \in Int
  <2>1. InForce(m - 1) = v
    BY <1>4
  <2> QED
    BY <1>4, <2>1, AreasAdd
<1>7. v * (m - a) = v * (m - 1 - a) + v
  OBVIOUS
<1> QED
  BY <1>2, <1>5, <1>6, <1>7

LEMMA AreaUnchanged ==
  ASSUME values' = values
  PROVE  Area' = Area
BY DEF Area, InForce

-----------------------------------------------------------------------------
(* One turn of the loop.                                                     *)

LEMMA MoreThan ==
  ASSUME NEW a \in Nat, NEW b \in Nat, a <= b, NEW n \in Nat
  PROVE  a * n <= b * n
<1>1. PICK d \in Nat : b = a + d
  <2>1. b - a \in Nat /\ b = a + (b - a)
    OBVIOUS
  <2> QED
    BY <2>1
<1>2. b * n = a * n + d * n /\ d * n \in Nat /\ a * n \in Nat
  BY <1>1
<1> QED
  BY <1>2

(* A total between two levels stays so while a level between them lasts.     *)
LEMMA BetweenGrows ==
  ASSUME NEW low \in Nat, NEW high \in Nat, NEW v \in Nat, NEW total \in Nat,
         NEW n \in Nat, NEW d \in Nat,
         low <= v, v <= high, Between(low, total, high, n)
  PROVE  Between(low, total + v * d, high, n + d)
<1>1. low * d <= v * d /\ v * d <= high * d
  BY MoreThan
<1>2. low * (n + d) = low * n + low * d /\ high * (n + d) = high * n + high * d
  OBVIOUS
<1>3. low * n \in Nat /\ low * d \in Nat /\ high * n \in Nat /\ high * d \in Nat /\ v * d \in Nat
  OBVIOUS
<1> DEFINE ln == low * n
           ld == low * d
           hn == high * n
           hd == high * d
           vd == v * d
<1>4. ln <= total /\ total <= hn
  BY DEF Between
<1>5. ld <= vd /\ vd <= hd /\ ln \in Nat /\ ld \in Nat /\ hn \in Nat /\ hd \in Nat /\ vd \in Nat
  BY <1>1, <1>3
<1>6. ln + ld <= total + vd /\ total + vd <= hn + hd
  <2> HIDE DEF ln, ld, hn, hd, vd
  <2> QED
    BY <1>4, <1>5
<1> QED
  BY <1>2, <1>6 DEF Between

(* Wider bounds bound as well.                                               *)
LEMMA BetweenWidens ==
  ASSUME NEW low \in Nat, NEW high \in Nat, NEW lower \in Nat, NEW higher \in Nat,
         NEW total \in Nat, NEW n \in Nat,
         lower <= low, high <= higher, Between(low, total, high, n)
  PROVE  Between(lower, total, higher, n)
<1>1. lower * n <= low * n /\ high * n <= higher * n
  BY MoreThan
<1>2. lower * n \in Nat /\ low * n \in Nat /\ high * n \in Nat /\ higher * n \in Nat
  OBVIOUS
<1> DEFINE a == lower * n
           b == low * n
           c == high * n
           d == higher * n
<1>3. a <= b /\ c <= d /\ b <= total /\ total <= c /\ a \in Nat /\ b \in Nat /\ c \in Nat /\ d \in Nat
  BY <1>1, <1>2 DEF Between
<1>4. a <= total /\ total <= d
  <2> HIDE DEF a, b, c, d
  <2> QED
    BY <1>3
<1> QED
  BY <1>4 DEF Between

(* What the first half of a turn leaves.                                     *)
TakenTyped(t) ==
  /\ t.it \in 1 .. Len(values) + 1
  /\ t.it > 1 => t.found
  /\ t.tot \in Nat /\ t.last \in Nat /\ t.at \in Nat
  /\ t.mini \in Nat /\ t.maxi \in Nat /\ t.found \in BOOLEAN

TakenInOrder(t) ==
  /\ tLast <= t.at /\ tBegin <= t.at /\ t.at < tEnd
  /\ t.it <= Len(values) => t.at <= values[t.it].time
  /\ t.it > Len(values) => t.at = values[Len(values)].time
  /\ InForceFrom(t.at, t.it, t.last)
  /\ t.tot = Area[t.at] - Area[tBegin]

TakenWithin(t) ==
  /\ Level(t.mini) /\ Level(t.maxi) /\ Level(t.last)
  /\ t.mini <= t.last /\ t.last <= t.maxi
  /\ Between(t.mini, t.tot, t.maxi, t.at - tBegin)

LEMMA TakeFromNext ==
  ASSUME TypeInv, LoopInv, SpreadInv, ~AtEnd, values[it].time < tEnd
  PROVE  TakenTyped(Take) /\ TakenInOrder(Take) /\ TakenWithin(Take)
<1> DEFINE v == values[it]
           d == v.time - tLast
<1>1. it \in 1 .. Len(values) /\ it + 1 \in 1 .. Len(values) + 1 /\ it + 1 > 1
  BY ListHasEnds DEF TypeInv, AtEnd
<1>2. v.time \in Nat /\ v.level \in Nat
  BY <1>1, ValueIsTyped
<1>3. /\ tLast <= v.time /\ tBegin <= tLast /\ tLast \in Nat /\ tBegin \in Nat
      /\ totValue \in Nat /\ lastValue \in Nat /\ minValue \in Nat /\ maxValue \in Nat
  BY DEF LoopInv, TypeInv
<1>4. d \in Nat /\ v.time - tBegin = (tLast - tBegin) + d /\ tLast - tBegin \in Nat
  BY <1>2, <1>3
<1>5. Take = [it |-> it + 1, tot |-> totValue + lastValue * d, last |-> v.level, at |-> v.time,
              mini |-> Lower(minValue, v.level), maxi |-> Higher(maxValue, v.level),
              found |-> TRUE]
  BY DEF Take, Lasting
<1> HIDE DEF d
<1>6. lastValue * d \in Nat
  BY <1>3, <1>4
<1>7. TakenTyped(Take)
  BY <1>1, <1>2, <1>3, <1>5, <1>6 DEF TakenTyped, Lower, Higher
<1>8. Area[v.time] - Area[tLast] = lastValue * d
  <2>1. ASSUME NEW s \in Nat, tLast <= s, s < v.time PROVE InForce(s) = lastValue
    BY <2>1 DEF LoopInv, InForceFrom
  <2> QED
    BY <1>2, <1>3, <2>1, AreaOver DEF d
<1>9. totValue + lastValue * d = Area[v.time] - Area[tBegin]
  <2>1. totValue = Area[tLast] - Area[tBegin]
    BY DEF LoopInv
  <2>2. Area[tLast] \in Int /\ Area[tBegin] \in Int /\ Area[v.time] \in Int
    BY <1>2, <1>3, AreasAdd
  <2> QED
    BY <1>3, <1>6, <1>8, <2>1, <2>2
<1>10. InForceFrom(v.time, it + 1, v.level)
  <2> SUFFICES ASSUME NEW s \in Nat, v.time <= s, it + 1 > Len(values) \/ s < values[it + 1].time
               PROVE  InForce(s) = v.level
    BY DEF InForceFrom
  <2> QED
    BY <1>1, InForceAfter
<1>11. it + 1 <= Len(values) => v.time <= values[it + 1].time
  BY <1>1, ListHasEnds DEF TypeInv, Sorted
<1>12. it + 1 > Len(values) => it = Len(values)
  BY <1>1, ListHasEnds
<1>13. TakenInOrder(Take)
  BY <1>2, <1>3, <1>5, <1>9, <1>10, <1>11, <1>12 DEF TakenInOrder
<1>14. Level(v.level)
  BY <1>1 DEF Level
<1>15. TakenWithin(Take)
  <2> DEFINE lo == Lower(minValue, v.level)
             hi == Higher(maxValue, v.level)
  <2>1. /\ lo \in {minValue, v.level} /\ hi \in {maxValue, v.level} /\ lo \in Nat /\ hi \in Nat
        /\ lo <= v.level /\ v.level <= hi /\ lo <= minValue /\ maxValue <= hi
    BY <1>2, <1>3 DEF Lower, Higher
  <2>2. Level(lo) /\ Level(hi)
    BY <1>14, <2>1 DEF SpreadInv
  <2>3. Between(minValue, totValue + lastValue * d, maxValue, v.time - tBegin)
    BY <1>3, <1>4, BetweenGrows DEF SpreadInv
  <2>4. Between(lo, totValue + lastValue * d, hi, v.time - tBegin)
    <3>1. v.time - tBegin \in Nat /\ totValue + lastValue * d \in Nat
      BY <1>3, <1>4, <1>6
    <3> QED
      BY <1>3, <2>1, <2>3, <3>1, BetweenWidens
  <2> HIDE DEF lo, hi
  <2>5. Take.mini = lo /\ Take.maxi = hi /\ Take.last = v.level /\ Take.at = v.time
        /\ Take.tot = totValue + lastValue * d
    BY <1>5 DEF lo, hi
  <2> QED
    BY <1>14, <2>1, <2>2, <2>4, <2>5 DEF TakenWithin
<1> QED
  BY <1>7, <1>13, <1>15

LEMMA TakeFacts ==
  ASSUME TypeInv, LoopInv, SpreadInv, ~AtEnd
  PROVE  TakenTyped(Take) /\ TakenInOrder(Take) /\ TakenWithin(Take)
<1>1. CASE values[it].time < tEnd
  BY <1>1, TakeFromNext
<1>2. CASE ~(values[it].time < tEnd)
  <2>1. Take = [it |-> it, tot |-> totValue, last |-> lastValue, at |-> tLast,
                mini |-> minValue, maxi |-> maxValue, found |-> found]
    BY <1>2 DEF Take
  <2>2. TakenTyped(Take)
    BY <2>1 DEF TakenTyped, TypeInv, LoopInv
  <2>3. tLast <= tLast
    BY DEF TypeInv
  <2>4. ~(it > Len(values)) /\ it <= Len(values) /\ tLast <= values[it].time
    BY ListHasEnds DEF AtEnd, TypeInv, LoopInv
  <2>5. TakenInOrder(Take)
    BY <2>1, <2>3, <2>4 DEF TakenInOrder, LoopInv
  <2>6. TakenWithin(Take)
    BY <2>1 DEF TakenWithin, SpreadInv
  <2> QED
    BY <2>2, <2>5, <2>6
<1> QED
  BY <1>1, <1>2

(* The end of an interval: its total is its area, and the extremes of the    *)
(* interval enclose it.                                                      *)
LEMMA TotalFacts ==
  ASSUME TypeInv, LoopInv, SpreadInv, ~AtEnd, Over(Take)
  PROVE  /\ Total(Take) \in Nat
         /\ Total(Take) = Area[tEnd] - Area[tBegin]
         /\ Between(Take.mini, Total(Take), Take.maxi, interval)
<1> DEFINE t == Take
           d == tEnd - t.at
<1>1. TakenTyped(t) /\ TakenInOrder(t) /\ TakenWithin(t)
  BY TakeFacts
<1> HIDE DEF t
<1>2. tBegin \in Nat /\ interval \in Nat /\ tEnd = tBegin + interval /\ tEnd \in Nat
  BY DEF TypeInv, tEnd
<1>3. /\ t.at \in Nat /\ t.last \in Nat /\ t.tot \in Nat /\ t.mini \in Nat /\ t.maxi \in Nat
      /\ t.at < tEnd /\ tBegin <= t.at
  BY <1>1 DEF TakenTyped, TakenInOrder
<1>4. d \in Nat /\ interval = (t.at - tBegin) + d /\ t.at - tBegin \in Nat
  BY <1>2, <1>3
<1>5. Area[tEnd] - Area[t.at] = t.last * d
  <2>1. ASSUME NEW s \in Nat, t.at <= s, s < tEnd PROVE InForce(s) = t.last
    <3>1. t.it > Len(values) \/ s < values[t.it].time
      <4>1. CASE t.it > Len(values)
        BY <4>1
      <4>2. CASE ~(t.it > Len(values))
        <5>1. values[t.it].time >= tEnd
          BY <4>2 DEF Over, t
        <5>2. t.it \in 1 .. Len(values)
          BY <1>1, <4>2, ListHasEnds DEF TakenTyped
        <5> QED
          BY <1>2, <2>1, <5>1, <5>2, ValueIsTyped
      <4> QED
        BY <4>1, <4>2
    <3> QED
      BY <1>1, <2>1, <3>1 DEF TakenInOrder, InForceFrom
  <2> QED
    BY <1>2, <1>3, <2>1, AreaOver
<1> HIDE DEF d
<1>6. Total(t) = t.tot + t.last * d
  BY DEF Total, d
<1>7. t.last * d \in Nat
  BY <1>3, <1>4
<1>8. t.tot + t.last * d = Area[tEnd] - Area[tBegin]
  <2>1. t.tot = Area[t.at] - Area[tBegin]
    BY <1>1 DEF TakenInOrder
  <2>2. Area[t.at] \in Int /\ Area[tBegin] \in Int /\ Area[tEnd] \in Int
    BY <1>2, <1>3, AreasAdd
  <2> QED
    BY <1>3, <1>5, <1>7, <2>1, <2>2
<1>9. Between(t.mini, t.tot + t.last * d, t.maxi, interval)
  BY <1>1, <1>3, <1>4, BetweenGrows DEF TakenWithin
<1> QED
  BY <1>3, <1>6, <1>7, <1>8, <1>9 DEF t

-----------------------------------------------------------------------------
(* The invariant is inductive.                                               *)

LEMMA InitHolds == RInit => ResampleInv
<1> SUFFICES ASSUME RInit PROVE ResampleInv
  OBVIOUS
<1>1. PICK n \in 1 .. MaxValues :
        /\ values \in [1 .. n -> [time : 0 .. MaxSecond, level : 0 .. MaxLevel]]
        /\ \A k \in 1 .. n - 1 : values[k].time <= values[k + 1].time
  BY DEF RInit, Lists
<1>2. n \in Nat \ {0} /\ MaxSecond \in Nat /\ MaxLevel \in Nat
  BY ResamplingAssumption
<1>3. ASSUME NEW k \in 1 .. n PROVE values[k] \in ValueType
  <2>1. values[k] \in [time : 0 .. MaxSecond, level : 0 .. MaxLevel]
    BY <1>1
  <2>2. 0 .. MaxSecond \subseteq Nat /\ 0 .. MaxLevel \subseteq Nat
    BY <1>2
  <2> QED
    BY <2>1, <2>2 DEF ValueType
<1>4. values \in Seq(ValueType) /\ Len(values) = n /\ values # <<>>
  <2>1. values \in [1 .. n -> ValueType]
    BY <1>1, <1>3
  <2>2. values \in Seq(ValueType) /\ Len(values) = n
    BY <1>2, <2>1
  <2> QED
    BY <1>2, <2>2
<1>5. Sorted
  <2> SUFFICES ASSUME NEW j \in 1 .. n, NEW k \in 1 .. n, j <= k
               PROVE  values[j].time <= values[k].time
    BY <1>4 DEF Sorted
  <2> DEFINE S == {i \in 1 .. n : j <= i /\ ~(values[j].time <= values[i].time)}
  <2> SUFFICES ASSUME S # {} PROVE FALSE
    OBVIOUS
  <2>1. S \in SUBSET Nat
    OBVIOUS
  <2>2. PICK m \in S : \A i \in S : m <= i
    <3> HIDE DEF S
    <3> QED
      BY <2>1, SmallestMember
  <2>3. \A i \in 1 .. n : values[i].time \in Nat
    BY <1>3 DEF ValueType
  <2>4. m # j /\ m \in 1 .. n
    BY <2>2, <2>3
  <2>5. m - 1 \in 1 .. n /\ m - 1 \in 1 .. n - 1 /\ j <= m - 1 /\ m - 1 + 1 = m /\ ~(m <= m - 1)
    BY <1>2, <2>2, <2>4
  <2>6. m - 1 \notin S
    BY <2>2, <2>5
  <2>7. values[j].time <= values[m - 1].time /\ values[m - 1].time <= values[m].time
    BY <1>1, <2>5, <2>6
  <2> QED
    BY <2>2, <2>3, <2>4, <2>5, <2>7
<1>6. values[1] \in ValueType /\ 1 \in 1 .. Len(values)
  BY <1>2, <1>3, <1>4
<1>7. TypeInv
  <2>1. interval \in Nat \ {0}
    BY ResamplingAssumption DEF RInit
  <2>2. it \in 1 .. Len(values) + 1
    BY <1>2, <1>4 DEF RInit
  <2>3. values[1].level \in Nat
    BY <1>6 DEF ValueType
  <2>4. averages \in Seq(AverageType)
    BY DEF RInit
  <2> QED
    BY <1>4, <1>5, <2>1, <2>2, <2>3, <2>4 DEF RInit, TypeInv
<1>8. ~AtEnd
  BY <1>2, <1>4 DEF RInit, AtEnd
<1>9. LoopInv
  <2>1. InForceFrom(0, 1, values[1].level)
    <3>1. ~(1 > Len(values))
      BY <1>2, <1>4
    <3> QED
      BY <1>7, <3>1, InForceBefore DEF InForceFrom
  <2>2. interval \in Nat \ {0} /\ values[1].time \in Nat
    BY <1>6, <1>7 DEF TypeInv, ValueType
  <2>3. 0 = Area[0] - Area[0]
    BY <1>7, AreasAdd
  <2>4. Len(averages) = 0 /\ 0 = 0 * interval
    BY <2>2 DEF RInit
  <2> QED
    BY <1>8, <2>1, <2>2, <2>3, <2>4 DEF RInit, LoopInv, tEnd
<1>10. SpreadInv
  <2>1. Level(values[1].level) /\ values[1].level \in Nat
    BY <1>6 DEF Level, ValueType
  <2>2. Between(values[1].level, 0, values[1].level, 0)
    BY <2>1 DEF Between
  <2>3. Len(averages) = 0 /\ 0 - 0 = 0
    BY DEF RInit
  <2> QED
    BY <2>1, <2>2, <2>3 DEF RInit, SpreadInv
<1>11. AverageIsMean /\ EveryValueAveraged /\ OutputInv
  <2>1. Len(averages) = 0
    BY DEF RInit
  <2> QED
    BY <1>8, <2>1 DEF RInit, AverageIsMean, EveryValueAveraged, OutputInv
<1> QED
  BY <1>7, <1>9, <1>10, <1>11 DEF ResampleInv

(* What follows reads only the list: as long as it does not change, so do    *)
(* levels and values in force.                                               *)
LEMMA ListUnchanged ==
  ASSUME values' = values
  PROVE  /\ Sorted' <=> Sorted
         /\ \A s : InForce(s)' = InForce(s)
         /\ \A l : Level(l)' <=> Level(l)
BY DEF Sorted, InForce, Level

LEMMA MoreIntervals ==
  ASSUME NEW n \in Nat, NEW i \in Nat
  PROVE  n * i + i = (n + 1) * i
OBVIOUS

LEMMA ForceUnchanged ==
  ASSUME values' = values, NEW a, NEW n, NEW l, InForceFrom(a, n, l)
  PROVE  InForceFrom(a, n, l)'
BY ListUnchanged DEF InForceFrom

(* A turn that goes on with the running interval.                            *)
LEMMA TurnGoesOn ==
  ASSUME ResampleInv, Turn, ~(Take.found /\ Over(Take))
  PROVE  ResampleInv'
<1>1. PICK t : t = Take
  OBVIOUS
<1>2. /\ ~AtEnd /\ it' = t.it /\ lastValue' = t.last /\ found' = t.found
      /\ tLast' = t.at /\ totValue' = t.tot /\ minValue' = t.mini /\ maxValue' = t.maxi
      /\ averages' = averages /\ tBegin' = tBegin
      /\ values' = values /\ interval' = interval /\ output' = output
  BY <1>1 DEF Turn
<1>3. TakenTyped(t) /\ TakenInOrder(t) /\ TakenWithin(t)
  BY <1>1, <1>2, TakeFacts DEF ResampleInv
<1>4. TypeInv
  BY DEF ResampleInv
<1>5. TypeInv'
  BY <1>2, <1>3, <1>4, ListUnchanged DEF TypeInv, TakenTyped
<1>6. Area' = Area /\ tEnd' = tEnd
  BY <1>2, AreaUnchanged DEF tEnd
<1>7. ~AtEnd' /\ output' = <<>>
  <2>1. t.it \in 1 .. Len(values) + 1 /\ (t.it > 1 => t.found)
    BY <1>3 DEF TakenTyped
  <2>2. t.it > Len(values) => t.it > 1
    BY <1>4, <2>1, ListHasEnds
  <2>3. ~(t.it > Len(values))
    BY <1>1, <2>1, <2>2 DEF Over
  <2> QED
    BY <1>2, <2>3 DEF AtEnd, ResampleInv, OutputInv
<1>8. LoopInv'
  <2>1. InForceFrom(tLast, it, lastValue)'
    <3>1. InForceFrom(t.at, t.it, t.last)'
      BY <1>2, <1>3, ForceUnchanged DEF TakenInOrder
    <3> QED
      BY <1>2, <3>1 DEF InForceFrom
  <2>2. (tBegin <= tLast /\ tLast < tEnd)'
    BY <1>2, <1>3, <1>6 DEF TakenInOrder
  <2>3. (tBegin = Len(averages) * interval)'
    BY <1>2 DEF ResampleInv, LoopInv
  <2>4. (~AtEnd => tLast <= values[it].time)'
    <3>1. t.it \in 1 .. Len(values) + 1 /\ ~(t.it > Len(values))
      BY <1>2, <1>3, <1>7 DEF TakenTyped, AtEnd
    <3>2. t.it <= Len(values)
      BY <1>4, <3>1, ListHasEnds
    <3> QED
      BY <1>2, <1>3, <3>2 DEF TakenInOrder
  <2>5. (totValue = Area[tLast] - Area[tBegin])'
    BY <1>2, <1>3, <1>6 DEF TakenInOrder
  <2>6. (it > 1 => found)'
    BY <1>2, <1>3 DEF TakenTyped
  <2> QED
    BY <2>1, <2>2, <2>3, <2>4, <2>5, <2>6 DEF LoopInv
<1>9. SpreadInv'
  BY <1>2, <1>3, ListUnchanged DEF ResampleInv, SpreadInv, TakenWithin, Between
<1>10. AverageIsMean'
  BY <1>2, <1>6 DEF ResampleInv, AverageIsMean
<1>11. EveryValueAveraged' /\ OutputInv'
  BY <1>7 DEF EveryValueAveraged, OutputInv
<1> QED
  BY <1>5, <1>8, <1>9, <1>10, <1>11 DEF ResampleInv

(* A turn that ends it.                                                      *)
LEMMA TurnEnds ==
  ASSUME ResampleInv, Turn, Take.found, Over(Take)
  PROVE  ResampleInv'
<1>1. PICK t : t = Take
  OBVIOUS
<1> DEFINE a == [time |-> tBegin, mini |-> t.mini, maxi |-> t.maxi, total |-> Total(t)]
<1>2. /\ ~AtEnd /\ it' = t.it /\ lastValue' = t.last /\ found' = t.found
      /\ tLast' = tEnd /\ totValue' = 0 /\ minValue' = t.last /\ maxValue' = t.last
      /\ averages' = Append(averages, a) /\ tBegin' = tEnd
      /\ values' = values /\ interval' = interval /\ output' = output
  BY <1>1 DEF Turn
<1>3. TakenTyped(t) /\ TakenInOrder(t) /\ TakenWithin(t)
  BY <1>1, <1>2, TakeFacts DEF ResampleInv
<1>4. TypeInv /\ LoopInv /\ SpreadInv
  BY DEF ResampleInv
<1>5. /\ Total(t) \in Nat
      /\ Total(t) = Area[tEnd] - Area[tBegin]
      /\ Between(t.mini, Total(t), t.maxi, interval)
  BY <1>1, <1>2, <1>4, TotalFacts
<1>6. /\ tBegin \in Nat /\ interval \in Nat \ {0} /\ tEnd = tBegin + interval /\ tEnd \in Nat
      /\ Len(values) \in Nat \ {0} /\ averages \in Seq(AverageType) /\ Len(averages) \in Nat
  BY <1>4, ListHasEnds DEF TypeInv, tEnd
<1>7. a \in AverageType
  BY <1>3, <1>5, <1>6 DEF AverageType, TakenTyped
<1>8. /\ a.time = tBegin /\ a.mini = t.mini /\ a.maxi = t.maxi /\ a.total = Total(t)
  OBVIOUS
<1> HIDE DEF a
<1>9. /\ Len(averages') = Len(averages) + 1 /\ averages' \in Seq(AverageType)
      /\ \A k \in 1 .. Len(averages) : averages'[k] = averages[k]
      /\ averages'[Len(averages) + 1] = a
      /\ \A k \in 1 .. Len(averages') : k \in 1 .. Len(averages) \/ k = Len(averages) + 1
  BY <1>2, <1>6, <1>7
<1>10. TypeInv'
  BY <1>2, <1>3, <1>4, <1>6, <1>9, ListUnchanged DEF TypeInv, TakenTyped
<1>11. Area' = Area /\ tEnd' = tEnd + interval
  BY <1>2, AreaUnchanged DEF tEnd
<1>12. \A s \in Nat : Area[s] \in Int
  BY <1>4, AreasAdd
<1>13. t.it \in 1 .. Len(values) + 1 /\ t.at \in Nat /\ t.at < tEnd /\ t.last \in Nat
  BY <1>3 DEF TakenTyped, TakenInOrder
<1>14. LoopInv'
  <2>1. InForceFrom(tLast, it, lastValue)'
    <3>1. InForceFrom(tEnd, t.it, t.last)
      <4>1. \A s \in Nat : tEnd <= s => t.at <= s
        BY <1>6, <1>13
      <4> QED
        BY <1>3, <4>1 DEF TakenInOrder, InForceFrom
    <3>2. PICK e : e = tEnd
      OBVIOUS
    <3>3. InForceFrom(e, t.it, t.last)
      BY <3>1, <3>2 DEF InForceFrom
    <3>4. InForceFrom(e, t.it, t.last)'
      BY <1>2, <3>3, ForceUnchanged
    <3>5. tLast' = e
      BY <1>2, <3>2
    <3> QED
      BY <1>2, <3>4, <3>5 DEF InForceFrom
  <2>2. (tBegin <= tLast /\ tLast < tEnd)'
    BY <1>2, <1>6, <1>11
  <2>3. (tBegin = Len(averages) * interval)'
    <3>1. Len(averages) * interval + interval = (Len(averages) + 1) * interval
      BY <1>6, MoreIntervals
    <3> QED
      BY <1>2, <1>4, <1>6, <1>9, <3>1 DEF LoopInv
  <2>4. (~AtEnd => tLast <= values[it].time)'
    <3> SUFFICES ASSUME ~(t.it > Len(values)) PROVE tEnd <= values[t.it].time
      BY <1>2 DEF AtEnd
    <3>1. values[t.it].time >= tEnd /\ t.it \in 1 .. Len(values)
      BY <1>1, <1>6, <1>13 DEF Over
    <3> QED
      BY <1>4, <1>6, <3>1, ValueIsTyped
  <2>5. (totValue = Area[tLast] - Area[tBegin])'
    <3>1. Area[tEnd] - Area[tEnd] = 0
      BY <1>6, <1>12
    <3> QED
      BY <1>2, <1>11, <3>1
  <2>6. (it > 1 => found)'
    BY <1>2, <1>3 DEF TakenTyped
  <2> QED
    BY <2>1, <2>2, <2>3, <2>4, <2>5, <2>6 DEF LoopInv
<1>15. SpreadInv'
  <2>1. Level(t.mini)' /\ Level(t.maxi)' /\ Level(t.last)'
    BY <1>2, <1>3, ListUnchanged DEF TakenWithin
  <2>2. (Level(minValue) /\ Level(maxValue) /\ Level(lastValue))'
    BY <1>2, <2>1 DEF Level
  <2>3. (minValue <= lastValue /\ lastValue <= maxValue)'
    BY <1>2, <1>13
  <2>4. Between(minValue, totValue, maxValue, tLast - tBegin)'
    <3>1. tEnd - tEnd = 0 /\ t.last * 0 = 0
      BY <1>6, <1>13
    <3> QED
      BY <1>2, <3>1 DEF Between
  <2>5. ASSUME NEW k \in 1 .. Len(averages')
        PROVE  (/\ Level(averages[k].mini) /\ Level(averages[k].maxi)
                /\ Between(averages[k].mini, averages[k].total, averages[k].maxi, interval))'
    <3>1. CASE k \in 1 .. Len(averages)
      <4>1. averages'[k] = averages[k]
        BY <1>9, <3>1
      <4>2. /\ Level(averages[k].mini) /\ Level(averages[k].maxi)
            /\ Between(averages[k].mini, averages[k].total, averages[k].maxi, interval)
        BY <1>4, <3>1 DEF SpreadInv
      <4> QED
        BY <1>2, <4>1, <4>2 DEF Level, Between
    <3>2. CASE k = Len(averages) + 1
      <4>1. averages'[k] = a
        BY <1>9, <3>2
      <4> QED
        BY <1>2, <1>5, <1>8, <2>1, <4>1 DEF Level, Between
    <3> QED
      BY <1>9, <3>1, <3>2
  <2> QED
    BY <2>2, <2>3, <2>4, <2>5 DEF SpreadInv
<1>16. AverageIsMean'
  <2> SUFFICES ASSUME NEW k \in 1 .. Len(averages')
               PROVE  /\ averages'[k].time = (k - 1) * interval
                      /\ averages'[k].total
                           = Area[averages'[k].time + interval] - Area[averages'[k].time]
    BY <1>2, <1>11 DEF AverageIsMean
  <2>1. CASE k \in 1 .. Len(averages)
    BY <1>9, <2>1 DEF ResampleInv, AverageIsMean
  <2>2. CASE k = Len(averages) + 1
    <3>1. averages'[k] = a /\ k - 1 = Len(averages)
      BY <1>6, <1>9, <2>2
    <3> QED
      BY <1>4, <1>5, <1>6, <1>8, <3>1 DEF LoopInv
  <2> QED
    BY <1>9, <2>1, <2>2
<1>17. EveryValueAveraged'
  <2> SUFFICES ASSUME t.it > Len(values)
               PROVE  /\ values[Len(values)].time < tEnd
                      /\ values[Len(values)].time >= tEnd - interval
    BY <1>2 DEF EveryValueAveraged, AtEnd
  <2>1. t.at = values[Len(values)].time /\ tBegin <= t.at
    BY <1>3 DEF TakenInOrder
  <2> QED
    BY <1>6, <1>13, <2>1
<1>18. OutputInv'
  <2>1. output' = <<>>
    BY <1>2 DEF ResampleInv, OutputInv
  <2> QED
    BY <2>1 DEF OutputInv
<1> QED
  BY <1>10, <1>14, <1>15, <1>16, <1>17, <1>18 DEF ResampleInv

LEMMA OutputMade ==
  ASSUME ResampleInv, PreserveExtremum
  PROVE  ResampleInv'
<1>1. /\ AtEnd /\ UNCHANGED <<values, interval, it, tBegin, tLast, totValue, lastValue,
                              minValue, maxValue, found, averages>>
      /\ output' = [k \in 1 .. Len(averages) |->
                      [time |-> averages[k].time, total |-> Extremum(k)]]
  BY DEF PreserveExtremum
<1>2. Area' = Area /\ tEnd' = tEnd /\ AtEnd'
  BY <1>1, AreaUnchanged DEF tEnd, AtEnd
<1>3. TypeInv'
  BY <1>1, ListUnchanged DEF ResampleInv, TypeInv
<1>4. LoopInv'
  BY <1>1, <1>2, ListUnchanged DEF ResampleInv, LoopInv, AtEnd, InForceFrom
<1>5. SpreadInv'
  BY <1>1, ListUnchanged DEF ResampleInv, SpreadInv, Between
<1>6. AverageIsMean' /\ EveryValueAveraged'
  BY <1>1, <1>2 DEF ResampleInv, AverageIsMean, EveryValueAveraged
<1>7. OutputInv'
  BY <1>1, <1>2 DEF OutputInv, Extremum, Inner, Dips, Peaks
<1> QED
  BY <1>3, <1>4, <1>5, <1>6, <1>7 DEF ResampleInv

LEMMA NothingMoves ==
  ASSUME ResampleInv, UNCHANGED rvars
  PROVE  ResampleInv'
<1>1. UNCHANGED <<values, interval, it, tBegin, tLast, totValue, lastValue,
                  minValue, maxValue, found, averages, output>>
  BY DEF rvars
<1>2. Area' = Area /\ tEnd' = tEnd /\ (AtEnd' <=> AtEnd)
  BY <1>1, AreaUnchanged DEF tEnd, AtEnd
<1>3. TypeInv'
  BY <1>1, ListUnchanged DEF ResampleInv, TypeInv
<1>4. LoopInv'
  BY <1>1, <1>2, ListUnchanged DEF ResampleInv, LoopInv, AtEnd, InForceFrom
<1>5. SpreadInv'
  BY <1>1, ListUnchanged DEF ResampleInv, SpreadInv, Between
<1>6. AverageIsMean' /\ EveryValueAveraged'
  BY <1>1, <1>2 DEF ResampleInv, AverageIsMean, EveryValueAveraged
<1>7. OutputInv'
  BY <1>1, <1>2 DEF ResampleInv, OutputInv, Extremum, Inner, Dips, Peaks
<1> QED
  BY <1>3, <1>4, <1>5, <1>6, <1>7 DEF ResampleInv

(* The loop of Average (808-852) keeps its invariant, turn by turn, for any  *)
(* list in time order, wherever its first value lies.                        *)
THEOREM LoopHolds == RSpec => []ResampleInv
<1>1. ResampleInv /\ [RNext]_rvars => ResampleInv'
  BY TurnGoesOn, TurnEnds, OutputMade, NothingMoves DEF RNext
<1> QED
  BY <1>1, InitHolds, PTL DEF RSpec

(* Average (808-852): every average is the exact mean of the value in force  *)
(* over its interval, and the intervals follow each other from timeBegin.    *)
THEOREM AveragesAreMeans == RSpec => []AverageIsMean
<1>1. ResampleInv => AverageIsMean
  BY DEF ResampleInv
<1> QED
  BY <1>1, LoopHolds, PTL

(* Average (808-852): a list that is used up has its last value in the last  *)
(* interval made.                                                            *)
THEOREM EveryValueIsAveraged == RSpec => []EveryValueAveraged
<1>1. ResampleInv => EveryValueAveraged
  BY DEF ResampleInv
<1> QED
  BY <1>1, LoopHolds, PTL

(* PreserveExtremum (854-884): the extremes of an interval enclose its       *)
(* average, so that a dip is only pushed down and a peak only up, to a level *)
(* that some value had.                                                      *)
THEOREM ExtremesAreKept == RSpec => []ExtremesKept
<1>1. ASSUME ResampleInv PROVE ExtremesKept
  <2> SUFFICES ASSUME output # <<>> PROVE ExtremesKept
    BY DEF ExtremesKept, Done
  <2> DEFINE n == Len(averages)
  <2>1. /\ n \in Nat /\ Len(output) = n
        /\ \A k \in 1 .. n : output[k].total = Extremum(k)
    <3>1. averages \in Seq(AverageType) /\ n \in Nat
      BY <1>1 DEF ResampleInv, TypeInv
    <3>2. output = [k \in 1 .. n |-> [time |-> averages[k].time, total |-> Extremum(k)]]
      BY <1>1 DEF ResampleInv, OutputInv
    <3>3. DOMAIN output = 1 .. n /\ \A k \in 1 .. n : output[k].total = Extremum(k)
      BY <3>2
    <3>4. Len(output) = n
      BY <3>1, <3>3, <3>2
    <3> QED
      BY <3>1, <3>3, <3>4
  <2>2. ASSUME NEW k \in 1 .. n
        PROVE  /\ averages[k].total \in Nat /\ averages[k].mini \in Nat /\ averages[k].maxi \in Nat
               /\ Level(averages[k].mini) /\ Level(averages[k].maxi)
               /\ averages[k].mini * interval <= averages[k].total
               /\ averages[k].total <= averages[k].maxi * interval
    <3>1. averages[k] \in AverageType
      BY <1>1 DEF ResampleInv, TypeInv
    <3> QED
      BY <1>1, <3>1 DEF ResampleInv, SpreadInv, Between, AverageType
  <2>3. ASSUME NEW k \in 1 .. n, Inner(k)
        PROVE  ~(Dips(k) /\ Peaks(k))
    <3>1. k + 1 \in 1 .. n
      BY <2>1, <2>3 DEF Inner
    <3>2. averages[k].total \in Nat /\ averages[k + 1].total \in Nat
      BY <2>2, <3>1
    <3> QED
      BY <3>2 DEF Dips, Peaks
  <2>4. ASSUME NEW k \in 1 .. n, Inner(k), Dips(k)
        PROVE  Extremum(k) = averages[k].mini * interval
    BY <2>3, <2>4 DEF Extremum
  <2>5. ASSUME NEW k \in 1 .. n, Inner(k), Peaks(k)
        PROVE  Extremum(k) = averages[k].maxi * interval
    BY <2>3, <2>5 DEF Extremum
  <2>6. ASSUME NEW k \in 1 .. n, ~(Inner(k) /\ Dips(k)), ~(Inner(k) /\ Peaks(k))
        PROVE  Extremum(k) = averages[k].total
    BY <2>6 DEF Extremum
  <2>7. ASSUME NEW k \in 1 .. Len(output)
        PROVE  /\ k # 1 /\ k # Len(output) /\ Dips(k) => output[k].total <= averages[k].total
               /\ k # 1 /\ k # Len(output) /\ Peaks(k) => output[k].total >= averages[k].total
               /\ output[k].total # averages[k].total =>
                    \E j \in 1 .. Len(values) : output[k].total = values[j].level * interval
    <3>1. k \in 1 .. n /\ output[k].total = Extremum(k) /\ (k # 1 /\ k # Len(output) <=> Inner(k))
      BY <2>1, <2>7 DEF Inner
    <3>2. k # 1 /\ k # Len(output) /\ Dips(k) => output[k].total <= averages[k].total
      BY <2>2, <2>4, <3>1
    <3>3. k # 1 /\ k # Len(output) /\ Peaks(k) => output[k].total >= averages[k].total
      BY <2>2, <2>5, <3>1
    <3>4. ASSUME output[k].total # averages[k].total
          PROVE  \E j \in 1 .. Len(values) : output[k].total = values[j].level * interval
      <4>1. \/ output[k].total = averages[k].mini * interval
            \/ output[k].total = averages[k].maxi * interval
        BY <2>4, <2>5, <2>6, <3>1, <3>4
      <4> QED
        BY <2>2, <3>1, <4>1 DEF Level
    <3> QED
      BY <3>2, <3>3, <3>4
  <2> QED
    BY <2>7 DEF ExtremesKept
<1> QED
  BY <1>1, LoopHolds, PTL
=============================================================================
