---------------------------- MODULE DurableSeries ----------------------------
(* What the store promises of a sensor whose processes may be killed: a      *)
(* series that grows at its end, of which a kill may take the end that was   *)
(* not made durable, and nothing else.                                       *)
EXTENDS Integers, Sequences

VARIABLES
  series,   \* the values, in the order they were accepted
  durable   \* how many of them no kill can take

Init == series = <<>> /\ durable = 0

Grow ==
  /\ Len(series') = Len(series) + 1
  /\ SubSeq(series', 1, Len(series)) = series
  /\ \A k \in 1 .. Len(series) : series[k].time < series'[Len(series')].time
  /\ UNCHANGED durable

MakeDurable == durable' = Len(series) /\ UNCHANGED series

LoseEnd ==
  /\ Len(series') \in durable .. Len(series)
  /\ series' = SubSeq(series, 1, Len(series'))
  /\ UNCHANGED durable

Forget == series' = <<>> /\ durable' = 0

Next == Grow \/ MakeDurable \/ LoseEnd \/ Forget

Spec == Init /\ [][Next]_<<series, durable>>
=============================================================================
