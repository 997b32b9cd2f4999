----------------------------- MODULE TimeSeries ------------------------------
(* What the class promises its caller for one sensor, without files, index   *)
(* or buffers: a series of values that only grows at its end, and answers    *)
(* that are functions of the series at the moment they are given.            *)
EXTENDS Integers, Sequences

CONSTANTS
  HourSecs,   \* seconds of an hour
  FirstTime   \* the clock starts there

VARIABLES
  clock,      \* the clock
  kind,       \* type of the values, "Undefined" for a sensor without values
  series,     \* the values, in the order they were accepted
  reply       \* the last answer, [call |-> [op |-> "Idle"], ...] when there is none

tvars == <<clock, kind, series, reply>>

Hour(time) == time \div HourSecs

Last == series[Len(series)]

Values == {series[k] : k \in 1 .. Len(series)}

Reply(call, ok, values) == reply' = [call |-> call, ok |-> ok, values |-> values]

TimeOf(call) ==
  CASE call.op = "WriteValue"    -> clock
    [] call.op = "WriteOldValue" -> clock - call.offset
    [] OTHER                     -> call.time

MoreRecent(call) ==
  \/ series = <<>>
  \/ TimeOf(call) > Last.time
  \/ call.op = "WriteValue" /\ TimeOf(call) = Last.time

(* A value is accepted when it is the most recent one (the running second    *)
(* may have several), at the end of the series.                              *)
Accept(call) ==
  /\ MoreRecent(call)
  /\ kind \in {"Undefined", call.type}
  /\ kind' = call.type
  /\ series' = Append(series, [time |-> TimeOf(call), value |-> Len(series) + 1])
  /\ Reply(call, TRUE, {})
  /\ UNCHANGED clock

(* A refused value has another type than the series, or is not more recent.  *)
RefuseValue(call) ==
  /\ kind \notin {"Undefined", call.type} \/ ~MoreRecent(call)
  /\ Reply(call, FALSE, {})
  /\ UNCHANGED <<clock, kind, series>>

(* Only a sensor without values refuses to be read.                          *)
RefuseRead(call) ==
  /\ series = <<>>
  /\ Reply(call, FALSE, {})
  /\ UNCHANGED <<clock, kind, series>>

TellHour(call) ==
  /\ series # <<>>
  /\ Reply(call, TRUE, {v \in Values : Hour(v.time) = call.hour})
  /\ UNCHANGED <<clock, kind, series>>

(* The whole range; a range that begins in an hour between the first and the *)
(* last one, or outside them, may be answered by nothing.                    *)
TellRange(call) ==
  /\ series # <<>>
  /\ \/ Reply(call, TRUE, {v \in Values : call.begin <= v.time /\ v.time <= call.end})
     \/ /\ Hour(call.begin) \notin {Hour(series[1].time), Hour(Last.time)}
        /\ Reply(call, TRUE, {})
  /\ UNCHANGED <<clock, kind, series>>

TellLast(call) ==
  /\ series # <<>>
  /\ Reply(call, TRUE, {Last})
  /\ UNCHANGED <<clock, kind, series>>

(* The hours of the oldest and of the most recent value.                     *)
TellInfo(call) ==
  /\ series # <<>>
  /\ Reply(call, TRUE, {[time |-> HourSecs * Hour(series[1].time), value |-> 0],
                        [time |-> HourSecs * Hour(Last.time), value |-> 0]})
  /\ UNCHANGED <<clock, kind, series>>

(* A further call has come in, or the sensor was closed: nothing else moves. *)
Resume ==
  /\ Reply([op |-> "Idle"], TRUE, {})
  /\ UNCHANGED <<clock, kind, series>>

Forget ==
  /\ kind' = "Undefined"
  /\ series' = <<>>
  /\ Reply([op |-> "Remove"], series # <<>>, {})
  /\ UNCHANGED clock

Advance ==
  /\ clock' = clock + 1
  /\ UNCHANGED <<kind, series, reply>>

Answered(call) ==
  \/ /\ call.op \in {"WriteValue", "WriteOldValue", "WriteTimeValue"}
     /\ Accept(call) \/ RefuseValue(call)
  \/ call.op \in {"ReadHour", "ReadRange", "ReadLastValue", "GetSensorInfo"} /\ RefuseRead(call)
  \/ call.op = "ReadHour" /\ TellHour(call)
  \/ call.op = "ReadRange" /\ TellRange(call)
  \/ call.op = "ReadLastValue" /\ TellLast(call)
  \/ call.op = "GetSensorInfo" /\ TellInfo(call)

TInit == /\ clock = FirstTime
         /\ kind = "Undefined"
         /\ series = <<>>
         /\ reply = [call |-> [op |-> "Idle"], ok |-> TRUE, values |-> {}]

(* The call an answer is given to is named in the answer.                    *)
TNext == Answered(reply'.call) \/ Resume \/ Forget \/ Advance

TSpec == TInit /\ [][TNext]_tvars
=============================================================================
