-------------------------- MODULE TsdbServerProps --------------------------
(* What a client of the server can rely on, stated over TsdbServer.          *)
EXTENDS TsdbServer

Answered(controller) == response.status # 0 /\ response.to.controller = controller

(* WriteController: 200 says that the value was added to the series of its   *)
(* sensor, now or at the time asked, and 404 that nothing was.               *)
WriteAnswered ==
  Answered("write") =>
    /\ response.status = 200 <=> Len(history) > response.to.accepted
    /\ response.status = 200 => response.to.folder = "db"

(* The values a read can find: those of an hour after the hour 0.            *)
Dated == Accepted(LAMBDA v : v.time >= HourSecs)

Line(v) == [wall |-> ToString(v.time), value |-> v.value]

(* What Start and End ask of a line of the body, by the time it shows.       *)
AskedFor(q, wall) ==
  IF q.end = 0 THEN FromTimeT(wall) = FromTimeT(q.start) ELSE q.start <= wall /\ wall <= q.end

(* A range that begins in no hour of the sensor, or in one between two       *)
(* others, which findIndex may miss: LightTSDB.cpp:658 answers 0, and 364    *)
(* returns true and no value.                                                *)
BeginsElsewhere(q) ==
  LET hours == {FromTimeT(v.time) : v \in Dated}
      first(h) == h \in hours /\ \A g \in hours : h <= g
      last(h)  == h \in hours /\ \A g \in hours : g <= h
  IN  q.end # 0 /\ ~first(FromTimeT(q.start)) /\ ~last(FromTimeT(q.start))

(* ReadController and LastController: through the routes, the query, the     *)
(* files and the text of the body, a client reads back what was written.     *)
(* Every line is a value of the sensor.  A value of the winter is told       *)
(* exactly when the time its line shows lies in the hour or the range of the *)
(* query, all of them or, for a range that begins elsewhere, none.  Of a     *)
(* value of the summer nothing more is said: TimeHelper.cpp:46 and 62 clear  *)
(* tm_isdst, mktime (:66) reads Start and End as times of the winter, and    *)
(* the line shows a time one hour later than the one that finds it (see      *)
(* ShownAsAsked).                                                            *)
ReadAnswered ==
  /\ Answered("read") /\ response.status = 200 /\ response.to.sensor # ""
       /\ response.to.query.interval = 0 =>
       LET q == response.to.query
       IN  \/ /\ response.values \subseteq {Line(v) : v \in Dated}
              /\ \A v \in Dated : v.time \notin Summer =>
                   (Line(v) \in response.values <=> AskedFor(q, Line(v).wall))
           \/ response.values = {} /\ BeginsElsewhere(q)
  /\ Answered("last") /\ response.status = 200 =>
       response.values = {Line(Last(history))}

(* The same of every value.  It fails: what was written in the summer is     *)
(* not found by the time its line shows.                                     *)
ShownAsAsked ==
  Answered("read") /\ response.status = 200 /\ response.to.sensor # ""
    /\ response.to.query.interval = 0 =>
    \A v \in Dated : Line(v) \in response.values <=> AskedFor(response.to.query, Line(v).wall)

(* A read or a write that is refused tells why: the error of the sensor in   *)
(* its folder, and of this very call.  LightTSDB.h:253, "Get the last        *)
(* error.": every call that returns false is to leave one.                   *)
FailureTold ==
  response.status = 404 /\ response.to.sensor # "" =>
    response.error # "" /\ response.error = answer.error

(* A range that holds values, none of them in the first interval.            *)
FirstIntervalEmpty(q) ==
  LET asked == {v \in Dated : q.start <= v.time /\ v.time <= q.end}
  IN  q.interval > 0 /\ asked # {} /\ \A v \in asked : v.time >= q.start + q.interval

(* Every request is answered, and with a status, but one: the averages of a  *)
(* range whose first interval is empty.  The loop of LightTSDB.cpp:828 never *)
(* leaves that interval, and keeps the only thread of the server.            *)
EveryRequestAnswered ==
  (request # NoRequest)
    ~> (response.status # 0 \/ (request.controller = "read" /\ FirstIntervalEmpty(request.query)))

(* Every request is answered.  It fails, for the averages above.             *)
AlwaysAnswered == (request # NoRequest) ~> (response.status # 0)

(* A negative Offset never dates a value in the future: once the sensor has  *)
(* a value of some hour, it is refused whatever was written before.          *)
NegativeRefused ==
  Answered("write") /\ response.to.query.offset < 0
    /\ (\E k \in 1 .. response.to.accepted : history[k].time >= HourSecs)
    => response.status = 404

(* LightTSDB.h:188, "Add a new value of a sensor into LightTSDB at old       *)
(* time.": a write with an Offset that is answered by 200 is kept behind the *)
(* header of an hour, where reads find it.                                   *)
OldValueKept ==
  Answered("write") /\ response.status = 200 =>
    LET c == Contents(data)
    IN  \A i \in 1 .. Len(c) : IsValue(c, i) => \E j \in 1 .. i : IsHour(c, j)
=============================================================================
