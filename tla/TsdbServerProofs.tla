--------------------------- MODULE TsdbServerProofs ---------------------------
(* What a client of the server relies on, proved for every list of uris and  *)
(* queries, every length of an hour, every buffer and every clock.           *)
EXTENDS TsdbServerProps, SensorStoreProofs

(* The Offset of a query is an int, narrower than the offset of the library: *)
(* a negative one becomes a time before 1970.                                *)
NegativesWrap == \A o \in Offsets : o < 0 => o % Wrap > MaxTime

-----------------------------------------------------------------------------
(* The walk of a request through its handler, whatever the store does.       *)

ServerValue == [time : Int, value : Nat]

Pending == ~request.called \/ call # Idle

(* What the call of a write has left.                                        *)
WriteLeft ==
  /\ answer.ok <=> Len(history) > request.accepted
  /\ answer.ok => request.folder = "db"

RequestForm ==
  request = [controller |-> request.controller, folder |-> request.folder,
             sensor |-> request.sensor, query |-> request.query,
             called |-> request.called, accepted |-> request.accepted]

WalkInv ==
  /\ now \in Nat /\ RequestForm /\ history \in Seq(ServerValue)
  /\ request.query.offset \in Int
  /\ request.called => /\ request.controller \in {"read", "last", "write"}
                       /\ ~IsList /\ ~LacksStart
  /\ ~request.called => call = Idle
  /\ call # Idle => request.folder = "db" /\ call = ControllerCall
  /\ request.controller = "write" /\ Pending => request.accepted = Len(history)
  /\ request.controller = "write" /\ ~Pending => WriteLeft
  /\ response.status # 0 => request = NoRequest
  /\ WriteAnswered

-----------------------------------------------------------------------------
(* FilesInfo and the times of the values.                                    *)

(* No LightTSDB has opened the sensor: the files are those of the start.     *)
Untouched ==
  \/ data = Absent /\ index = <<>> /\ history = <<>>
  \/ /\ data = IntFile /\ index = <<Entry(1, 1)>>
     /\ history = <<[time |-> HourSecs, value |-> 1]>>

HourKnown ==
  /\ info.type \in ValueTypes
  /\ info.startHour = ToTimeT(info.maxHour, 0) /\ info.startHour <= now
  /\ info.maxHour = 0 => \A k \in 1 .. Len(history) : history[k].time < HourSecs

RefusalLeft ==
  request.query.offset < 0
    /\ (\E k \in 1 .. request.accepted : history[k].time >= HourSecs) => ~answer.ok

ClockedInv ==
  /\ HourSecs <= now /\ now <= MaxTime
  /\ info \in InfoType /\ (call # Idle => IsOpen)
  /\ IF IsOpen THEN HourKnown ELSE Untouched
  /\ request.controller = "write" /\ Pending =>
       /\ request.query.offset \in Offsets \union {0}
       /\ request.query.offset <= now - HourSecs
  /\ request.controller = "write" /\ ~Pending => RefusalLeft
  /\ NegativeRefused

-----------------------------------------------------------------------------
(* The files.                                                                *)

(* Values behind the header of an hour, as they decode.                      *)
DatedCells(c) == {i \in 1 .. Len(c) : IsValue(c, i) /\ \E j \in 1 .. i : IsHour(c, j)}

DatedValues(c) == {Stamped(c, i) : i \in DatedCells(c)}

InHours(h) == {v \in Members(h) : v.time >= HourSecs}

(* Every hour has its header at the position the index says, and no other    *)
(* header stands in the file.                                                *)
Placed(c, idx) ==
  /\ \A k \in 1 .. Len(idx) : /\ idx[k].pos \in 1 .. Len(c) - 1
                              /\ c[idx[k].pos + 1] = HourCell(idx[k].hour)
  /\ \A k, l \in 1 .. Len(idx) : k < l => idx[k].pos < idx[l].pos
  /\ \A i \in 1 .. Len(c) : IsHour(c, i) => \E k \in 1 .. Len(idx) : idx[k].pos + 1 = i

(* The last hour is open: values only, the last of them the last accepted.   *)
EndsOpen(c, idx, h) ==
  idx # <<>> =>
    /\ h # <<>> /\ Last(idx).pos + 2 <= Len(c)
    /\ \A i \in Last(idx).pos + 2 .. Len(c) : IsValue(c, i)
    /\ Stamped(c, Len(c)) = Last(h)

LogInv(c, idx, h) ==
  /\ c # <<>> /\ c[1].kind = "header"
  /\ Placed(c, idx)
  /\ EndsOpen(c, idx, h)
  /\ \A i \in DatedCells(c) : c[i].offset < HourSecs
  /\ DatedValues(c) = InHours(h)

OpenedInv ==
  /\ data \in StreamType(Cell) /\ AtEnd(data)
  /\ index \in Seq(EntryType) /\ IndexShape(index, now) /\ InfoAgrees(info, index)
  /\ LogInv(Contents(data), index, history)
  /\ history = <<>> => call # Idle /\ request.controller = "write"

(* A read that is to run asks to the end of the log, of a sensor that has an *)
(* hour or nothing at all.                                                   *)
Asked ==
  LET q == request.query
  IN  /\ index = <<>> => history = <<>>
      /\ request.controller = "read" /\ request.folder = "db" /\ ~IsList /\ ~LacksStart =>
           /\ q.start \in Nat /\ q.end \in Nat
           /\ q.end = 0 => \A k \in 1 .. Len(index) : index[k].hour <= FromTimeT(q.start)
           /\ q.end # 0 => \A k \in 1 .. Len(history) : history[k].time <= q.end

(* What the values of a read are.                                            *)
ReadLeft ==
  LET q == request.query
  IN  /\ request.controller = "last" =>
           answer.values = {Last(history)} /\ answer.call.op = "ReadLastValue"
      /\ request.controller = "read" =>
           \/ answer.values = {v \in InHours(history) : AskedFor(q, v.time)}
           \/ answer.values = {} /\ BeginsElsewhere(q)

FailureLeft == answer.error # "" /\ lastErrors[request.folder] = answer.error

StoredInv ==
  /\ DOMAIN lastErrors = Folders
  /\ \A k \in 1 .. Len(history) : history[k].time <= now
  /\ IsOpen => OpenedInv
  /\ request.controller \in {"read", "last"} /\ Pending => Asked
  /\ request.called /\ call = Idle /\ answer.ok => ReadLeft
  /\ request.called /\ call = Idle /\ ~answer.ok => FailureLeft
  /\ ReadAnswered /\ FailureTold

(* The values are numbered, and the first hour of the index has one.         *)
RecordInv ==
  /\ \A k \in 1 .. Len(history) : history[k].value = k
  /\ index # <<>> => \E v \in InHours(history) : FromTimeT(v.time) = index[1].hour

-----------------------------------------------------------------------------
(* Requests, queries and answers.                                            *)

LEMMA QueryFields ==
  ASSUME NEW start, NEW end, NEW interval, NEW offset
  PROVE  LET q == Query(start, end, interval, offset) IN
         q.start = start /\ q.end = end /\ q.interval = interval /\ q.offset = offset
  BY DEF Query

LEMMA RequestFields ==
  ASSUME NEW controller, NEW params, NEW query, NEW called
  PROVE  LET r == Request(controller, params, query, called) IN
         /\ r.controller = controller /\ r.folder = params["BaseName"]
         /\ r.sensor = params["SensorId"] /\ r.query = query /\ r.called = called
         /\ r.accepted = Len(history)
         /\ r = [controller |-> r.controller, folder |-> r.folder, sensor |-> r.sensor,
                 query |-> r.query, called |-> r.called, accepted |-> r.accepted]
  BY DEF Request

LEMMA NoRequestFields ==
  /\ NoRequest.controller = "" /\ ~NoRequest.called /\ NoRequest.query.offset = 0
  /\ NoRequest = [controller |-> NoRequest.controller, folder |-> NoRequest.folder,
                  sensor |-> NoRequest.sensor, query |-> NoRequest.query,
                  called |-> NoRequest.called, accepted |-> NoRequest.accepted]
  BY DEF NoRequest, NoQuery, Query

LEMMA ResponseFields ==
  ASSUME NEW status, NEW error, NEW values
  PROVE  LET r == Response(status, error, values) IN
         r.status = status /\ r.error = error /\ r.values = values /\ r.to = request
  BY DEF Response

LEMMA AnswerFields ==
  ASSUME NEW c, NEW ok, NEW error, NEW values
  PROVE  LET a == Answer(c, ok, error, values) IN
         a.call = c /\ a.ok = ok /\ a.error = error /\ a.values = values
  BY DEF Answer

(* The numbers of a query.                                                   *)
LEMMA QueryFacts ==
  ASSUME now \in Nat, NEW w, NEW q \in QueriesOf(w)
  PROVE  /\ q.start \in Nat /\ q.end \in Nat /\ q.offset \in Int
         /\ q.offset \in Offsets \union {0}
         /\ w.controller = "write" /\ HourSecs <= now => q.offset <= now - HourSecs
         /\ w.controller = "read" /\ w.params["SensorId"] # "" /\ w.params["BaseName"] = "db"
              /\ ~HistoryReads /\ q.start # 0 => ToTheEnd(q)
<1> DEFINE toStore == w.params["BaseName"] = "db"
           named   == w.params["SensorId"] # ""
           asked   == {o \in Offsets : o <= now - HourSecs}
           Numbers(p) == /\ p.start \in Nat /\ p.end \in Nat /\ p.offset \in Int
                         /\ p.offset \in Offsets \union {0}
           Early(p) == HourSecs <= now => p.offset <= now - HourSecs
<1>1. Walls \subseteq Nat \ {0} /\ Offsets \subseteq Int /\ HourSecs \in Nat
  BY ServerAssumption, HourSecsAssumption
<1>2. NoQuery.start = 0 /\ Numbers(NoQuery) /\ Early(NoQuery)
  BY <1>1 DEF NoQuery, Query
<1>3. ASSUME NEW p \in HourQueries
      PROVE  Numbers(p) /\ Early(p)
  <2>1. PICK start \in Walls : p = Query(start, 0, 0, 0)
    BY <1>3 DEF HourQueries
  <2>2. p.start = start /\ p.end = 0 /\ p.offset = 0
    BY <2>1, QueryFields
  <2> QED
    BY <1>1, <2>2
<1>4. ASSUME NEW p \in RangeQueries
      PROVE  Numbers(p) /\ Early(p)
  <2>1. PICK start \in Walls, end \in Walls, interval \in Intervals :
          p = Query(start, end, interval, 0)
    BY <1>4 DEF RangeQueries
  <2>2. p.start = start /\ p.end = end /\ p.offset = 0
    BY <2>1, QueryFields
  <2> QED
    BY <1>1, <2>2
<1> DEFINE Ends(p) == w.controller = "read" /\ named /\ toStore
                        /\ ~HistoryReads /\ p.start # 0 => ToTheEnd(p)
<1> SUFFICES Numbers(q) /\ Early(q) /\ Ends(q)
  OBVIOUS
<1>5. CASE w.controller = "read" /\ named /\ toStore
  <2>1. q = NoQuery \/ (q \in HourQueries \union RangeQueries /\ (HistoryReads \/ ToTheEnd(q)))
    BY <1>5 DEF QueriesOf
  <2>2. CASE q = NoQuery
    <3> HIDE DEF Numbers, Early
    <3> QED
      BY <1>2, <2>2
  <2>3. CASE q \in HourQueries \union RangeQueries /\ (HistoryReads \/ ToTheEnd(q))
    <3> HIDE DEF Numbers, Early
    <3> QED
      BY <1>3, <1>4, <2>3
  <2> QED
    BY <2>1, <2>2, <2>3
<1>6. CASE w.controller = "read" /\ named /\ ~toStore
  <2>1. q \in HourQueries
    BY <1>6 DEF QueriesOf
  <2> HIDE DEF Numbers, Early
  <2> QED
    BY <1>3, <1>6, <2>1
<1>7. CASE w.controller = "write" /\ toStore
  <2>1. q \in {Query(0, 0, 0, offset) : offset \in asked}
    BY <1>7 DEF QueriesOf
  <2>2. PICK o \in asked : q = Query(0, 0, 0, o)
    BY <2>1
  <2>3. q.start = 0 /\ q.end = 0 /\ q.offset = o
    BY <2>2, QueryFields
  <2>4. Numbers(q) /\ Early(q)
    BY <1>1, <2>2, <2>3
  <2> HIDE DEF Numbers, Early
  <2> QED
    BY <1>7, <2>4
<1>8. CASE ~(w.controller = "read" /\ named) /\ ~(w.controller = "write" /\ toStore)
  <2>1. q = NoQuery
    BY <1>8 DEF QueriesOf
  <2> HIDE DEF Numbers, Early
  <2> QED
    BY <1>2, <1>8, <2>1
<1> HIDE DEF Numbers, Early, Ends
<1> QED
  BY <1>5, <1>6, <1>7, <1>8

LEMMA RequestCalled ==
  ASSUME RequestForm, request' = [request EXCEPT !.called = TRUE]
  PROVE  /\ RequestForm' /\ request'.called
         /\ request'.controller = request.controller /\ request'.folder = request.folder
         /\ request'.sensor = request.sensor /\ request'.query = request.query
         /\ request'.accepted = request.accepted
         /\ ControllerCall' = ControllerCall
<1> DEFINE r == [controller |-> request.controller, folder |-> request.folder,
                 sensor |-> request.sensor, query |-> request.query,
                 called |-> TRUE, accepted |-> request.accepted]
<1>1. request' = r
  BY DEF RequestForm
<1>2. /\ request'.controller = request.controller /\ request'.folder = request.folder
      /\ request'.sensor = request.sensor /\ request'.query = request.query
      /\ request'.accepted = request.accepted /\ request'.called
  BY <1>1
<1>3. RequestForm'
  BY <1>1 DEF RequestForm
<1> QED
  BY <1>2, <1>3 DEF ControllerCall

-----------------------------------------------------------------------------
(* The steps of a handler, for WalkInv.                                      *)

LEMMA ToCallCalls ==
  ASSUME ToCall \/ request.controller \in {"read", "last", "write"}
  PROVE  /\ ControllerCall # Idle
         /\ request.controller = "write" => ControllerCall = WriteCall(request.query)
         /\ request.controller = "write" =>
              ControllerCall.op \in {"WriteValue", "WriteOldValue"}
         /\ request.controller = "last" => ControllerCall = [op |-> "ReadLastValue"]
         /\ request.controller = "read" => ControllerCall = ReadCall(request.query)
<1>1. request.controller \in {"read", "last", "write"}
  BY DEF ToCall
<1>2. CASE request.controller = "write"
  <2>1. ControllerCall = WriteCall(request.query)
    BY <1>2 DEF ControllerCall
  <2>2. WriteCall(request.query).op \in {"WriteValue", "WriteOldValue"}
    BY DEF WriteCall
  <2> QED
    BY <1>2, <2>1, <2>2 DEF Idle
<1>3. CASE request.controller = "last"
  <2>1. ControllerCall = [op |-> "ReadLastValue"]
    BY <1>3 DEF ControllerCall
  <2> QED
    BY <1>3, <2>1 DEF Idle
<1>4. CASE request.controller = "read"
  <2>1. ControllerCall = ReadCall(request.query)
    BY <1>4 DEF ControllerCall
  <2>2. ReadCall(request.query).op \in {"ReadHour", "ReadRange"}
    BY DEF ReadCall
  <2> QED
    BY <1>4, <2>1, <2>2 DEF Idle
<1> QED
  BY <1>1, <1>2, <1>3, <1>4

LEMMA ReceiveWalks ==
  ASSUME WalkInv, Receive
  PROVE  WalkInv'
<1>1. /\ request = NoRequest /\ response' = NoResponse
      /\ UNCHANGED <<now, call, history>>
  BY DEF Receive
<1>2. PICK uri \in Uris : \E query \in QueriesOf(Walk(uri)) :
        request' = Request(Walk(uri).controller, Walk(uri).params, query, FALSE)
  BY Zenon DEF Receive
<1> DEFINE w == Walk(uri)
<1>3. PICK query \in QueriesOf(w) : request' = Request(w.controller, w.params, query, FALSE)
  BY <1>2
<1>4. now \in Nat /\ history \in Seq(ServerValue) /\ call = Idle
  BY <1>1, NoRequestFields DEF WalkInv
<1>5. query.offset \in Int
  BY <1>4, QueryFacts
<1> HIDE DEF w
<1>6. /\ ~request'.called /\ request'.query = query /\ request'.accepted = Len(history)
      /\ RequestForm'
  BY <1>3 DEF Request, RequestForm
<1>7. response'.status = 0
  BY <1>1 DEF NoResponse
<1>8. WriteAnswered'
  BY <1>7 DEF WriteAnswered, Answered
<1> QED
  BY <1>1, <1>4, <1>5, <1>6, <1>7, <1>8 DEF WalkInv, Pending

(* The answers given without a call, or after it.                            *)
LEMMA SentWalks ==
  ASSUME WalkInv, call = Idle, NEW status, NEW error, NEW values, Send(status, error, values),
         UNCHANGED vars,
         request.controller = "write" =>
           /\ status = 200 <=> Len(history) > request.accepted
           /\ status = 200 => request.folder = "db"
  PROVE  WalkInv'
<1>1. request' = NoRequest /\ response' = Response(status, error, values)
  BY DEF Send
<1>2. /\ response'.status = status /\ response'.to = request
  BY <1>1, ResponseFields
<1>3. now' = now /\ call' = call /\ history' = history
  BY DEF vars
<1>4. WriteAnswered'
  BY <1>2, <1>3 DEF WriteAnswered, Answered
<1>5. /\ request'.controller = "" /\ ~request'.called /\ request'.query.offset = 0
      /\ RequestForm'
  BY <1>1, NoRequestFields DEF RequestForm
<1>6. now \in Nat /\ history \in Seq(ServerValue) /\ 0 \in Int
  BY DEF WalkInv
<1> QED
  BY <1>1, <1>3, <1>4, <1>5, <1>6 DEF WalkInv

(* What Respond sends, by what the call left.                                *)
LEMMA StatusSent ==
  ASSUME Respond
  PROVE  /\ request.called /\ call = Idle /\ UNCHANGED <<vars, instances, lastErrors>>
         /\ \/ ~answer.ok /\ Send(404, lastErrors[request.folder], {})
            \/ answer.ok /\ request.controller = "write" /\ Send(200, "", {})
            \/ /\ answer.ok /\ request.controller # "write"
               /\ Send(200, "", IF Resampled THEN AverageLines ELSE Lines(answer.values))
<1> DEFINE told == lastErrors[request.folder]
           body == IF Resampled THEN AverageLines ELSE Lines(answer.values)
           st   == Status(answer.ok)
<1>1. \/ ~answer.ok /\ st = 404
      \/ answer.ok /\ st = 200
  BY DEF Status
<1>2. /\ request.called /\ call = Idle /\ UNCHANGED <<vars, instances, lastErrors>>
      /\ \/ st = 404 /\ Send(404, told, {})
         \/ st = 200 /\ request.controller = "write" /\ Send(200, "", {})
         \/ st = 200 /\ request.controller # "write" /\ Send(200, "", body)
  BY DEF Respond
<1> HIDE DEF told, body, st
<1>3. \/ ~answer.ok /\ Send(404, told, {})
      \/ answer.ok /\ request.controller = "write" /\ Send(200, "", {})
      \/ answer.ok /\ request.controller # "write" /\ Send(200, "", body)
  <2>1. ~(404 = 200)
    OBVIOUS
  <2>2. CASE ~answer.ok /\ st = 404
    BY <1>2, <2>1, <2>2, Zenon
  <2>3. CASE answer.ok /\ st = 200
    BY <1>2, <2>1, <2>3, Zenon
  <2> QED
    BY <1>1, <2>2, <2>3
<1> QED
  BY <1>2, <1>3 DEF told, body

LEMMA AnswersWalk ==
  ASSUME WalkInv, Welcome \/ RefuseQuery \/ SensorsList \/ Respond
  PROVE  WalkInv'
<1>1. CASE Welcome
  <2>1. request.controller = "welcome" /\ Send(200, "", {}) /\ UNCHANGED vars
    BY <1>1 DEF Welcome
  <2>2. call = Idle
    BY <2>1 DEF WalkInv
  <2> QED
    BY <2>1, <2>2, SentWalks
<1>2. CASE RefuseQuery
  <2>1. LacksStart /\ Send(500, "", {}) /\ UNCHANGED vars
    BY <1>2 DEF RefuseQuery
  <2>2. call = Idle /\ request.controller = "read"
    BY <2>1 DEF WalkInv, LacksStart
  <2> QED
    BY <2>1, <2>2, SentWalks
<1>3. CASE SensorsList
  <2>1. IsList /\ UNCHANGED vars /\ (Send(404, "", {}) \/ Send(200, "", {}))
    BY <1>3 DEF SensorsList
  <2>2. call = Idle /\ request.controller = "read"
    BY <2>1 DEF WalkInv, IsList
  <2> QED
    BY <2>1, <2>2, SentWalks
<1>4. CASE Respond
  <2>1. request.called /\ call = Idle /\ UNCHANGED vars
    BY <1>4 DEF Respond
  <2>2. request.controller = "write" => WriteLeft
    BY <2>1 DEF WalkInv, Pending
  <2> DEFINE told == lastErrors[request.folder]
             body == IF Resampled THEN AverageLines ELSE Lines(answer.values)
  <2>3. \/ ~answer.ok /\ Send(404, told, {})
        \/ answer.ok /\ Send(200, "", {})
        \/ answer.ok /\ Send(200, "", body)
    BY <1>4, StatusSent
  <2> HIDE DEF told, body
  <2>4. ~(404 = 200) /\ 200 = 200
    OBVIOUS
  <2>5. CASE ~answer.ok /\ Send(404, told, {})
    BY <2>1, <2>2, <2>4, <2>5, SentWalks DEF WriteLeft
  <2>6. CASE answer.ok /\ Send(200, "", {})
    <3>1. request.controller = "write" =>
            (200 = 200 <=> Len(history) > request.accepted) /\ request.folder = "db"
      BY <2>2, <2>6 DEF WriteLeft
    <3> QED
      BY <2>1, <2>6, <3>1, SentWalks
  <2>7. CASE answer.ok /\ Send(200, "", body)
    <3>1. request.controller = "write" =>
            (200 = 200 <=> Len(history) > request.accepted) /\ request.folder = "db"
      BY <2>2, <2>7 DEF WriteLeft
    <3> QED
      BY <2>1, <2>7, <3>1, SentWalks
  <2> QED
    BY <2>3, <2>5, <2>6, <2>7
<1> QED
  BY <1>1, <1>2, <1>3, <1>4

(* getFilesInfo either lets the call through or refuses it.                  *)
LEMMA StoreCalled ==
  ASSUME NEW c, UseOpenFiles(c) \/ OpenFiles(c) \/ OpenFilesFails(c) \/ NoFile(c) \/ CreateFiles(c)
  PROVE  \/ answer' = NoAnswer /\ call' = c
         \/ \E error : answer' = Answer(c, FALSE, error, {}) /\ call' = Idle
  BY DEF UseOpenFiles, OpenFiles, OpenFilesFails, NoFile, CreateFiles, CheckType, Admit, Refuse

LEMMA CallStoreWalks ==
  ASSUME WalkInv, CallStore
  PROVE  WalkInv'
<1> DEFINE c == ControllerCall
<1>1. /\ ToCall /\ request.folder = "db" /\ call = Idle
      /\ UseOpenFiles(c) \/ OpenFiles(c) \/ OpenFilesFails(c) \/ NoFile(c) \/ CreateFiles(c)
      /\ request' = [request EXCEPT !.called = TRUE]
      /\ now' = now /\ history' = history /\ response' = response
  BY DEF CallStore
<1>2. RequestForm /\ now \in Nat /\ history \in Seq(ServerValue) /\ request.query.offset \in Int
  BY DEF WalkInv
<1>3. /\ RequestForm' /\ request'.called
      /\ request'.controller = request.controller /\ request'.folder = request.folder
      /\ request'.sensor = request.sensor /\ request'.query = request.query
      /\ request'.accepted = request.accepted
      /\ ControllerCall' = c
  BY <1>1, <1>2, RequestCalled
<1>4. c # Idle
  BY <1>1, ToCallCalls
<1>5. \/ answer' = NoAnswer /\ call' = c
      \/ \E error : answer' = Answer(c, FALSE, error, {}) /\ call' = Idle
  BY <1>1, StoreCalled
<1> HIDE DEF c
<1>6. /\ request'.controller \in {"read", "last", "write"} /\ ~IsList' /\ ~LacksStart'
  BY <1>1, <1>3 DEF ToCall, IsList, LacksStart
<1>7. ~request.called /\ response.status = 0
  BY <1>1, NoRequestFields DEF ToCall, WalkInv
<1>8. WriteAnswered'
  BY <1>1, <1>7 DEF WriteAnswered, Answered
<1>9. request.controller = "write" => request.accepted = Len(history)
  BY <1>7 DEF WalkInv, Pending
<1>10. Len(history) \in Nat
  BY <1>2
<1>11. call' = Idle /\ request'.controller = "write" => WriteLeft'
  <2>1. SUFFICES ASSUME call' = Idle, request'.controller = "write" PROVE WriteLeft'
    OBVIOUS
  <2>2. PICK error : answer' = Answer(c, FALSE, error, {})
    BY <1>4, <1>5, <2>1
  <2>3. answer'.ok = FALSE
    BY <2>2 DEF Answer
  <2> QED
    BY <1>1, <1>3, <1>9, <1>10, <2>1, <2>3 DEF WriteLeft
<1>12. call' # Idle => call' = c
  BY <1>5
<1> QED
  BY <1>1, <1>2, <1>3, <1>6, <1>7, <1>8, <1>9, <1>11, <1>12 DEF WalkInv, Pending

LEMMA CallNowhereWalks ==
  ASSUME WalkInv, CallNowhere
  PROVE  WalkInv'
<1>1. /\ ToCall /\ request.folder = "none"
      /\ request' = [request EXCEPT !.called = TRUE]
      /\ now' = now /\ call' = call /\ history' = history /\ response' = response
  BY DEF CallNowhere
<1> DEFINE code == IF request.controller = "write" THEN "CREATE_DAT1" ELSE "NOFILE"
<1>2. answer' = Answer(ControllerCall, FALSE, code, {})
  BY DEF CallNowhere
<1> HIDE DEF code
<1>11. answer'.ok = FALSE
  BY <1>2 DEF Answer
<1>3. RequestForm /\ now \in Nat /\ history \in Seq(ServerValue) /\ request.query.offset \in Int
  BY DEF WalkInv
<1>4. /\ RequestForm' /\ request'.called
      /\ request'.controller = request.controller /\ request'.folder = request.folder
      /\ request'.sensor = request.sensor /\ request'.query = request.query
      /\ request'.accepted = request.accepted
  BY <1>1, <1>3, RequestCalled
<1>5. /\ request'.controller \in {"read", "last", "write"} /\ ~IsList' /\ ~LacksStart'
  BY <1>1, <1>4 DEF ToCall, IsList, LacksStart
<1>6. ~request.called /\ response.status = 0 /\ call = Idle
  BY <1>1, NoRequestFields DEF ToCall, WalkInv
<1>7. WriteAnswered'
  BY <1>1, <1>6 DEF WriteAnswered, Answered
<1>8. request.controller = "write" => request.accepted = Len(history)
  BY <1>6 DEF WalkInv, Pending
<1>9. Len(history) \in Nat
  BY <1>3
<1>10. request'.controller = "write" => WriteLeft'
  BY <1>1, <1>4, <1>8, <1>9, <1>11 DEF WriteLeft
<1> QED
  BY <1>1, <1>3, <1>4, <1>5, <1>6, <1>7, <1>10 DEF WalkInv, Pending

(* What a body does to the history.                                          *)
NothingAdded == history' = history

Grown(time) ==
  answer'.ok /\ answer'.error = "" /\ history' = Append(history, [time |-> time, value |-> NextValue])

LEMMA ReturnFields ==
  ASSUME NEW ok, NEW error, NEW values, Return(ok, error, values)
  PROVE  /\ call' = Idle /\ answer'.call = call
         /\ answer'.ok = ok /\ answer'.error = error /\ answer'.values = values
  BY AnswerFields DEF Return

LEMMA WriteTimes ==
  ASSUME WalkInv, call.op = "WriteOldValue", request.controller = "write"
  PROVE  call.offset \in Nat /\ call.offset = request.query.offset % Wrap
<1>1. request.query.offset \in Int /\ Wrap \in Nat \ {0}
  BY ServerAssumption, BoundsAssumption DEF WalkInv
<1>2. call = WriteCall(request.query)
  BY ToCallCalls DEF WalkInv, Idle
<1>3. call.offset = request.query.offset % Wrap
  BY <1>2 DEF WriteCall
<1> QED
  BY <1>1, <1>3

LEMMA WritesReturn ==
  ASSUME WalkInv, WriteNow \/ WriteOldInTime \/ WriteBeforeTime
  PROVE  /\ call.op \in {"WriteValue", "WriteOldValue"} /\ now' = now /\ call' = Idle
         /\ \/ answer'.ok = FALSE /\ NothingAdded
            \/ \E time \in Int : Grown(time)
<1>1. now \in Nat /\ (call.op = "WriteOldValue" => call.offset \in Nat)
  <2>1. CASE call.op = "WriteOldValue"
    <3>1. call # Idle
      BY <2>1 DEF Idle
    <3>2. request.controller = "write"
      <4>1. call = ControllerCall /\ request.controller \in {"read", "last", "write"}
        BY <3>1 DEF WalkInv
      <4>2. ReadCall(request.query).op \in {"ReadHour", "ReadRange"}
        BY DEF ReadCall
      <4> QED
        BY <2>1, <4>1, <4>2, ToCallCalls
    <3> QED
      BY <2>1, <3>2, WriteTimes DEF WalkInv
  <2> QED
    BY <2>1 DEF WalkInv
<1>2. ASSUME NEW time \in Int, WriteTimeValue(time)
      PROVE  call' = Idle /\ Grown(time)
  <2>1. Return(TRUE, "", {}) /\ history' = Append(history, [time |-> time, value |-> NextValue])
    BY <1>2 DEF WriteTimeValue
  <2>2. answer'.ok = TRUE /\ answer'.error = "" /\ call' = Idle
    BY <2>1, ReturnFields
  <2> QED
    BY <2>1, <2>2 DEF Grown
<1>3. ASSUME Return(FALSE, "WRITE_MRV", {}), history' = history
      PROVE  call' = Idle /\ answer'.ok = FALSE /\ NothingAdded
  BY <1>3, ReturnFields DEF NothingAdded
<1>4. CASE WriteNow
  <2>1. call.op = "WriteValue" /\ WriteTimeValue(now) /\ now' = now
    BY <1>4 DEF WriteNow
  <2> QED
    BY <1>1, <1>2, <2>1
<1>5. CASE WriteOldInTime
  <2>1. call.op = "WriteOldValue" /\ WriteDated(now - call.offset) /\ now' = now
    BY <1>5 DEF WriteOldInTime, WriteOld
  <2>2. \/ Return(FALSE, "WRITE_MRV", {}) /\ history' = history
        \/ WriteTimeValue(now - call.offset)
    BY <2>1 DEF WriteDated
  <2>3. now - call.offset \in Int
    BY <1>1, <2>1
  <2> QED
    BY <1>2, <1>3, <2>1, <2>2, <2>3
<1>6. CASE WriteBeforeTime
  <2>1. call.op = "WriteOldValue" /\ now' = now
    BY <1>6 DEF WriteBeforeTime
  <2>2. \/ Return(FALSE, "WRITE_MRV", {}) /\ history' = history
        \/ /\ history' = Append(history, [time |-> now - call.offset, value |-> NextValue])
           /\ Return(TRUE, "", {})
    BY <1>6 DEF WriteBeforeTime
  <2>3. now - call.offset \in Int
    BY <1>1, <2>1
  <2>4. ASSUME Return(TRUE, "", {}) PROVE answer'.ok = TRUE /\ answer'.error = "" /\ call' = Idle
    BY <2>4, ReturnFields
  <2> QED
    BY <1>3, <2>1, <2>2, <2>3, <2>4 DEF Grown
<1> QED
  BY <1>4, <1>5, <1>6

LEMMA ReadsReturn ==
  ASSUME ReadHour \/ ReadRange \/ ReadLastValue
  PROVE  /\ call.op \in {"ReadHour", "ReadRange", "ReadLastValue"} /\ call' = Idle
         /\ UNCHANGED <<now, index, info, history>>
<1>1. /\ call.op \in {"ReadHour", "ReadRange", "ReadLastValue"}
      /\ UNCHANGED <<now, index, info, history>>
  BY DEF ReadHour, ReadRange, ReadLastValue
<1>2. \E ok, values : Return(ok, "", values)
  BY DEF ReadHour, ReadRange, ReadLastValue, ReadMiss, ReadMismatch
<1> QED
  BY <1>1, <1>2 DEF Return

LEMMA RunBodyWalks ==
  ASSUME WalkInv, RunBody
  PROVE  WalkInv'
<1>1. /\ request' = request /\ response' = response
      /\ WriteNow \/ WriteOldInTime \/ WriteBeforeTime \/ ReadHour \/ ReadRange \/ ReadLastValue
  BY DEF RunBody
<1>2. call # Idle
  <2>1. CASE WriteNow \/ WriteOldInTime \/ WriteBeforeTime
    <3>1. call.op \in {"WriteValue", "WriteOldValue"}
      BY <2>1, WritesReturn
    <3> QED
      BY <3>1 DEF Idle
  <2>2. CASE ReadHour \/ ReadRange \/ ReadLastValue
    <3>1. call.op \in {"ReadHour", "ReadRange", "ReadLastValue"}
      BY <2>2, ReadsReturn
    <3> QED
      BY <3>1 DEF Idle
  <2> QED
    BY <1>1, <2>1, <2>2
<1>3. /\ now \in Nat /\ RequestForm /\ history \in Seq(ServerValue) /\ request.query.offset \in Int
      /\ request.called /\ request.controller \in {"read", "last", "write"}
      /\ ~IsList /\ ~LacksStart
      /\ request.folder = "db" /\ call = ControllerCall
      /\ request.controller = "write" => request.accepted = Len(history)
  BY <1>2 DEF WalkInv, Pending
<1>4. response.status = 0
  BY <1>3, NoRequestFields DEF WalkInv
<1>5. WriteAnswered'
  BY <1>1, <1>4 DEF WriteAnswered, Answered
<1>6. Len(history) \in Nat /\ NextValue \in Nat
  BY <1>3 DEF NextValue
<1>7. RequestForm' /\ ~IsList' /\ ~LacksStart'
  BY <1>1, <1>3 DEF RequestForm, IsList, LacksStart
<1>8. /\ call' = Idle /\ now' = now /\ history' \in Seq(ServerValue)
      /\ request.controller = "write" => WriteLeft'
  <2>1. CASE WriteNow \/ WriteOldInTime \/ WriteBeforeTime
    <3>1. /\ now' = now /\ call' = Idle
          /\ (answer'.ok = FALSE /\ NothingAdded) \/ \E time \in Int : Grown(time)
      BY <2>1, WritesReturn
    <3>2. CASE answer'.ok = FALSE /\ NothingAdded
      BY <1>1, <1>3, <1>6, <3>1, <3>2 DEF NothingAdded, WriteLeft
    <3>3. ASSUME NEW time \in Int, Grown(time)
          PROVE  history' \in Seq(ServerValue) /\ Len(history') > Len(history) /\ answer'.ok
      <4> DEFINE v == [time |-> time, value |-> NextValue]
      <4>1. v \in ServerValue
        BY <1>6 DEF ServerValue
      <4>2. history' = Append(history, v) /\ answer'.ok
        BY <3>3 DEF Grown
      <4> HIDE DEF v
      <4> QED
        BY <1>3, <1>6, <4>1, <4>2
    <3> QED
      BY <1>1, <1>3, <1>6, <3>1, <3>2, <3>3 DEF WriteLeft
  <2>2. CASE ReadHour \/ ReadRange \/ ReadLastValue
    <3>1. /\ call.op \in {"ReadHour", "ReadRange", "ReadLastValue"} /\ call' = Idle
          /\ now' = now /\ history' = history
      BY <2>2, ReadsReturn
    <3>2. request.controller # "write"
      BY <1>3, <3>1, ToCallCalls
    <3> QED
      BY <1>3, <3>1, <3>2
  <2> QED
    BY <1>1, <2>1, <2>2
<1> QED
  BY <1>1, <1>3, <1>4, <1>5, <1>7, <1>8 DEF WalkInv, Pending

LEMMA ClockWalks ==
  ASSUME WalkInv, Clock \/ UNCHANGED serverVars
  PROVE  WalkInv'
<1>1. /\ now' = now \/ now' = now + 1
      /\ UNCHANGED <<data, index, info, call, answer, history, instances, lastErrors,
                     request, response>>
  BY DEF Clock, Tick, vars, serverVars
<1>2. ControllerCall' = ControllerCall
  BY <1>1 DEF ControllerCall
<1>3. now' \in Nat
  BY <1>1 DEF WalkInv
<1>4. RequestForm' /\ WriteAnswered'
  BY <1>1 DEF WalkInv, RequestForm, WriteAnswered, Answered
<1>5. /\ IsList' = IsList /\ LacksStart' = LacksStart
      /\ Pending' = Pending /\ WriteLeft' = WriteLeft
  BY <1>1 DEF IsList, LacksStart, Pending, WriteLeft
<1> QED
  BY <1>1, <1>2, <1>3, <1>4, <1>5 DEF WalkInv

LEMMA StepWalks ==
  ASSUME WalkInv, [ServerNext]_serverVars
  PROVE  WalkInv'
  BY ReceiveWalks, AnswersWalk, CallStoreWalks, CallNowhereWalks, RunBodyWalks, ClockWalks
  DEF ServerNext, Handle

LEMMA InitWalks ==
  ASSUME ServerInit
  PROVE  WalkInv
<1> DEFINE v == [time |-> HourSecs, value |-> 1]
<1>1. /\ now = HourSecs /\ call = Idle /\ request = NoRequest /\ response = NoResponse
      /\ history = <<>> \/ history = <<v>>
  BY DEF ServerInit
<1>2. HourSecs \in Nat /\ v \in ServerValue
  BY HourSecsAssumption DEF ServerValue
<1> HIDE DEF v
<1>3. history \in Seq(ServerValue)
  <2>1. <<>> \in Seq(ServerValue)
    OBVIOUS
  <2>2. <<v>> \in Seq(ServerValue)
    BY <1>2
  <2> QED
    BY <1>1, <2>1, <2>2
<1>4. response.status = 0
  BY <1>1 DEF NoResponse
<1>5. /\ request.controller = "" /\ ~request.called /\ request.query.offset = 0 /\ RequestForm
  BY <1>1, NoRequestFields DEF RequestForm
<1>6. WriteAnswered
  BY <1>4 DEF WriteAnswered, Answered
<1>7. now \in Nat /\ request.query.offset \in Int /\ request.controller # "write"
  <2>1. now \in Nat
    BY <1>1, <1>2
  <2>2. request.controller # "write"
    BY <1>5
  <2>3. 0 \in Int
    OBVIOUS
  <2>4. request.query.offset \in Int
    BY <1>5, <2>3, Zenon
  <2> QED
    BY <2>1, <2>2, <2>4
<1> QED
  BY <1>1, <1>3, <1>4, <1>5, <1>6, <1>7 DEF WalkInv

(* A request goes through its controller once: it is called at most once,    *)
(* with the arguments it asked for, and answered after the call.             *)
THEOREM WalkHolds == ServerSpec => []WalkInv
<1>1. ServerInit => WalkInv
  BY InitWalks
<1>2. WalkInv /\ [ServerNext]_serverVars => WalkInv'
  BY StepWalks
<1> QED
  BY <1>1, <1>2, PTL DEF ServerSpec

(* WriteController: whatever the library and its caller do, the status of a  *)
(* write tells whether the series of its sensor has grown.                   *)
THEOREM WriteTold == ServerSpec => []WriteAnswered
<1>1. WalkInv => WriteAnswered
  BY DEF WalkInv
<1> QED
  BY <1>1, WalkHolds, PTL

-----------------------------------------------------------------------------
(* The steps of a handler, for ClockedInv.                                   *)

LEMMA InfoNumbers ==
  ASSUME info \in InfoType
  PROVE  /\ info.startHour \in Nat /\ info.minHour \in Nat /\ info.maxHour \in Nat
         /\ info.maxOffset \in Nat /\ info.indexSize \in Nat
  BY DEF InfoType

LEMMA ServerNumbers ==
  /\ HourSecs \in Nat \ {0} /\ MaxTime \in Nat /\ Wrap \in Nat \ {0} /\ MaxTime < Wrap
  /\ Offsets \subseteq Int /\ 0 \in Int
  BY HourSecsAssumption, BoundsAssumption, ServerAssumption

LEMMA WrappedSmall ==
  ASSUME NEW a \in Nat, NEW n \in Nat, a < n
  PROVE  a % n = a
  OBVIOUS

(* The offset a write is called with.                                        *)
LEMMA OffsetCalled ==
  ASSUME NegativesWrap, WalkInv, ClockedInv, call.op = "WriteOldValue",
         request.controller = "write"
  PROVE  /\ call.offset \in Nat /\ now - call.offset \in Int
         /\ request.query.offset < 0 => call.offset > now
         /\ ~(call.offset > now) => HourSecs <= now - call.offset /\ now - call.offset <= now
<1> DEFINE o == request.query.offset
<1>1. call.offset \in Nat /\ call.offset = o % Wrap
  BY WriteTimes
<1>2. call # Idle
  BY DEF Idle
<1>3. o \in Offsets \union {0} /\ o <= now - HourSecs /\ o \in Int
  BY <1>2 DEF ClockedInv, Pending, WalkInv
<1>4. now \in Nat /\ HourSecs <= now /\ now <= MaxTime
  BY DEF WalkInv, ClockedInv
<1> HIDE DEF o
<1>5. CASE o < 0
  <2>1. o \in Offsets
    BY <1>3, <1>5
  <2>2. call.offset > MaxTime
    BY <1>1, <1>5, <2>1 DEF NegativesWrap
  <2> QED
    BY <1>1, <1>4, <2>2, ServerNumbers DEF o
<1>6. CASE ~(o < 0)
  <2>1. o \in Nat /\ o < Wrap
    BY <1>3, <1>4, <1>6, ServerNumbers
  <2>2. call.offset = o
    BY <1>1, <2>1, WrappedSmall, ServerNumbers
  <2> QED
    BY <1>1, <1>3, <1>4, <1>6, <2>1, <2>2, ServerNumbers DEF o
<1> QED
  BY <1>5, <1>6

(* A value of some hour that is accepted leaves an hour.                     *)
LEMMA WriteKeepsHour ==
  ASSUME WalkInv, ClockedInv, IsOpen, NEW time \in Nat, HourSecs <= time, time <= now,
         info.startHour <= time, WriteTimeValue(time), now' = now
  PROVE  /\ info' \in InfoType /\ IsOpen' /\ HourKnown'
<1> DEFINE hour == FromTimeT(time)
<1>1. /\ info \in InfoType /\ info.type \in ValueTypes
      /\ info.startHour = ToTimeT(info.maxHour, 0) /\ info.startHour <= now
      /\ now \in Nat
  BY DEF ClockedInv, HourKnown, WalkInv
<1>2. /\ info.startHour \in Nat /\ info.minHour \in Nat /\ info.maxHour \in Nat
      /\ info.maxOffset \in Nat /\ info.indexSize \in Nat
  BY <1>1, InfoNumbers
<1>3. CASE WriteInNewHour(time)
  <2> DEFINE start == ToTimeT(hour, 0)
             first == IF info.minHour = 0 THEN hour ELSE info.minHour
             off   == OffsetIn(hour, time)
             size  == info.indexSize + 1
  <2>1. info' = FilesInfo(info.type, start, first, hour, off, size)
    BY <1>3 DEF WriteInNewHour
  <2>2. /\ hour \in Nat /\ start \in Nat /\ start <= time /\ off \in Nat /\ hour # 0
    BY HourOfTime
  <2>3. first \in Nat /\ size \in Nat
    BY <1>2, <2>2
  <2> HIDE DEF start, first, off, size, hour
  <2>4. info' \in InfoType /\ info' # NoInfo
    BY <1>1, <2>1, <2>2, <2>3, InfoTyped
  <2>5. info'.type = info.type /\ info'.startHour = start /\ info'.maxHour = hour
    BY <2>1, InfoFields
  <2>6. NoInfo' = NoInfo
    BY DEF NoInfo, FilesInfo
  <2>7. IsOpen'
    BY <2>4, <2>6 DEF IsOpen
  <2>8. HourKnown'
    <3>1. info'.startHour = ToTimeT(info'.maxHour, 0)
      BY <2>5 DEF start
    <3>2. info'.startHour <= now'
      BY <1>1, <2>2, <2>5
    <3> QED
      BY <1>1, <2>2, <2>5, <3>1, <3>2 DEF HourKnown
  <2> QED
    BY <2>4, <2>7, <2>8
<1>4. CASE WriteInHour(time)
  <2> DEFINE off == time - info.startHour
  <2>1. /\ ~(time - info.startHour > HourSecs - 1)
        /\ info' = FilesInfo(info.type, info.startHour, info.minHour, info.maxHour, off,
                             info.indexSize)
    BY <1>4 DEF WriteInHour, StartsHour
  <2>2. info.maxHour # 0
    BY <1>1, <1>2, <2>1, ServerNumbers DEF ToTimeT
  <2>3. off \in Nat
    BY <1>2
  <2> HIDE DEF off
  <2>4. info' \in InfoType /\ info' # NoInfo
    BY <1>1, <1>2, <2>1, <2>3, InfoTyped
  <2>5. /\ info'.type = info.type /\ info'.startHour = info.startHour
        /\ info'.maxHour = info.maxHour
    BY <2>1, InfoFields
  <2>6. NoInfo' = NoInfo
    BY DEF NoInfo, FilesInfo
  <2>7. IsOpen'
    BY <2>4, <2>6 DEF IsOpen
  <2> QED
    BY <1>1, <2>2, <2>4, <2>5, <2>7 DEF HourKnown
<1> QED
  BY <1>3, <1>4 DEF WriteTimeValue

(* What a write does: it is refused, or its value is that of some hour, or   *)
(* of a time before 1970.                                                    *)
RefusedWrite ==
  /\ Return(FALSE, "WRITE_MRV", {}) /\ info.maxHour > 0
  /\ UNCHANGED <<data, index, info, history>>

TimedWrite(time) ==
  /\ HourSecs <= time /\ time <= now /\ info.startHour <= time
  /\ request.query.offset >= 0
  /\ info.maxHour > 0 /\ call.op # "WriteValue" => ToTimeT(info.maxHour, info.maxOffset) < time
  /\ WriteTimeValue(time)

EarlyWrite(time) ==
  /\ time < 0 /\ info.maxHour = 0
  /\ data' = Put(data, ValueCell(WrappedOffset(time), NextValue))
  /\ info' = FilesInfo(info.type, info.startHour, info.minHour, info.maxHour,
                       WrappedOffset(time), info.indexSize)
  /\ history' = Append(history, [time |-> time, value |-> NextValue])
  /\ Return(TRUE, "", {})
  /\ UNCHANGED index

LEMMA WritesReach ==
  ASSUME NegativesWrap, WalkInv, ClockedInv, WriteNow \/ WriteOldInTime \/ WriteBeforeTime
  PROVE  /\ call # Idle /\ request.controller = "write" /\ IsOpen /\ now' = now
         /\ \/ RefusedWrite
            \/ \E time \in Nat : TimedWrite(time)
            \/ \E time \in Int : EarlyWrite(time)
<1>1. call.op \in {"WriteValue", "WriteOldValue"} /\ now' = now
  BY WritesReturn
<1>2. call # Idle
  BY <1>1 DEF Idle
<1>3. /\ now \in Nat /\ HourSecs <= now /\ IsOpen /\ call = ControllerCall
      /\ request.controller \in {"read", "last", "write"} /\ request.query.offset \in Int
  BY <1>2 DEF WalkInv, ClockedInv
<1>4. /\ info.startHour \in Nat /\ info.maxHour \in Nat /\ info.maxOffset \in Nat
      /\ info.startHour = ToTimeT(info.maxHour, 0) /\ info.startHour <= now
  BY <1>3, InfoNumbers DEF ClockedInv, HourKnown
<1>5. request.controller = "write"
  <2>1. ReadCall(request.query).op \in {"ReadHour", "ReadRange"}
    BY DEF ReadCall
  <2> QED
    BY <1>1, <1>3, <2>1, ToCallCalls
<1>6. HourSecs \in Nat \ {0}
  BY ServerNumbers
<1>7. CASE WriteNow
  <2>1. call.op = "WriteValue" /\ WriteTimeValue(now)
    BY <1>7 DEF WriteNow
  <2>2. request.query.offset = 0
    BY <1>3, <1>5, <2>1, ToCallCalls DEF WriteCall
  <2>3. TimedWrite(now)
    BY <1>3, <1>4, <2>1, <2>2 DEF TimedWrite
  <2> QED
    BY <1>1, <1>2, <1>3, <1>5, <2>3
<1>8. CASE WriteOldInTime
  <2> DEFINE time == now - call.offset
  <2>1. call.op = "WriteOldValue" /\ ~(call.offset > now) /\ WriteDated(time)
    BY <1>8 DEF WriteOldInTime, WriteOld
  <2>2. /\ call.offset \in Nat /\ time \in Int /\ HourSecs <= time /\ time <= now
        /\ ~(request.query.offset < 0)
    BY <1>5, <2>1, OffsetCalled
  <2>3. \/ /\ HasMoreRecent(time) /\ Return(FALSE, "WRITE_MRV", {})
           /\ UNCHANGED <<data, index, info, history>>
        \/ ~HasMoreRecent(time) /\ WriteTimeValue(time)
    BY <2>1 DEF WriteDated
  <2> HIDE DEF time
  <2>4. time \in Nat /\ request.query.offset >= 0
    BY <1>3, <1>6, <2>2
  <2>5. HasMoreRecent(time) => info.maxHour > 0
    BY DEF HasMoreRecent
  <2>6. ~HasMoreRecent(time) => /\ info.startHour <= time
                                /\ info.maxHour > 0 => ToTimeT(info.maxHour, info.maxOffset) < time
    BY <1>4, <1>6, <2>4 DEF HasMoreRecent, ToTimeT
  <2>7. RefusedWrite \/ TimedWrite(time)
    BY <2>2, <2>3, <2>4, <2>5, <2>6 DEF RefusedWrite, TimedWrite
  <2> QED
    BY <1>1, <1>2, <1>3, <1>5, <2>4, <2>7
<1>9. CASE WriteBeforeTime
  <2> DEFINE time == now - call.offset
  <2>1. /\ call.op = "WriteOldValue" /\ call.offset > now
        /\ \/ /\ HasMoreRecent(time) /\ Return(FALSE, "WRITE_MRV", {})
              /\ UNCHANGED <<data, index, info, history>>
           \/ /\ ~HasMoreRecent(time)
              /\ data' = Put(data, ValueCell(WrappedOffset(time), NextValue))
              /\ info' = FilesInfo(info.type, info.startHour, info.minHour, info.maxHour,
                                   WrappedOffset(time), info.indexSize)
              /\ history' = Append(history, [time |-> time, value |-> NextValue])
              /\ Return(TRUE, "", {})
              /\ UNCHANGED index
    BY <1>9 DEF WriteBeforeTime
  <2>5. call.op = "WriteOldValue" /\ call.offset > now
    BY <2>1
  <2>6. call.offset \in Nat
    BY <1>5, <2>5, OffsetCalled
  <2>2. time \in Int /\ time < 0
    BY <1>3, <2>5, <2>6
  <2> HIDE DEF time
  <2>3. HasMoreRecent(time) => info.maxHour > 0
    BY DEF HasMoreRecent
  <2>7. ToTimeT(info.maxHour, info.maxOffset) \in Nat
    BY <1>4, TimeTyped
  <2>4. ~HasMoreRecent(time) => info.maxHour = 0
    BY <1>4, <2>2, <2>7 DEF HasMoreRecent
  <2>8. RefusedWrite \/ EarlyWrite(time)
    BY <2>1, <2>2, <2>3, <2>4 DEF RefusedWrite, EarlyWrite
  <2> QED
    BY <1>1, <1>2, <1>3, <1>5, <2>2, <2>8
<1> QED
  BY <1>7, <1>8, <1>9

LEMMA WrappedTyped ==
  ASSUME NEW time \in Int, info.startHour \in Nat
  PROVE  WrappedOffset(time) \in Nat
  BY DEF WrappedOffset

LEMMA TimesAreInts ==
  ASSUME NEW h \in Seq(ServerValue), NEW k \in 1 .. Len(h)
  PROVE  h[k] \in ServerValue /\ h[k].time \in Int /\ h[k].value \in Nat
<1>1. h[k] \in ServerValue
  OBVIOUS
<1> QED
  BY <1>1 DEF ServerValue

LEMMA RunBodyClocks ==
  ASSUME NegativesWrap, WalkInv, ClockedInv, RunBody
  PROVE  ClockedInv'
<1>1. /\ request' = request /\ response' = response
      /\ WriteNow \/ WriteOldInTime \/ WriteBeforeTime \/ ReadHour \/ ReadRange \/ ReadLastValue
  BY DEF RunBody
<1>2. call # Idle /\ call' = Idle
  <2>1. CASE WriteNow \/ WriteOldInTime \/ WriteBeforeTime
    BY <2>1, WritesReach, WritesReturn
  <2>2. CASE ReadHour \/ ReadRange \/ ReadLastValue
    <3>1. call.op \in {"ReadHour", "ReadRange", "ReadLastValue"} /\ call' = Idle
      BY <2>2, ReadsReturn
    <3> QED
      BY <3>1 DEF Idle
  <2> QED
    BY <1>1, <2>1, <2>2
<1>3. /\ now \in Nat /\ HourSecs <= now /\ now <= MaxTime /\ info \in InfoType
      /\ IsOpen /\ HourKnown /\ request.called
      /\ history \in Seq(ServerValue) /\ Len(history) \in Nat
      /\ request.controller = "write" => request.accepted = Len(history)
  BY <1>2 DEF WalkInv, ClockedInv, Pending
<1>4. NegativeRefused'
  <2>1. response.status = 0
    BY <1>3, NoRequestFields DEF WalkInv
  <2> QED
    BY <1>1, <2>1 DEF NegativeRefused, Answered
<1>5. SUFFICES /\ now' = now /\ info' \in InfoType /\ IsOpen' /\ HourKnown'
               /\ request.controller = "write" => RefusalLeft'
  BY <1>1, <1>2, <1>3, <1>4 DEF ClockedInv, Pending
<1>6. CASE WriteNow \/ WriteOldInTime \/ WriteBeforeTime
  <2>1. /\ request.controller = "write" /\ now' = now
        /\ RefusedWrite \/ (\E time \in Nat : TimedWrite(time)) \/ \E time \in Int : EarlyWrite(time)
    BY <1>6, WritesReach
  <2>2. CASE RefusedWrite
    <3>1. UNCHANGED <<info, history>> /\ Return(FALSE, "WRITE_MRV", {})
      BY <2>2 DEF RefusedWrite
    <3>2. answer'.ok = FALSE
      BY <3>1 DEF Return, Answer
    <3>3. IsOpen' /\ HourKnown'
      BY <1>3, <2>1, <3>1 DEF IsOpen, HourKnown, NoInfo, FilesInfo
    <3> QED
      BY <1>3, <2>1, <3>1, <3>2, <3>3 DEF RefusalLeft
  <2>3. ASSUME NEW time \in Nat, TimedWrite(time)
        PROVE  info' \in InfoType /\ IsOpen' /\ HourKnown' /\ RefusalLeft'
    <3>1. info' \in InfoType /\ IsOpen' /\ HourKnown'
      BY <1>3, <2>1, <2>3, WriteKeepsHour DEF TimedWrite
    <3>2. request.query.offset >= 0 /\ request.query.offset \in Int
      BY <2>3 DEF TimedWrite, WalkInv
    <3> QED
      BY <1>1, <3>1, <3>2 DEF RefusalLeft
  <2>4. ASSUME NEW time \in Int, EarlyWrite(time)
        PROVE  info' \in InfoType /\ IsOpen' /\ HourKnown' /\ RefusalLeft'
    <3> DEFINE off == WrappedOffset(time)
               v   == [time |-> time, value |-> NextValue]
    <3>1. /\ info' = FilesInfo(info.type, info.startHour, info.minHour, info.maxHour, off,
                               info.indexSize)
          /\ history' = Append(history, v) /\ time < 0 /\ info.maxHour = 0
      BY <2>4 DEF EarlyWrite
    <3>2. /\ info.type \in ValueTypes /\ info.startHour \in Nat /\ info.minHour \in Nat
          /\ info.maxHour \in Nat /\ info.indexSize \in Nat /\ off \in Nat
      BY <1>3, InfoNumbers, WrappedTyped DEF HourKnown
    <3> HIDE DEF off
    <3>3. info' \in InfoType /\ info' # NoInfo
      BY <3>1, <3>2, InfoTyped
    <3>4. /\ info'.type = info.type /\ info'.startHour = info.startHour
          /\ info'.maxHour = info.maxHour
      BY <3>1, InfoFields
    <3>5. IsOpen'
      BY <3>3 DEF IsOpen, NoInfo, FilesInfo
    <3>6. v \in ServerValue /\ v.time = time
      BY <1>3 DEF ServerValue, NextValue
    <3>7. \A k \in 1 .. Len(history) : history[k].time < HourSecs
      BY <1>3, <3>1 DEF HourKnown
    <3> HIDE DEF v
    <3>8. /\ Len(history') = Len(history) + 1 /\ history'[Len(history) + 1] = v
          /\ \A k \in 1 .. Len(history) : history'[k] = history[k]
      BY <1>3, <3>1, <3>6
    <3>9. \A k \in 1 .. Len(history') : history'[k].time < HourSecs
      BY <1>3, <3>1, <3>6, <3>7, <3>8, ServerNumbers
    <3>10. HourKnown'
      BY <1>3, <2>1, <3>4, <3>9 DEF HourKnown
    <3>11. ~(\E k \in 1 .. request.accepted : history'[k].time >= HourSecs)
      <4>1. request.accepted = Len(history)
        BY <1>3, <2>1
      <4>2. \A k \in 1 .. Len(history) : history[k].time \in Int
        BY <1>3, TimesAreInts
      <4> QED
        BY <1>3, <3>7, <3>8, <4>1, <4>2, ServerNumbers
    <3> QED
      BY <1>1, <3>3, <3>5, <3>10, <3>11 DEF RefusalLeft
  <2> QED
    BY <1>3, <2>1, <2>2, <2>3, <2>4
<1>7. CASE ReadHour \/ ReadRange \/ ReadLastValue
  <2>1. /\ call.op \in {"ReadHour", "ReadRange", "ReadLastValue"}
        /\ UNCHANGED <<now, index, info, history>>
    BY <1>7, ReadsReturn
  <2>2. request.controller # "write"
    BY <1>2, <2>1, ToCallCalls DEF WalkInv
  <2>3. IsOpen' /\ HourKnown'
    BY <1>3, <2>1 DEF IsOpen, HourKnown, NoInfo, FilesInfo
  <2> QED
    BY <1>3, <2>1, <2>2, <2>3
<1> QED
  BY <1>1, <1>6, <1>7

LEMMA ReceiveClocks ==
  ASSUME WalkInv, ClockedInv, Receive
  PROVE  ClockedInv'
<1>1. /\ request = NoRequest /\ response' = NoResponse
      /\ UNCHANGED <<now, data, index, info, call, history>>
  BY DEF Receive
<1>2. PICK uri \in Uris : \E query \in QueriesOf(Walk(uri)) :
        request' = Request(Walk(uri).controller, Walk(uri).params, query, FALSE)
  BY Zenon DEF Receive
<1> DEFINE w == Walk(uri)
<1>3. PICK query \in QueriesOf(w) : request' = Request(w.controller, w.params, query, FALSE)
  BY <1>2
<1> HIDE DEF w
<1>4. now \in Nat /\ HourSecs <= now /\ call = Idle
  BY <1>1, NoRequestFields DEF WalkInv, ClockedInv
<1>5. /\ query.offset \in Offsets \union {0}
      /\ w.controller = "write" => query.offset <= now - HourSecs
  BY <1>4, QueryFacts
<1>6. ~request'.called /\ request'.query = query /\ request'.controller = w.controller
  BY <1>3 DEF Request
<1>7. response'.status = 0
  BY <1>1 DEF NoResponse
<1>8. NegativeRefused'
  BY <1>7 DEF NegativeRefused, Answered
<1>9. /\ IsOpen' <=> IsOpen
      /\ HourKnown' <=> HourKnown
      /\ Untouched' <=> Untouched
  BY <1>1 DEF IsOpen, HourKnown, Untouched, NoInfo, FilesInfo
<1> QED
  BY <1>1, <1>4, <1>5, <1>6, <1>8, <1>9 DEF ClockedInv, Pending

(* The answers given without a call, or after it.                            *)
LEMMA SentClocks ==
  ASSUME WalkInv, ClockedInv, call = Idle, NEW status, NEW error, NEW values,
         Send(status, error, values), UNCHANGED vars,
         request.controller = "write" => status = 404 \/ (RefusalLeft /\ answer.ok)
  PROVE  ClockedInv'
<1>1. request' = NoRequest /\ response' = Response(status, error, values)
  BY DEF Send
<1>2. /\ response'.status = status /\ response'.to = request
  BY <1>1 DEF Response
<1>3. UNCHANGED <<now, data, index, info, call, answer, history>>
  BY DEF vars
<1>4. NegativeRefused'
  BY <1>2, <1>3 DEF NegativeRefused, Answered, RefusalLeft
<1>5. request'.controller = ""
  BY <1>1, NoRequestFields
<1>6. /\ IsOpen' <=> IsOpen
      /\ HourKnown' <=> HourKnown
      /\ Untouched' <=> Untouched
  BY <1>3 DEF IsOpen, HourKnown, Untouched, NoInfo, FilesInfo
<1> QED
  BY <1>3, <1>4, <1>5, <1>6 DEF ClockedInv

LEMMA AnswersClock ==
  ASSUME WalkInv, ClockedInv, Welcome \/ RefuseQuery \/ SensorsList \/ Respond
  PROVE  ClockedInv'
<1>1. CASE Welcome
  <2>1. request.controller = "welcome" /\ Send(200, "", {}) /\ UNCHANGED vars
    BY <1>1 DEF Welcome
  <2>2. call = Idle
    BY <2>1 DEF WalkInv
  <2> QED
    BY <2>1, <2>2, SentClocks
<1>2. CASE RefuseQuery
  <2>1. LacksStart /\ Send(500, "", {}) /\ UNCHANGED vars
    BY <1>2 DEF RefuseQuery
  <2>2. call = Idle /\ request.controller = "read"
    BY <2>1 DEF WalkInv, LacksStart
  <2> QED
    BY <2>1, <2>2, SentClocks
<1>3. CASE SensorsList
  <2>1. IsList /\ UNCHANGED vars /\ (Send(404, "", {}) \/ Send(200, "", {}))
    BY <1>3 DEF SensorsList
  <2>2. call = Idle /\ request.controller = "read"
    BY <2>1 DEF WalkInv, IsList
  <2> QED
    BY <2>1, <2>2, SentClocks
<1>4. CASE Respond
  <2>1. request.called /\ call = Idle /\ UNCHANGED vars
    BY <1>4 DEF Respond
  <2>2. request.controller = "write" => RefusalLeft
    BY <2>1 DEF ClockedInv, Pending
  <2> DEFINE told == lastErrors[request.folder]
             body == IF Resampled THEN AverageLines ELSE Lines(answer.values)
  <2>3. \/ ~answer.ok /\ Send(404, told, {})
        \/ answer.ok /\ Send(200, "", {})
        \/ answer.ok /\ Send(200, "", body)
    BY <1>4, StatusSent
  <2> HIDE DEF told, body
  <2>4. CASE ~answer.ok /\ Send(404, told, {})
    BY <2>1, <2>4, SentClocks
  <2>5. CASE answer.ok /\ Send(200, "", {})
    BY <2>1, <2>2, <2>5, SentClocks
  <2>6. CASE answer.ok /\ Send(200, "", body)
    BY <2>1, <2>2, <2>6, SentClocks
  <2> QED
    BY <2>3, <2>4, <2>5, <2>6
<1> QED
  BY <1>1, <1>2, <1>3, <1>4

(* The files that were there.                                                *)
IntCells == <<HeaderCell("Int"), HourCell(1), ValueCell(0, 1)>>

LEMMA IntCellsFacts ==
  /\ IntCells \in Seq(Cell) /\ Len(IntCells) = 3
  /\ IntCells[1] = HeaderCell("Int") /\ IntCells[2] = HourCell(1) /\ IntCells[3] = ValueCell(0, 1)
  /\ IntCells[1].type = "Int" /\ IntCells[1].kind = "header"
  /\ IntCells[2].kind = "hour" /\ IntCells[2].hour = 1
  /\ IntCells[3].kind = "value" /\ IntCells[3].offset = 0 /\ IntCells[3].value = 1
<1> DEFINE a == HeaderCell("Int")
           b == HourCell(1)
           c == ValueCell(0, 1)
<1>1. "Int" \in ValueTypes
  BY DEF ValueTypes
<1>2. a \in Cell /\ b \in Cell /\ c \in Cell
  BY <1>1, CellsMade
<1>3. /\ a.type = "Int" /\ a.kind = "header" /\ b.kind = "hour" /\ b.hour = 1
      /\ c.kind = "value" /\ c.offset = 0 /\ c.value = 1
  BY DEF HeaderCell, HourCell, ValueCell
<1>4. IntCells = <<a, b, c>>
  BY DEF IntCells
<1> HIDE DEF a, b, c
<1>5. /\ IntCells \in Seq(Cell) /\ Len(IntCells) = 3
      /\ IntCells[1] = a /\ IntCells[2] = b /\ IntCells[3] = c
  BY <1>2, <1>4
<1> QED
  BY <1>3, <1>5 DEF a, b, c

LEMMA IntFileFacts ==
  /\ IntFile \in StreamType(Cell) /\ Contents(IntFile) = IntCells /\ IntFile.state = "present"
<1>1. IntFile = Stream("present", IntCells, <<>>, 0)
  BY DEF IntFile, IntCells
<1>2. IntCells \in Seq(Cell)
  BY IntCellsFacts
<1> QED
  BY <1>1, <1>2, FlushedFacts

(* The index of the files that were there.                                   *)
LEMMA IntIndexFacts ==
  LET idx == <<Entry(1, 1)>> IN
  /\ idx \in Seq(EntryType) /\ Len(idx) = 1 /\ idx # <<>>
  /\ idx[1].hour = 1 /\ idx[1].pos = 1
<1> DEFINE e == Entry(1, 1)
<1>1. e \in EntryType /\ e.hour = 1 /\ e.pos = 1
  BY DEF Entry, EntryType
<1> HIDE DEF e
<1>2. <<e>> \in Seq(EntryType) /\ Len(<<e>>) = 1 /\ <<e>> # <<>> /\ <<e>>[1] = e
  BY <1>1
<1> QED
  BY <1>1, <1>2 DEF e

(* What getFilesInfo makes of FilesInfo.                                     *)
LEMMA FoundOpened ==
  ASSUME Untouched, ~IsOpen, NEW c, OpenFiles(c)
  PROVE  /\ data = IntFile /\ index = <<Entry(1, 1)>>
         /\ history = <<[time |-> HourSecs, value |-> 1]>>
         /\ data' = SeekEnd(Open(data)) /\ index' = index
         /\ info' = FilesInfo("Int", ToTimeT(1, 0), 1, 1, 0, 1)
<1>1. data.state = "present"
  BY DEF OpenFiles, FileExists
<1>2. /\ data = IntFile /\ index = <<Entry(1, 1)>>
      /\ history = <<[time |-> HourSecs, value |-> 1]>>
  BY <1>1, AbsentFacts DEF Untouched
<1>3. Contents(data) = IntCells /\ LastHour = 1 /\ index[1].hour = 1 /\ Len(index) = 1
  BY <1>2, IntFileFacts, IntIndexFacts DEF LastHour
<1>4. TailOffsets(IntCells) = {0}
  BY IntCellsFacts DEF TailOffsets
<1>5. info' = OpenedInfo(0)
  BY <1>3, <1>4 DEF OpenFiles
<1>6. info' = FilesInfo("Int", ToTimeT(1, 0), 1, 1, 0, 1)
  BY <1>3, <1>5, IntCellsFacts DEF OpenedInfo
<1> QED
  BY <1>2, <1>6 DEF OpenFiles

LEMMA CallStoreClocks ==
  ASSUME WalkInv, ClockedInv, CallStore
  PROVE  ClockedInv'
<1> DEFINE c == ControllerCall
<1>1. /\ ToCall /\ call = Idle
      /\ UseOpenFiles(c) \/ OpenFiles(c) \/ OpenFilesFails(c) \/ NoFile(c) \/ CreateFiles(c)
      /\ request' = [request EXCEPT !.called = TRUE]
      /\ now' = now /\ history' = history /\ response' = response
  BY DEF CallStore
<1>2. RequestForm /\ now \in Nat /\ HourSecs <= now /\ now <= MaxTime /\ info \in InfoType
  BY DEF WalkInv, ClockedInv
<1>3. /\ request'.controller = request.controller /\ request'.query = request.query
      /\ request'.accepted = request.accepted
  BY <1>1, <1>2, RequestCalled
<1>4. c # Idle
  BY <1>1, ToCallCalls
<1>5. \/ answer' = NoAnswer /\ call' = c
      \/ \E error : answer' = Answer(c, FALSE, error, {}) /\ call' = Idle
  BY <1>1, StoreCalled
<1>6. TypeOf(c) \in {"Undefined", "Float"}
  <2>1. c.op \in {"WriteValue", "WriteOldValue"} => c.type = "Float"
    <3>1. request.controller = "write" => c.type = "Float"
      <4>1. ASSUME NEW q PROVE WriteCall(q).type = "Float"
        BY DEF WriteCall
      <4> QED
        BY <1>1, <4>1, ToCallCalls
    <3>2. request.controller # "write" => c.op \notin {"WriteValue", "WriteOldValue"}
      <4>1. ASSUME NEW q PROVE ReadCall(q).op \in {"ReadHour", "ReadRange"}
        BY DEF ReadCall
      <4> QED
        BY <1>1, <4>1, ToCallCalls DEF ToCall
    <3> QED
      BY <3>1, <3>2
  <2>2. c.op # "WriteTimeValue"
    <3>1. ASSUME NEW q
          PROVE  /\ ReadCall(q).op \in {"ReadHour", "ReadRange"}
                 /\ WriteCall(q).op \in {"WriteValue", "WriteOldValue"}
      BY DEF ReadCall, WriteCall
    <3> QED
      BY <1>1, <3>1, ToCallCalls DEF ToCall
  <2> QED
    BY <2>1, <2>2 DEF TypeOf
<1>7. ~request.called /\ response.status = 0
  BY <1>1, NoRequestFields DEF ToCall, WalkInv
<1> HIDE DEF c
<1>8. NegativeRefused'
  BY <1>1, <1>7 DEF NegativeRefused, Answered
<1>9. call' = Idle => RefusalLeft'
  <2>1. SUFFICES ASSUME call' = Idle PROVE RefusalLeft'
    OBVIOUS
  <2>2. PICK error : answer' = Answer(c, FALSE, error, {})
    BY <1>4, <1>5, <2>1
  <2>3. answer'.ok = FALSE
    BY <2>2 DEF Answer
  <2> QED
    BY <2>3 DEF RefusalLeft
<1>10. request.controller = "write" =>
         /\ request.query.offset \in Offsets \union {0}
         /\ request.query.offset <= now - HourSecs
  BY <1>7 DEF ClockedInv, Pending
<1>11. SUFFICES /\ info' \in InfoType
                /\ call' # Idle => IsOpen'
                /\ IF IsOpen' THEN HourKnown' ELSE Untouched'
  BY <1>1, <1>2, <1>3, <1>8, <1>9, <1>10 DEF ClockedInv, Pending
<1>12. NoInfo' = NoInfo
  BY DEF NoInfo, FilesInfo
<1>13. CASE UseOpenFiles(c)
  BY <1>1, <1>2, <1>12, <1>13 DEF UseOpenFiles, IsOpen, HourKnown, ClockedInv
<1>14. CASE OpenFilesFails(c) \/ NoFile(c)
  <2>1. ~IsOpen /\ UNCHANGED <<data, index, info>> /\ call' = Idle
    BY <1>14 DEF OpenFilesFails, NoFile, Refuse
  <2> QED
    BY <1>1, <1>2, <1>12, <2>1 DEF IsOpen, Untouched, ClockedInv
<1>15. CASE OpenFiles(c)
  <2>1. ~IsOpen /\ Untouched
    BY <1>15 DEF OpenFiles, ClockedInv
  <2>2. info' = FilesInfo("Int", ToTimeT(1, 0), 1, 1, 0, 1)
    BY <1>15, <2>1, FoundOpened
  <2>3. "Int" \in ValueTypes /\ ToTimeT(1, 0) = HourSecs
    BY ServerNumbers DEF ValueTypes, ToTimeT
  <2>4. HourSecs \in Nat /\ 1 \in Nat /\ 0 \in Nat
    BY ServerNumbers
  <2>5. info' \in InfoType /\ info' # NoInfo
    BY <2>2, <2>3, <2>4, InfoTyped
  <2>6. info'.type = "Int" /\ info'.startHour = ToTimeT(1, 0) /\ info'.maxHour = 1
    BY <2>2, InfoFields
  <2>7. HourKnown'
    BY <1>1, <1>2, <2>3, <2>6 DEF HourKnown
  <2> QED
    BY <1>12, <2>5, <2>7 DEF IsOpen
<1>16. CASE CreateFiles(c)
  <2>1. /\ ~IsOpen /\ ~FileExists(data) /\ TypeOf(c) # "Undefined"
        /\ info' = FilesInfo(TypeOf(c), 0, 0, 0, 0, 0)
    BY <1>16 DEF CreateFiles
  <2>2. history = <<>>
    BY <2>1, IntFileFacts DEF ClockedInv, Untouched, FileExists
  <2>3. TypeOf(c) \in ValueTypes
    BY <1>6, <2>1 DEF ValueTypes
  <2>4. 0 \in Nat
    OBVIOUS
  <2>5. info' \in InfoType /\ info' # NoInfo
    BY <2>1, <2>3, <2>4, InfoTyped
  <2>6. info'.type \in ValueTypes /\ info'.startHour = 0 /\ info'.maxHour = 0
    BY <2>1, <2>3, InfoFields
  <2>7. ToTimeT(0, 0) = 0
    BY ServerNumbers DEF ToTimeT
  <2>8. \A k \in 1 .. Len(history') : history'[k].time < HourSecs
    BY <1>1, <2>2
  <2>9. HourKnown'
    BY <1>1, <1>2, <2>6, <2>7, <2>8 DEF HourKnown
  <2> QED
    BY <1>12, <2>5, <2>9 DEF IsOpen
<1> QED
  BY <1>1, <1>13, <1>14, <1>15, <1>16

LEMMA CallNowhereClocks ==
  ASSUME WalkInv, ClockedInv, CallNowhere
  PROVE  ClockedInv'
<1>1. /\ ToCall /\ request' = [request EXCEPT !.called = TRUE]
      /\ UNCHANGED <<now, data, index, info, call, history, response>>
  BY DEF CallNowhere
<1> DEFINE code == IF request.controller = "write" THEN "CREATE_DAT1" ELSE "NOFILE"
<1>2. answer' = Answer(ControllerCall, FALSE, code, {})
  BY DEF CallNowhere
<1> HIDE DEF code
<1>3. answer'.ok = FALSE
  BY <1>2 DEF Answer
<1>4. /\ request'.controller = request.controller /\ request'.query = request.query
      /\ request'.accepted = request.accepted
  BY <1>1, RequestCalled DEF WalkInv
<1>5. ~request.called /\ response.status = 0
  BY <1>1, NoRequestFields DEF ToCall, WalkInv
<1>6. NegativeRefused' /\ RefusalLeft'
  BY <1>1, <1>3, <1>5 DEF NegativeRefused, Answered, RefusalLeft
<1>7. /\ IsOpen' <=> IsOpen
      /\ HourKnown' <=> HourKnown
      /\ Untouched' <=> Untouched
  BY <1>1 DEF IsOpen, HourKnown, Untouched, NoInfo, FilesInfo
<1> QED
  BY <1>1, <1>4, <1>5, <1>6, <1>7 DEF ClockedInv, Pending

LEMMA ClockClocks ==
  ASSUME WalkInv, ClockedInv, Clock \/ UNCHANGED serverVars
  PROVE  ClockedInv'
<1>1. /\ now' = now \/ (now' = now + 1 /\ now < MaxTime)
      /\ UNCHANGED <<data, index, info, call, answer, history, instances, lastErrors,
                     request, response>>
  BY DEF Clock, Tick, vars, serverVars
<1>2. now \in Nat /\ HourSecs <= now /\ now <= MaxTime
  BY DEF WalkInv, ClockedInv
<1>3. HourSecs <= now' /\ now' <= MaxTime /\ now <= now' /\ now' \in Nat
  BY <1>1, <1>2, ServerNumbers
<1>4. /\ IsOpen' <=> IsOpen
      /\ Untouched' <=> Untouched
      /\ RefusalLeft' <=> RefusalLeft
      /\ NegativeRefused' <=> NegativeRefused
      /\ Pending' <=> Pending
  BY <1>1
  DEF IsOpen, HourKnown, Untouched, NoInfo, FilesInfo, RefusalLeft, NegativeRefused, Answered,
      Pending
<1>5. IsOpen => HourKnown'
  <2>1. SUFFICES ASSUME IsOpen PROVE HourKnown'
    OBVIOUS
  <2>2. HourKnown /\ info.startHour \in Nat
    BY <2>1, InfoNumbers DEF ClockedInv
  <2> QED
    BY <1>1, <1>2, <1>3, <2>2 DEF HourKnown
<1>6. request.controller = "write" /\ Pending => request.query.offset <= now' - HourSecs
  <2>1. request.query.offset \in Int
    BY DEF WalkInv
  <2> QED
    BY <1>2, <1>3, <2>1, ServerNumbers DEF ClockedInv
<1> QED
  BY <1>1, <1>3, <1>4, <1>5, <1>6 DEF ClockedInv

LEMMA StepClocks ==
  ASSUME NegativesWrap, WalkInv, ClockedInv, [ServerNext]_serverVars
  PROVE  ClockedInv'
  BY ReceiveClocks, AnswersClock, CallStoreClocks, CallNowhereClocks, RunBodyClocks, ClockClocks
  DEF ServerNext, Handle

LEMMA InitClocked ==
  ASSUME ServerInit
  PROVE  ClockedInv
<1>1. now = HourSecs /\ info = NoInfo /\ call = Idle /\ request = NoRequest /\ response = NoResponse
  BY DEF ServerInit
<1>2. Untouched /\ ~IsOpen
  BY <1>1 DEF ServerInit, Untouched, IsOpen
<1>3. NoInfo \in InfoType
  BY DEF NoInfo, FilesInfo, InfoType, AllTypes
<1>4. response.status = 0
  BY <1>1 DEF NoResponse
<1>5. NegativeRefused
  BY <1>4 DEF NegativeRefused, Answered
<1>6. HourSecs <= now /\ now <= MaxTime
  BY <1>1, HourSecsAssumption, BoundsAssumption
<1>7. request.controller = ""
  BY <1>1, NoRequestFields
<1> QED
  BY <1>1, <1>2, <1>3, <1>5, <1>6, <1>7 DEF ClockedInv

(* However requests, the clock and the store interleave, FilesInfo repeats   *)
(* the last hour of the files, and none is known before the sensor is opened. *)
THEOREM ClockedHolds ==
  ASSUME NegativesWrap
  PROVE  ServerSpec => []ClockedInv
<1>1. ServerInit => ClockedInv
  BY InitClocked
<1>2. WalkInv /\ ClockedInv /\ [ServerNext]_serverVars => ClockedInv'
  BY StepClocks
<1> QED
  BY <1>1, <1>2, WalkHolds, PTL DEF ServerSpec

(* WriteController: a negative Offset, which the library takes for a time    *)
(* before 1970, is refused once the sensor has a value of some hour.         *)
THEOREM NegativesRefused ==
  ASSUME NegativesWrap
  PROVE  ServerSpec => []NegativeRefused
<1>1. ClockedInv => NegativeRefused
  BY DEF ClockedInv
<1> QED
  BY <1>1, ClockedHolds, PTL

-----------------------------------------------------------------------------
(* What a file with dated values becomes by one more cell.                   *)

LEMMA StampsAppend ==
  ASSUME NEW c \in Seq(Cell), NEW x \in Cell
  PROVE  LET d == Append(c, x) IN
         /\ \A i \in DatedCells(c) : i \in DatedCells(d) /\ Stamped(d, i) = Stamped(c, i)
                                      /\ d[i] = c[i]
         /\ \A i \in DatedCells(d) : i \in DatedCells(c) \/
              (/\ i = Len(c) + 1 /\ x.kind = "value" /\ d[i] = x
               /\ \E h \in 1 .. Len(c) : IsHour(c, h)
               /\ Stamped(d, i) =
                    [time |-> ToTimeT(HourAt(c, Len(c)), x.offset), value |-> x.value])
         /\ x.kind = "value" /\ (\E h \in 1 .. Len(c) : IsHour(c, h)) =>
              Len(c) + 1 \in DatedCells(d)
<1> DEFINE d == Append(c, x)
           m == Len(c)
<1>1. /\ m \in Nat /\ Len(d) = m + 1 /\ d[m + 1] = x /\ \A i \in 1 .. m : d[i] = c[i]
  OBVIOUS
<1>2. /\ \A i \in 1 .. m : (\E h \in 1 .. i : IsHour(c, h)) => HourAt(d, i) = HourAt(c, i)
      /\ x.kind # "hour" /\ (\E h \in 1 .. m : IsHour(c, h)) => HourAt(d, m + 1) = HourAt(c, m)
  BY HourAppend
<1> HIDE DEF d
<1>3. \A i \in 1 .. m : (IsHour(d, i) <=> IsHour(c, i)) /\ (IsValue(d, i) <=> IsValue(c, i))
  BY <1>1 DEF IsHour, IsValue
<1>4. (IsHour(d, m + 1) <=> x.kind = "hour") /\ (IsValue(d, m + 1) <=> x.kind = "value")
  BY <1>1 DEF IsHour, IsValue
<1>5. ASSUME NEW i \in DatedCells(c)
      PROVE  i \in DatedCells(d) /\ Stamped(d, i) = Stamped(c, i) /\ d[i] = c[i]
  <2>1. i \in 1 .. m /\ IsValue(c, i)
    BY <1>5 DEF DatedCells
  <2>2. PICK h \in 1 .. i : IsHour(c, h)
    BY <1>5 DEF DatedCells
  <2>3. i \in 1 .. Len(d) /\ IsValue(d, i) /\ IsHour(d, h) /\ d[i] = c[i]
    BY <1>1, <1>3, <2>1, <2>2
  <2>4. HourAt(d, i) = HourAt(c, i)
    BY <1>2, <2>1, <2>2
  <2> QED
    BY <2>3, <2>4 DEF DatedCells, Stamped, TimeAt
<1>6. ASSUME NEW i \in DatedCells(d), i \notin DatedCells(c)
      PROVE  /\ i = m + 1 /\ x.kind = "value" /\ d[i] = x
             /\ \E h \in 1 .. m : IsHour(c, h)
             /\ Stamped(d, i) = [time |-> ToTimeT(HourAt(c, m), x.offset), value |-> x.value]
  <2>1. i \in 1 .. m + 1 /\ IsValue(d, i)
    BY <1>1, <1>6 DEF DatedCells
  <2>2. PICK h \in 1 .. i : IsHour(d, h)
    BY <1>6 DEF DatedCells
  <2>3. i = m + 1
    <3>1. SUFFICES ASSUME i \in 1 .. m PROVE FALSE
      BY <1>1, <2>1
    <3>2. IsValue(c, i) /\ IsHour(c, h)
      BY <1>1, <1>3, <2>1, <2>2, <3>1
    <3> QED
      BY <1>6, <2>2, <3>1, <3>2 DEF DatedCells
  <2>4. x.kind = "value" /\ d[i] = x
    BY <1>1, <1>4, <2>1, <2>3
  <2>5. h \in 1 .. m /\ IsHour(c, h)
    <3>1. h # m + 1
      BY <1>4, <2>2, <2>4
    <3>2. h \in 1 .. m
      BY <1>1, <2>2, <2>3, <3>1
    <3> QED
      BY <1>3, <2>2, <3>2
  <2>6. HourAt(d, m + 1) = HourAt(c, m)
    BY <1>2, <2>4, <2>5
  <2> QED
    BY <2>3, <2>4, <2>5, <2>6 DEF Stamped, TimeAt
<1>7. ASSUME x.kind = "value", NEW h \in 1 .. m, IsHour(c, h)
      PROVE  m + 1 \in DatedCells(d)
  <2>1. h \in 1 .. m + 1 /\ IsHour(d, h) /\ IsValue(d, m + 1) /\ m + 1 \in 1 .. Len(d)
    BY <1>1, <1>3, <1>4, <1>7
  <2> QED
    BY <2>1 DEF DatedCells
<1> QED
  BY <1>5, <1>6, <1>7 DEF d

(* A cell that adds no dated value.                                          *)
LEMMA NothingDated ==
  ASSUME NEW c \in Seq(Cell), NEW x \in Cell,
         x.kind # "value" \/ ~(\E h \in 1 .. Len(c) : IsHour(c, h))
  PROVE  LET d == Append(c, x) IN
         /\ DatedValues(d) = DatedValues(c)
         /\ (\A i \in DatedCells(c) : c[i].offset < HourSecs) =>
              \A i \in DatedCells(d) : d[i].offset < HourSecs
<1> DEFINE d == Append(c, x)
<1>1. /\ \A i \in DatedCells(c) : i \in DatedCells(d) /\ Stamped(d, i) = Stamped(c, i)
                                   /\ d[i] = c[i]
      /\ \A i \in DatedCells(d) : i \in DatedCells(c)
  BY StampsAppend
<1> HIDE DEF d
<1> QED
  BY <1>1 DEF DatedValues, d

(* A value behind an hour.                                                   *)
LEMMA OneDated ==
  ASSUME NEW c \in Seq(Cell), NEW off \in Nat, NEW rank \in Nat,
         \E h \in 1 .. Len(c) : IsHour(c, h)
  PROVE  LET d == Append(c, ValueCell(off, rank)) IN
         /\ DatedValues(d) = DatedValues(c) \union
              {[time |-> ToTimeT(HourAt(c, Len(c)), off), value |-> rank]}
         /\ off < HourSecs /\ (\A i \in DatedCells(c) : c[i].offset < HourSecs) =>
              \A i \in DatedCells(d) : d[i].offset < HourSecs
<1> DEFINE x == ValueCell(off, rank)
           d == Append(c, x)
           v == [time |-> ToTimeT(HourAt(c, Len(c)), off), value |-> rank]
           n == Len(c) + 1
<1>1. x \in Cell /\ x.kind = "value" /\ x.offset = off /\ x.value = rank
  BY CellsMade DEF ValueCell
<1> HIDE DEF x
<1>2. /\ \A i \in DatedCells(c) : i \in DatedCells(d) /\ Stamped(d, i) = Stamped(c, i)
                                   /\ d[i] = c[i]
      /\ \A i \in DatedCells(d) : i \in DatedCells(c) \/
           (i = n /\ d[i] = x /\ Stamped(d, i) = v)
      /\ n \in DatedCells(d)
  BY <1>1, StampsAppend
<1>3. n \notin DatedCells(c)
  BY DEF DatedCells
<1> HIDE DEF d, v, n
<1>4. Stamped(d, n) = v
  BY <1>2, <1>3
<1>5. DatedValues(d) = DatedValues(c) \union {v}
  BY <1>2, <1>4 DEF DatedValues
<1>6. off < HourSecs /\ (\A i \in DatedCells(c) : c[i].offset < HourSecs) =>
        \A i \in DatedCells(d) : d[i].offset < HourSecs
  BY <1>1, <1>2
<1> QED
  BY <1>5, <1>6 DEF d, v, x

-----------------------------------------------------------------------------
(* What a write does to the log.                                             *)

LEMMA InHoursAppend ==
  ASSUME NEW h \in Seq(ServerValue), NEW v \in ServerValue
  PROVE  /\ Append(h, v) # <<>> /\ Last(Append(h, v)) = v
         /\ v.time >= HourSecs => InHours(Append(h, v)) = InHours(h) \union {v}
         /\ ~(v.time >= HourSecs) => InHours(Append(h, v)) = InHours(h)
<1> DEFINE g == Append(h, v)
           n == Len(h)
<1>1. n \in Nat /\ Len(g) = n + 1 /\ g[n + 1] = v /\ g # <<>> /\ \A k \in 1 .. n : g[k] = h[k]
  OBVIOUS
<1> HIDE DEF g
<1>2. 1 .. n + 1 = (1 .. n) \union {n + 1}
  BY <1>1
<1>3. Members(g) = Members(h) \union {v}
  BY <1>1, <1>2 DEF Members
<1>4. Last(g) = v
  BY <1>1 DEF Last
<1> QED
  BY <1>1, <1>3, <1>4 DEF InHours, g

(* The last hour is in force to the end of the file.                         *)
LEMMA LastInForce ==
  ASSUME NEW c \in Seq(Cell), NEW idx \in Seq(EntryType), NEW h, LogInv(c, idx, h), idx # <<>>
  PROVE  /\ Last(idx).hour \in Nat /\ Last(idx).pos + 1 \in 1 .. Len(c)
         /\ IsHour(c, Last(idx).pos + 1)
         /\ Last(idx).pos + 2 <= Len(c) /\ Last(idx).pos \in Nat
         /\ \A i \in Last(idx).pos + 1 .. Len(c) : HourAt(c, i) = Last(idx).hour
<1> DEFINE n == Len(idx)
           p == Last(idx).pos + 1
<1>1. n \in 1 .. n /\ Last(idx) = idx[n] /\ Len(c) \in Nat
  BY DEF Last
<1>2. idx[n].hour \in Nat /\ idx[n].pos \in Nat
  BY <1>1, EntryFields
<1>3. idx[n].pos \in 1 .. Len(c) - 1 /\ c[idx[n].pos + 1] = HourCell(idx[n].hour)
  BY <1>1 DEF LogInv, Placed
<1>4. p \in 1 .. Len(c) /\ c[p] = HourCell(idx[n].hour) /\ p + 1 <= Len(c)
  BY <1>1, <1>2, <1>3 DEF LogInv, EndsOpen
<1>5. IsHour(c, p) /\ c[p].hour = idx[n].hour
  BY <1>4 DEF IsHour, HourCell
<1>6. \A i \in p + 1 .. Len(c) : ~IsHour(c, i)
  <2>1. \A i \in Last(idx).pos + 2 .. Len(c) : IsValue(c, i)
    BY DEF LogInv, EndsOpen
  <2> QED
    BY <1>1, <1>2, <2>1 DEF IsHour, IsValue
<1>7. ASSUME NEW i \in p .. Len(c)
      PROVE  HourAt(c, i) = idx[n].hour
  <2>1. i \in Nat /\ p \in 1 .. i
    BY <1>4
  <2>2. p \in Latest(c, i)
    BY <1>4, <1>5, <1>6, <2>1 DEF Latest
  <2> QED
    BY <1>5, <2>1, <2>2, HourOfLatest
<1> QED
  BY <1>1, <1>2, <1>4, <1>5, <1>7

(* A value of the last hour.                                                 *)
LEMMA ValueLogged ==
  ASSUME NEW c \in Seq(Cell), NEW idx \in Seq(EntryType), NEW h \in Seq(ServerValue),
         LogInv(c, idx, h), idx # <<>>, NEW off \in Nat, off < HourSecs, NEW rank \in Nat,
         NEW time \in Nat, HourSecs <= time, time = ToTimeT(Last(idx).hour, off)
  PROVE  LogInv(Append(c, ValueCell(off, rank)), idx, Append(h, [time |-> time, value |-> rank]))
<1> DEFINE x == ValueCell(off, rank)
           d == Append(c, x)
           m == Len(c)
           v == [time |-> time, value |-> rank]
           g == Append(h, v)
           p == Last(idx).pos + 1
<1>1. x \in Cell /\ x.kind = "value" /\ x.offset = off /\ x.value = rank
  BY CellsMade DEF ValueCell
<1>2. v \in ServerValue /\ v.time >= HourSecs
  BY ServerNumbers DEF ServerValue
<1>3. g # <<>> /\ Last(g) = v /\ InHours(g) = InHours(h) \union {v}
  BY <1>2, InHoursAppend
<1>4. /\ Last(idx).hour \in Nat /\ p \in 1 .. m /\ IsHour(c, p) /\ Last(idx).pos + 2 <= m
      /\ Last(idx).pos \in Nat
      /\ \A i \in p .. m : HourAt(c, i) = Last(idx).hour
  BY LastInForce
<1>5. m \in Nat /\ HourAt(c, m) = Last(idx).hour
  BY <1>4
<1>6. /\ DatedValues(d) = DatedValues(c) \union {v}
      /\ \A i \in DatedCells(d) : d[i].offset < HourSecs
  <2>1. \E q \in 1 .. m : IsHour(c, q)
    BY <1>4
  <2>2. DatedValues(c) = InHours(h) /\ \A i \in DatedCells(c) : c[i].offset < HourSecs
    BY DEF LogInv
  <2>3. /\ DatedValues(d) = DatedValues(c) \union
             {[time |-> ToTimeT(HourAt(c, m), off), value |-> rank]}
        /\ (\A i \in DatedCells(c) : c[i].offset < HourSecs) =>
              \A i \in DatedCells(d) : d[i].offset < HourSecs
    BY <2>1, OneDated
  <2>4. v = [time |-> ToTimeT(HourAt(c, m), off), value |-> rank]
    BY <1>5
  <2> QED
    BY <2>2, <2>3, <2>4
<1>7. HourAt(d, m + 1) = Last(idx).hour
  <2>1. x.kind # "hour" /\ \E q \in 1 .. m : IsHour(c, q)
    BY <1>1, <1>4
  <2> QED
    BY <1>1, <1>5, <2>1, HourAppend
<1> HIDE DEF x
<1>8. /\ d # <<>> /\ Len(d) = m + 1 /\ d[m + 1] = x /\ \A i \in 1 .. m : d[i] = c[i]
  BY <1>1, <1>5
<1> HIDE DEF d, v, g
<1>9. Stamped(d, m + 1) = v
  BY <1>1, <1>7, <1>8 DEF Stamped, TimeAt, v
<1>10. d[1].kind = "header"
  <2>1. c[1].kind = "header"
    BY DEF LogInv
  <2>2. 1 \in 1 .. m
    BY <1>4
  <2> QED
    BY <1>8, <2>1, <2>2
<1>11. Placed(d, idx)
  <2>1. \A k \in 1 .. Len(idx) : /\ idx[k].pos \in 1 .. m - 1
                                 /\ c[idx[k].pos + 1] = HourCell(idx[k].hour)
    BY DEF LogInv, Placed
  <2>2. \A k \in 1 .. Len(idx) : /\ idx[k].pos \in 1 .. Len(d) - 1
                                 /\ d[idx[k].pos + 1] = HourCell(idx[k].hour)
    <3>1. SUFFICES ASSUME NEW k \in 1 .. Len(idx)
                   PROVE  /\ idx[k].pos \in 1 .. Len(d) - 1
                          /\ d[idx[k].pos + 1] = HourCell(idx[k].hour)
      OBVIOUS
    <3>2. idx[k].pos \in 1 .. m - 1 /\ c[idx[k].pos + 1] = HourCell(idx[k].hour)
      BY <2>1
    <3>3. idx[k].pos + 1 \in 1 .. m /\ idx[k].pos \in 1 .. Len(d) - 1
      BY <1>5, <1>8, <3>2
    <3> QED
      BY <1>8, <3>2, <3>3
  <2>3. \A i \in 1 .. Len(d) : IsHour(d, i) => i \in 1 .. m /\ IsHour(c, i)
    BY <1>1, <1>5, <1>8 DEF IsHour
  <2> QED
    BY <2>2, <2>3 DEF LogInv, Placed
<1>12. EndsOpen(d, idx, g)
  <2>1. \A i \in Last(idx).pos + 2 .. m : IsValue(c, i)
    BY DEF LogInv, EndsOpen
  <2>2. \A i \in Last(idx).pos + 2 .. m + 1 : IsValue(d, i)
    <3>1. IsValue(d, m + 1)
      BY <1>1, <1>8 DEF IsValue
    <3>2. ASSUME NEW i \in Last(idx).pos + 2 .. m
          PROVE  IsValue(d, i)
      <4>1. i \in 1 .. m
        BY <1>4, <1>5
      <4> QED
        BY <1>8, <2>1, <4>1 DEF IsValue
    <3>3. \A i \in Last(idx).pos + 2 .. m + 1 : i \in Last(idx).pos + 2 .. m \/ i = m + 1
      BY <1>4, <1>5
    <3> QED
      BY <3>1, <3>2, <3>3
  <2> QED
    BY <1>3, <1>4, <1>5, <1>8, <1>9, <2>2 DEF EndsOpen
<1>13. DatedValues(d) = InHours(g)
  BY <1>3, <1>6 DEF LogInv
<1> QED
  BY <1>6, <1>8, <1>10, <1>11, <1>12, <1>13 DEF LogInv, d, x, g, v

(* The log where no hour was begun.                                          *)
LEMMA NoHours ==
  ASSUME NEW c \in Seq(Cell), NEW idx \in Seq(EntryType), NEW h, LogInv(c, idx, h), idx = <<>>
  PROVE  /\ \A i \in 1 .. Len(c) : ~IsHour(c, i)
         /\ InHours(h) = {}
<1>1. \A i \in 1 .. Len(c) : ~IsHour(c, i)
  BY DEF LogInv, Placed
<1>2. DatedCells(c) = {}
  BY <1>1 DEF DatedCells
<1> QED
  BY <1>1, <1>2 DEF LogInv, DatedValues

(* A value from before the first hour.                                       *)
LEMMA EarlyLogged ==
  ASSUME NEW c \in Seq(Cell), NEW idx \in Seq(EntryType), NEW h \in Seq(ServerValue),
         LogInv(c, idx, h), idx = <<>>, NEW off \in Nat, NEW rank \in Nat,
         NEW time \in Int, time < HourSecs
  PROVE  LogInv(Append(c, ValueCell(off, rank)), idx, Append(h, [time |-> time, value |-> rank]))
<1> DEFINE x == ValueCell(off, rank)
           d == Append(c, x)
           m == Len(c)
           v == [time |-> time, value |-> rank]
           g == Append(h, v)
<1>1. x \in Cell /\ x.kind = "value"
  BY CellsMade DEF ValueCell
<1>2. v \in ServerValue /\ ~(v.time >= HourSecs)
  BY ServerNumbers DEF ServerValue
<1>3. InHours(g) = InHours(h)
  BY <1>2, InHoursAppend
<1>4. \A i \in 1 .. m : ~IsHour(c, i)
  BY NoHours
<1> HIDE DEF x, v, g
<1>5. /\ DatedValues(d) = DatedValues(c)
      /\ \A i \in DatedCells(d) : d[i].offset < HourSecs
  BY <1>1, <1>4, NothingDated DEF LogInv
<1>6. c # <<>> /\ c[1].kind = "header"
  BY DEF LogInv
<1>7. /\ m \in Nat /\ 1 \in 1 .. m
      /\ d # <<>> /\ Len(d) = m + 1 /\ d[m + 1] = x /\ \A i \in 1 .. m : d[i] = c[i]
  BY <1>1, <1>6
<1> HIDE DEF d
<1>8. \A i \in 1 .. Len(d) : ~IsHour(d, i)
  <2>1. ~IsHour(d, m + 1)
    BY <1>1, <1>7 DEF IsHour
  <2>2. \A i \in 1 .. m : ~IsHour(d, i)
    BY <1>4, <1>7 DEF IsHour
  <2> QED
    BY <1>7, <2>1, <2>2
<1>9. Placed(d, idx) /\ EndsOpen(d, idx, g)
  <2>1. Len(idx) = 0
    OBVIOUS
  <2> QED
    BY <1>8, <2>1 DEF Placed, EndsOpen
<1>10. d[1].kind = "header"
  BY <1>6, <1>7
<1> QED
  BY <1>3, <1>5, <1>7, <1>9, <1>10 DEF LogInv, d, x, g, v

(* A value that begins an hour.                                              *)
LEMMA HourLogged ==
  ASSUME NEW c \in Seq(Cell), NEW idx \in Seq(EntryType), NEW h \in Seq(ServerValue),
         LogInv(c, idx, h), NEW ce \in {c, Append(c, EndLine)}, NEW hour \in Nat,
         NEW off \in Nat, off < HourSecs, NEW rank \in Nat, NEW time \in Nat,
         HourSecs <= time, time = ToTimeT(hour, off)
  PROVE  LogInv(Append(Append(ce, HourCell(hour)), ValueCell(off, rank)),
                Append(idx, Entry(hour, Len(ce))),
                Append(h, [time |-> time, value |-> rank]))
<1> DEFINE x  == HourCell(hour)
           y  == ValueCell(off, rank)
           b  == Append(ce, x)
           d  == Append(b, y)
           m  == Len(c)
           l  == Len(ce)
           v  == [time |-> time, value |-> rank]
           g  == Append(h, v)
           e  == Entry(hour, l)
           jd == Append(idx, e)
           n  == Len(idx)
<1>1. /\ x \in Cell /\ x.kind = "hour" /\ x.hour = hour
      /\ y \in Cell /\ y.kind = "value" /\ y.offset = off /\ y.value = rank
      /\ EndLine \in Cell /\ EndLine.kind = "endline"
  BY CellsMade DEF ValueCell, HourCell
<1>2. v \in ServerValue /\ v.time >= HourSecs
  BY ServerNumbers DEF ServerValue
<1>3. g # <<>> /\ Last(g) = v /\ InHours(g) = InHours(h) \union {v}
  BY <1>2, InHoursAppend
<1>4. /\ c # <<>> /\ c[1].kind = "header" /\ m \in Nat /\ 1 \in 1 .. m
      /\ DatedValues(c) = InHours(h) /\ \A i \in DatedCells(c) : c[i].offset < HourSecs
  BY DEF LogInv
<1>5. /\ ce \in Seq(Cell) /\ l \in Nat /\ m <= l /\ l <= m + 1
      /\ \A i \in 1 .. m : ce[i] = c[i]
      /\ \A i \in 1 .. l : IsHour(ce, i) => i \in 1 .. m /\ IsHour(c, i)
      /\ DatedValues(ce) = DatedValues(c) /\ \A i \in DatedCells(ce) : ce[i].offset < HourSecs
  <2>1. CASE ce = c
    BY <1>4, <2>1
  <2>2. CASE ce = Append(c, EndLine)
    <3> DEFINE z == EndLine
    <3>1. z \in Cell /\ z.kind = "endline"
      BY <1>1
    <3> HIDE DEF z
    <3>2. ce = Append(c, z)
      BY <2>2 DEF z
    <3>3. /\ ce \in Seq(Cell) /\ l = m + 1 /\ ce[m + 1] = z
          /\ \A i \in 1 .. m : ce[i] = c[i]
      BY <1>4, <3>1, <3>2
    <3>4. \A i \in 1 .. l : IsHour(ce, i) => i \in 1 .. m /\ IsHour(c, i)
      BY <1>4, <3>1, <3>3 DEF IsHour
    <3>5. DatedValues(ce) = DatedValues(c) /\ \A i \in DatedCells(ce) : ce[i].offset < HourSecs
      BY <1>4, <3>1, <3>2, NothingDated
    <3> QED
      BY <1>4, <3>3, <3>4, <3>5
  <2> QED
    BY <2>1, <2>2
<1> HIDE DEF x, y, v, g
<1>6. /\ b \in Seq(Cell) /\ Len(b) = l + 1 /\ b[l + 1] = x /\ \A i \in 1 .. l : b[i] = ce[i]
  BY <1>1, <1>5
<1>7. DatedValues(b) = DatedValues(ce) /\ \A i \in DatedCells(b) : b[i].offset < HourSecs
  BY <1>1, <1>5, NothingDated
<1>8. HourAt(b, l + 1) = hour
  BY <1>1, <1>5, HourAppend
<1> HIDE DEF b
<1>9. IsHour(b, l + 1) /\ l + 1 \in 1 .. Len(b)
  BY <1>1, <1>5, <1>6 DEF IsHour
<1>10. /\ d # <<>> /\ Len(d) = l + 2 /\ d[l + 2] = y /\ d[l + 1] = x
       /\ \A i \in 1 .. l : d[i] = ce[i]
  <2>1. Len(b) \in Nat /\ \A i \in 1 .. Len(b) : d[i] = b[i]
    BY <1>1, <1>6
  <2>2. d # <<>> /\ Len(d) = Len(b) + 1 /\ d[Len(b) + 1] = y
    BY <1>1, <1>6
  <2> QED
    BY <1>5, <1>6, <2>1, <2>2
<1>11. /\ DatedValues(d) = DatedValues(b) \union {v}
       /\ \A i \in DatedCells(d) : d[i].offset < HourSecs
  <2>1. \E q \in 1 .. Len(b) : IsHour(b, q)
    BY <1>9
  <2>2. [time |-> ToTimeT(HourAt(b, Len(b)), off), value |-> rank] = v
    BY <1>6, <1>8 DEF v
  <2>3. /\ DatedValues(d) = DatedValues(b) \union
             {[time |-> ToTimeT(HourAt(b, Len(b)), off), value |-> rank]}
        /\ (\A i \in DatedCells(b) : b[i].offset < HourSecs) =>
              \A i \in DatedCells(d) : d[i].offset < HourSecs
    BY <1>6, <2>1, OneDated DEF y
  <2> QED
    BY <1>7, <2>2, <2>3
<1>12. Stamped(d, l + 2) = v
  <2>1. y.kind # "hour" /\ \E q \in 1 .. Len(b) : IsHour(b, q)
    BY <1>1, <1>9
  <2>2. HourAt(d, Len(b) + 1) = HourAt(b, Len(b))
    BY <1>1, <1>6, <2>1, HourAppend
  <2>3. HourAt(d, l + 2) = hour
    BY <1>5, <1>6, <1>8, <2>2
  <2> QED
    BY <1>1, <1>10, <2>3 DEF Stamped, TimeAt, v
<1>13. e \in EntryType /\ e.hour = hour /\ e.pos = l
  BY <1>5 DEF Entry, EntryType
<1> HIDE DEF d, e
<1>14. /\ n \in Nat /\ Len(jd) = n + 1 /\ jd # <<>> /\ jd[n + 1] = e
       /\ \A k \in 1 .. n : jd[k] = idx[k]
  BY <1>13
<1> HIDE DEF jd
<1>15. \A k \in 1 .. n : /\ idx[k].pos \in 1 .. m - 1
                         /\ c[idx[k].pos + 1] = HourCell(idx[k].hour)
  BY DEF LogInv, Placed
<1>16. Placed(d, jd)
  <2>1. \A k \in 1 .. n + 1 : /\ jd[k].pos \in 1 .. Len(d) - 1
                              /\ d[jd[k].pos + 1] = HourCell(jd[k].hour)
    <3>1. \A k \in 1 .. n : /\ jd[k].pos \in 1 .. Len(d) - 1
                            /\ d[jd[k].pos + 1] = HourCell(jd[k].hour)
      <4>1. SUFFICES ASSUME NEW k \in 1 .. n
                     PROVE  /\ jd[k].pos \in 1 .. Len(d) - 1
                            /\ d[jd[k].pos + 1] = HourCell(jd[k].hour)
        OBVIOUS
      <4> DEFINE q == idx[k].pos
      <4>2. jd[k] = idx[k] /\ q \in 1 .. m - 1 /\ c[q + 1] = HourCell(idx[k].hour)
        BY <1>14, <1>15
      <4> HIDE DEF q
      <4>3. q + 1 \in 1 .. m /\ q + 1 \in 1 .. l /\ q \in 1 .. Len(d) - 1
        BY <1>4, <1>5, <1>10, <4>2
      <4>4. d[q + 1] = c[q + 1]
        BY <1>5, <1>10, <4>3
      <4> QED
        BY <4>2, <4>3, <4>4 DEF q
    <3>2. /\ jd[n + 1].pos \in 1 .. Len(d) - 1
          /\ d[jd[n + 1].pos + 1] = HourCell(jd[n + 1].hour)
      BY <1>4, <1>5, <1>10, <1>13, <1>14 DEF x
    <3>3. \A k \in 1 .. n + 1 : k \in 1 .. n \/ k = n + 1
      BY <1>14
    <3> QED
      BY <3>1, <3>2, <3>3
  <2>2. \A k, q \in 1 .. n + 1 : k < q => jd[k].pos < jd[q].pos
    <3>1. \A k, q \in 1 .. n : k < q => idx[k].pos < idx[q].pos
      BY DEF LogInv, Placed
    <3>2. \A k \in 1 .. n : jd[k].pos < jd[n + 1].pos
      BY <1>4, <1>5, <1>13, <1>14, <1>15
    <3> SUFFICES ASSUME NEW k \in 1 .. n + 1, NEW q \in 1 .. n + 1, k < q
                 PROVE  jd[k].pos < jd[q].pos
      OBVIOUS
    <3>3. k \in 1 .. n /\ jd[k] = idx[k]
      BY <1>14
    <3>4. CASE q = n + 1
      BY <3>2, <3>3, <3>4
    <3>5. CASE q # n + 1
      <4>1. q \in 1 .. n /\ jd[q] = idx[q]
        BY <1>14, <3>5
      <4> QED
        BY <3>1, <3>3, <4>1
    <3> QED
      BY <3>4, <3>5
  <2>3. ASSUME NEW i \in 1 .. Len(d), IsHour(d, i)
        PROVE  \E k \in 1 .. n + 1 : jd[k].pos + 1 = i
    <3>1. i # l + 2
      BY <1>1, <1>10, <2>3 DEF IsHour
    <3>2. CASE i = l + 1
      BY <1>13, <1>14, <3>2
    <3>3. CASE i \in 1 .. l
      <4>1. i \in 1 .. m /\ IsHour(c, i)
        BY <1>5, <1>10, <2>3, <3>3 DEF IsHour
      <4>2. \E k \in 1 .. n : idx[k].pos + 1 = i
        BY <4>1 DEF LogInv, Placed
      <4> QED
        BY <1>14, <4>2
    <3> QED
      BY <1>5, <1>10, <3>1, <3>2, <3>3
  <2> QED
    BY <1>14, <2>1, <2>2, <2>3 DEF Placed
<1>17. EndsOpen(d, jd, g)
  <2>1. Last(jd).pos = l
    BY <1>13, <1>14 DEF Last
  <2>2. \A i \in l + 2 .. Len(d) : IsValue(d, i)
    BY <1>1, <1>5, <1>10 DEF IsValue
  <2> QED
    BY <1>3, <1>5, <1>10, <1>12, <2>1, <2>2 DEF EndsOpen
<1>18. d[1].kind = "header"
  BY <1>4, <1>5, <1>10
<1>19. DatedValues(d) = InHours(g)
  BY <1>3, <1>4, <1>5, <1>7, <1>11
<1> QED
  BY <1>10, <1>11, <1>16, <1>17, <1>18, <1>19 DEF LogInv, b, d, x, y, g, v, e, jd

-----------------------------------------------------------------------------
(* The steps of a handler, for StoredInv.                                    *)

LEMMA StoredFacts ==
  ASSUME WalkInv, ClockedInv, StoredInv, IsOpen
  PROVE  /\ data \in StreamType(Cell) /\ AtEnd(data) /\ Contents(data) \in Seq(Cell)
         /\ index \in Seq(EntryType) /\ IndexShape(index, now) /\ InfoAgrees(info, index)
         /\ LogInv(Contents(data), index, history)
         /\ history \in Seq(ServerValue) /\ Len(history) \in Nat /\ NextValue \in Nat
         /\ now \in Nat /\ HourSecs <= now
         /\ info.startHour \in Nat /\ info.minHour \in Nat /\ info.maxHour \in Nat
         /\ info.maxOffset \in Nat /\ info.indexSize \in Nat /\ info.type \in ValueTypes
         /\ history = <<>> => call # Idle /\ request.controller = "write"
<1>1. OpenedInv
  BY DEF StoredInv
<1>2. Contents(data) \in Seq(Cell)
  BY <1>1, ContentsFacts DEF OpenedInv
<1>3. /\ info.startHour \in Nat /\ info.minHour \in Nat /\ info.maxHour \in Nat
      /\ info.maxOffset \in Nat /\ info.indexSize \in Nat /\ info.type \in ValueTypes
      /\ HourSecs <= now
  BY InfoNumbers DEF ClockedInv, HourKnown
<1>4. history \in Seq(ServerValue) /\ now \in Nat
  BY DEF WalkInv
<1>5. Len(history) \in Nat /\ NextValue \in Nat
  BY <1>4 DEF NextValue
<1>6. history = <<>> => call # Idle /\ request.controller = "write"
  BY <1>1 DEF OpenedInv
<1>7. /\ data \in StreamType(Cell) /\ AtEnd(data)
      /\ index \in Seq(EntryType) /\ IndexShape(index, now) /\ InfoAgrees(info, index)
      /\ LogInv(Contents(data), index, history)
  BY <1>1 DEF OpenedInv
<1> QED
  BY <1>2, <1>3, <1>4, <1>5, <1>6, <1>7, Zenon

LEMMA HoursPositive ==
  ASSUME NEW idx \in Seq(EntryType), NEW clock, IndexShape(idx, clock), NEW k \in 1 .. Len(idx)
  PROVE  /\ idx[k].hour \in Nat \ {0} /\ idx # <<>>
         /\ Last(idx).hour \in Nat \ {0} /\ idx[k].hour <= Last(idx).hour
         /\ idx[k].hour = Last(idx).hour => k = Len(idx)
<1> DEFINE n == Len(idx)
<1>1. n \in Nat /\ 1 \in 1 .. n /\ n \in 1 .. n /\ idx # <<>>
  OBVIOUS
<1>2. idx[1].hour \in Nat /\ idx[n].hour \in Nat /\ idx[k].hour \in Nat /\ Last(idx) = idx[n]
  BY <1>1, EntryFields DEF Last
<1>3. idx[1].hour # 0 /\ \A i, j \in 1 .. n : i < j => idx[i].hour < idx[j].hour
  BY <1>1 DEF IndexShape, Ascending
<1>4. k = 1 \/ 1 < k
  OBVIOUS
<1>5. k = n \/ k < n
  BY <1>1
<1>6. idx[k].hour # 0
  BY <1>1, <1>2, <1>3, <1>4
<1>7. k = n \/ idx[k].hour < idx[n].hour
  BY <1>1, <1>3, <1>5
<1> QED
  BY <1>1, <1>2, <1>6, <1>7

LEMMA NewHourStored ==
  ASSUME WalkInv, ClockedInv, StoredInv, IsOpen, now' = now,
         NEW time \in Nat, HourSecs <= time, time <= now, info.startHour <= time,
         WriteInNewHour(time),
         history' = Append(history, [time |-> time, value |-> NextValue])
  PROVE  OpenedInv'
<1> DEFINE hour  == FromTimeT(time)
           off   == OffsetIn(hour, time)
           ended == BlockEnd(info.startHour)
           x     == HourCell(hour)
           y     == ValueCell(off, NextValue)
           c     == Contents(data)
           ce    == Contents(ended)
           pos   == Tellp(ended)
           first == IF info.minHour = 0 THEN hour ELSE info.minHour
<1>1. /\ data \in StreamType(Cell) /\ AtEnd(data) /\ c \in Seq(Cell)
      /\ index \in Seq(EntryType) /\ IndexShape(index, now) /\ InfoAgrees(info, index)
      /\ LogInv(c, index, history) /\ history \in Seq(ServerValue) /\ NextValue \in Nat
      /\ now \in Nat /\ info.startHour \in Nat /\ info.minHour \in Nat /\ info.indexSize \in Nat
      /\ info.type \in ValueTypes
  BY StoredFacts
<1>2. /\ hour \in Nat \ {0} /\ off \in Nat /\ off < HourSecs /\ time = ToTimeT(hour, off)
      /\ ToTimeT(hour, 0) \in Nat /\ ToTimeT(hour, 0) <= time
      /\ time < ToTimeT(hour, 0) + HourSecs
  <2>1. /\ hour \in Nat /\ hour # 0 /\ off \in Nat /\ ToTimeT(hour, 0) \in Nat
        /\ ToTimeT(hour, 0) <= time /\ time < ToTimeT(hour, 0) + HourSecs
    BY HourOfTime
  <2>2. off < HourSecs /\ time = ToTimeT(hour, off)
    <3>1. off = time - ToTimeT(hour, 0)
      BY DEF OffsetIn
    <3>2. ToTimeT(hour, off) = ToTimeT(hour, 0) + off
      <4> HIDE DEF hour, off
      <4> QED
        BY <2>1, ServerNumbers DEF ToTimeT
    <3> HIDE DEF hour, off
    <3> QED
      BY <2>1, <3>1, <3>2, ServerNumbers
  <2> QED
    BY <2>1, <2>2
<1>3. x \in Cell /\ y \in Cell /\ EndLine \in Cell
  BY <1>1, <1>2, CellsMade
<1>4. /\ ended \in StreamType(Cell) /\ AtEnd(ended) /\ ce \in {c, Append(c, EndLine)}
  BY <1>1, <1>3, PutFacts DEF BlockEnd
<1>5. pos = Len(ce) /\ pos \in Nat
  BY <1>4, TellpAtEnd, ContentsFacts
<1>6. /\ data' = Put(Put(ended, x), y) /\ index' = Append(index, Entry(hour, pos))
      /\ info' = FilesInfo(info.type, ToTimeT(hour, 0), first, hour, off, info.indexSize + 1)
      /\ StartsHour(time)
  BY DEF WriteInNewHour
<1>7. LogInv(Append(Append(ce, x), y), Append(index, Entry(hour, Len(ce))), history')
  BY <1>1, <1>2, <1>4, HourLogged
<1>8. ToTimeT(hour, 0) <= now
  BY <1>1, <1>2
<1> HIDE DEF x, y, ce, ended, hour, off, pos, first, c
<1>9. data' \in StreamType(Cell) /\ AtEnd(data') /\ Contents(data') = Append(Append(ce, x), y)
  <2> DEFINE mid == Put(ended, x)
  <2>1. mid \in StreamType(Cell) /\ AtEnd(mid) /\ Contents(mid) = Append(ce, x)
    BY <1>3, <1>4, PutFacts DEF ce
  <2> HIDE DEF mid
  <2>2. data' = Put(mid, y)
    BY <1>6 DEF mid
  <2> QED
    BY <1>3, <2>1, <2>2, PutFacts
<1>10. index # <<>> => Last(index).hour < hour
  <2> SUFFICES ASSUME index # <<>> PROVE Last(index).hour < hour
    OBVIOUS
  <2>1. Last(index).hour \in Nat
    BY <1>1, EntryFields DEF Last
  <2>2. info.startHour = ToTimeT(Last(index).hour, 0)
    BY <1>1 DEF InfoAgrees
  <2>3. time - info.startHour > HourSecs - 1
    BY <1>6 DEF StartsHour
  <2>4. info.startHour < ToTimeT(hour, 0)
    BY <1>1, <1>2, <2>3, ServerNumbers
  <2> QED
    BY <1>2, <2>1, <2>2, <2>4, HoursOrdered
<1>11. index' \in Seq(EntryType) /\ IndexShape(index', now')
  BY <1>1, <1>2, <1>5, <1>6, <1>8, <1>10, IndexGrows
<1>12. /\ index' # <<>> /\ Len(index') = Len(index) + 1 /\ Last(index').hour = hour
       /\ index # <<>> => index'[1] = index[1]
       /\ index = <<>> => index'[1].hour = hour
  <2> DEFINE entry == Entry(hour, pos)
  <2>1. entry.hour = hour
    BY DEF Entry
  <2>2. index' = Append(index, entry)
    BY <1>6
  <2> HIDE DEF entry
  <2> QED
    BY SMTT(30), <1>1, <2>1, <2>2 DEF Last
<1>13. first = index'[1].hour
  <2>1. CASE index = <<>>
    BY <1>1, <1>12, <2>1 DEF InfoAgrees, first
  <2>2. CASE index # <<>>
    <3>1. info.minHour = index[1].hour /\ index[1].hour # 0
      BY <1>1, <2>2 DEF InfoAgrees, IndexShape
    <3> QED
      BY <1>12, <2>2, <3>1 DEF first
  <2> QED
    BY <2>1, <2>2
<1>14. InfoAgrees(info', index')
  <2>1. /\ info'.type = info.type /\ info'.startHour = ToTimeT(hour, 0)
        /\ info'.minHour = first /\ info'.maxHour = hour
        /\ info'.indexSize = info.indexSize + 1
    BY <1>6, InfoFields
  <2>2. info.indexSize = Len(index)
    BY <1>1 DEF InfoAgrees
  <2> QED
    BY <1>1, <1>12, <1>13, <2>1, <2>2 DEF InfoAgrees
<1>15. LogInv(Contents(data'), index', history')
  BY <1>5, <1>6, <1>7, <1>9
<1>16. history' # <<>>
  BY <1>15, <1>12 DEF LogInv, EndsOpen
<1> QED
  BY <1>9, <1>11, <1>14, <1>15, <1>16 DEF OpenedInv

LEMMA SameHourStored ==
  ASSUME WalkInv, ClockedInv, StoredInv, IsOpen, now' = now,
         NEW time \in Nat, HourSecs <= time, time <= now, info.startHour <= time,
         WriteInHour(time),
         history' = Append(history, [time |-> time, value |-> NextValue])
  PROVE  OpenedInv'
<1> DEFINE off == time - info.startHour
           y   == ValueCell(off, NextValue)
           c   == Contents(data)
<1>1. /\ data \in StreamType(Cell) /\ AtEnd(data) /\ c \in Seq(Cell)
      /\ index \in Seq(EntryType) /\ IndexShape(index, now) /\ InfoAgrees(info, index)
      /\ LogInv(c, index, history) /\ history \in Seq(ServerValue) /\ NextValue \in Nat
      /\ now \in Nat /\ info.startHour \in Nat /\ info.minHour \in Nat /\ info.indexSize \in Nat
  BY StoredFacts
<1>2. ~(off > HourSecs - 1)
  BY DEF WriteInHour, StartsHour
<1>3. index # <<>>
  <2>1. index = <<>> => info.startHour = 0
    BY <1>1 DEF InfoAgrees
  <2> QED
    BY <1>1, <1>2, <2>1, ServerNumbers
<1>4. off \in Nat /\ off < HourSecs
  BY <1>1, <1>2, ServerNumbers
<1>5. time = ToTimeT(Last(index).hour, off)
  <2>1. info.startHour = ToTimeT(Last(index).hour, 0) /\ Last(index).hour \in Nat
    BY <1>1, <1>3, LastInForce DEF InfoAgrees
  <2> QED
    BY <1>1, <2>1, ServerNumbers DEF ToTimeT
<1>6. LogInv(Append(c, y), index, history')
  BY <1>1, <1>3, <1>4, <1>5, ValueLogged
<1>7. y \in Cell
  BY <1>1, <1>4, CellsMade
<1>8. /\ data' = Put(data, y) /\ index' = index
      /\ info' = FilesInfo(info.type, info.startHour, info.minHour, info.maxHour, off,
                           info.indexSize)
  BY DEF WriteInHour
<1> HIDE DEF y, off, c
<1>9. data' \in StreamType(Cell) /\ AtEnd(data') /\ Contents(data') = Append(c, y)
  BY <1>1, <1>7, <1>8, PutFacts DEF c
<1>10. InfoAgrees(info', index')
  <2>1. /\ info'.type = info.type /\ info'.startHour = info.startHour
        /\ info'.minHour = info.minHour /\ info'.maxHour = info.maxHour
        /\ info'.indexSize = info.indexSize
    BY <1>8, InfoFields
  <2> QED
    BY <1>1, <1>8, <2>1 DEF InfoAgrees
<1>11. history' # <<>>
  BY <1>3, <1>6, <1>8 DEF LogInv, EndsOpen
<1> QED
  BY <1>1, <1>6, <1>8, <1>9, <1>10, <1>11 DEF OpenedInv

LEMMA EarlyStored ==
  ASSUME WalkInv, ClockedInv, StoredInv, IsOpen, now' = now, NEW time \in Int, EarlyWrite(time)
  PROVE  OpenedInv'
<1> DEFINE off == WrappedOffset(time)
           y   == ValueCell(off, NextValue)
           v   == [time |-> time, value |-> NextValue]
           c   == Contents(data)
<1>1. /\ data \in StreamType(Cell) /\ AtEnd(data) /\ c \in Seq(Cell)
      /\ index \in Seq(EntryType) /\ IndexShape(index, now) /\ InfoAgrees(info, index)
      /\ LogInv(c, index, history) /\ history \in Seq(ServerValue) /\ NextValue \in Nat
      /\ info.startHour \in Nat
  BY StoredFacts
<1>2. off \in Nat
  BY <1>1, WrappedTyped
<1>3. /\ data' = Put(data, y) /\ index' = index /\ time < 0 /\ info.maxHour = 0
      /\ info' = FilesInfo(info.type, info.startHour, info.minHour, info.maxHour, off,
                           info.indexSize)
      /\ history' = Append(history, v)
  BY DEF EarlyWrite
<1>4. index = <<>>
  <2>1. ASSUME index # <<>> PROVE FALSE
    <3>1. Len(index) \in 1 .. Len(index)
      BY <1>1, <2>1
    <3>2. Last(index).hour # 0
      BY <1>1, <3>1, HoursPositive
    <3> QED
      BY <1>1, <1>3, <2>1, <3>2 DEF InfoAgrees
  <2> QED
    BY <2>1
<1> HIDE DEF off
<1>5. LogInv(Append(c, y), index, history')
  <2>1. time < HourSecs
    BY <1>3, ServerNumbers
  <2>2. LogInv(Append(c, y), index, Append(history, v))
    BY <1>1, <1>2, <1>4, <2>1, EarlyLogged
  <2> QED
    BY <1>3, <2>2
<1>6. y \in Cell
  BY <1>1, <1>2, CellsMade
<1>7. v \in ServerValue
  BY <1>1 DEF ServerValue
<1> HIDE DEF y, c, v
<1>8. data' \in StreamType(Cell) /\ AtEnd(data') /\ Contents(data') = Append(c, y)
  BY <1>1, <1>3, <1>6, PutFacts DEF c
<1>9. InfoAgrees(info', index')
  <2>1. /\ info'.type = info.type /\ info'.startHour = info.startHour
        /\ info'.minHour = info.minHour /\ info'.maxHour = info.maxHour
        /\ info'.indexSize = info.indexSize
    BY <1>3, InfoFields
  <2> QED
    BY <1>1, <1>3, <2>1 DEF InfoAgrees
<1>10. history' # <<>>
  BY <1>1, <1>3, <1>7, InHoursAppend
<1> QED
  BY <1>1, <1>3, <1>5, <1>8, <1>9, <1>10 DEF OpenedInv

LEMMA RefusedStored ==
  ASSUME WalkInv, ClockedInv, StoredInv, IsOpen, now' = now, RefusedWrite
  PROVE  OpenedInv'
<1>1. /\ data \in StreamType(Cell) /\ AtEnd(data)
      /\ index \in Seq(EntryType) /\ IndexShape(index, now) /\ InfoAgrees(info, index)
      /\ LogInv(Contents(data), index, history) /\ info.maxHour \in Nat
  BY StoredFacts
<1>2. UNCHANGED <<data, index, info, history>> /\ info.maxHour > 0
  BY DEF RefusedWrite
<1>3. index # <<>>
  BY <1>1, <1>2 DEF InfoAgrees
<1>4. history # <<>>
  BY <1>1, <1>3 DEF LogInv, EndsOpen
<1> QED
  BY <1>1, <1>2, <1>4 DEF OpenedInv

-----------------------------------------------------------------------------
(* What a read collects.                                                     *)

LEMMA FirstHour ==
  ASSUME NEW time \in Int, NEW hour \in Nat \ {0}, FromTimeT(time) >= hour
  PROVE  time \in Nat /\ HourSecs <= time /\ ToTimeT(hour, 0) <= time
<1> DEFINE s == HourSecs
<1>1. s \in Nat \ {0} /\ time \div s >= hour
  BY ServerNumbers DEF FromTimeT
<1> HIDE DEF s
<1>2. time \div s \in Int /\ s * (time \div s) <= time
  BY <1>1
<1>3. s * hour <= s * (time \div s)
  BY <1>1, <1>2
<1>4. s <= s * hour /\ s * hour \in Nat /\ hour * s = s * hour
  BY <1>1
<1>5. ToTimeT(hour, 0) = s * hour
  BY <1>4 DEF ToTimeT, s
<1> QED
  BY <1>1, <1>2, <1>3, <1>4, <1>5 DEF s

LEMMA HoursGrow ==
  ASSUME NEW a \in Nat, NEW b \in Nat, a <= b
  PROVE  FromTimeT(a) <= FromTimeT(b)
<1>1. HourSecs \in Nat \ {0}
  BY ServerNumbers
<1> QED
  BY <1>1 DEF FromTimeT

(* A dated value stands in the block of an entry, and its time is of that    *)
(* hour.                                                                     *)
LEMMA DatedAt ==
  ASSUME NEW c \in Seq(Cell), NEW idx \in Seq(EntryType), NEW h, LogInv(c, idx, h),
         NEW i \in DatedCells(c)
  PROVE  \E l \in 1 .. Len(idx) :
           /\ idx[l].pos + 1 < i
           /\ \A m \in 1 .. Len(idx) : idx[m].pos + 1 <= i => idx[m].pos <= idx[l].pos
           /\ Stamped(c, i).time \in Nat
           /\ FromTimeT(Stamped(c, i).time) = idx[l].hour
<1>1. i \in 1 .. Len(c) /\ IsValue(c, i) /\ Len(c) \in Nat
  BY DEF DatedCells
<1>2. PICK g \in 1 .. i : IsHour(c, g)
  BY DEF DatedCells
<1>3. PICK j \in g .. i : /\ IsHour(c, j) /\ HourAt(c, i) = c[j].hour
                          /\ \A k \in j + 1 .. i : ~IsHour(c, k)
  BY <1>1, <1>2, HourFrom
<1>4. j \in 1 .. Len(c) /\ j # i
  BY <1>1, <1>2, <1>3 DEF IsHour, IsValue
<1>5. PICK l \in 1 .. Len(idx) : idx[l].pos + 1 = j
  BY <1>3, <1>4 DEF LogInv, Placed
<1>6. idx[l].hour \in Nat /\ idx[l].pos \in Nat
  BY EntryFields
<1>7. c[j] = HourCell(idx[l].hour)
  BY <1>5 DEF LogInv, Placed
<1>8. HourAt(c, i) = idx[l].hour
  BY <1>3, <1>7 DEF HourCell
<1>9. ASSUME NEW m \in 1 .. Len(idx), idx[m].pos + 1 <= i
      PROVE  idx[m].pos <= idx[l].pos
  <2>1. idx[m].pos \in 1 .. Len(c) - 1 /\ c[idx[m].pos + 1] = HourCell(idx[m].hour)
    BY DEF LogInv, Placed
  <2>2. IsHour(c, idx[m].pos + 1)
    BY <2>1 DEF IsHour, HourCell
  <2>3. ~(idx[m].pos + 1 \in j + 1 .. i)
    BY <1>3, <2>2
  <2> QED
    BY <1>1, <1>5, <1>6, <1>9, <2>1, <2>3
<1>10. c[i].offset \in Nat /\ c[i].offset < HourSecs
  <2>1. c[i] \in Cell
    BY <1>1
  <2> QED
    BY <1>1, <2>1, CellFields DEF IsValue, LogInv
<1>11. /\ Stamped(c, i).time = ToTimeT(idx[l].hour, c[i].offset)
       /\ ToTimeT(idx[l].hour, c[i].offset) \in Nat
       /\ FromTimeT(ToTimeT(idx[l].hour, c[i].offset)) = idx[l].hour
  <2> DEFINE off == c[i].offset
             hr  == idx[l].hour
             t   == ToTimeT(hr, off)
  <2>1. Stamped(c, i).time = t
    BY <1>8 DEF Stamped, TimeAt
  <2>2. hr \in Nat /\ off \in Nat /\ off < HourSecs
    BY <1>6, <1>10
  <2> HIDE DEF off, hr
  <2>3. t \in Nat /\ ToTimeT(hr, 0) <= t /\ t - ToTimeT(hr, 0) <= HourSecs - 1
    BY <2>2, ServerNumbers DEF ToTimeT
  <2> HIDE DEF t
  <2>4. FromTimeT(t) = hr
    BY <2>2, <2>3, HourUnique
  <2> QED
    BY <2>1, <2>3, <2>4 DEF t, hr, off
<1>12. idx[l].pos + 1 < i
  BY <1>1, <1>3, <1>4, <1>5, <1>6
<1> QED
  BY <1>9, <1>11, <1>12

(* The values behind the header of an hour are those of this hour and later. *)
LEMMA BlocksFrom ==
  ASSUME NEW c \in Seq(Cell), NEW idx \in Seq(EntryType), NEW h \in Seq(ServerValue),
         NEW clock, IndexShape(idx, clock), LogInv(c, idx, h), NEW k \in 1 .. Len(idx)
  PROVE  /\ \A i \in Within(c, idx[k].pos + 1, Len(c) + 1) : i \in DatedCells(c)
         /\ {Stamped(c, i) : i \in Within(c, idx[k].pos + 1, Len(c) + 1)} =
              {v \in Members(h) : FromTimeT(v.time) >= idx[k].hour}
         /\ \A v \in Members(h) : FromTimeT(v.time) <= Last(idx).hour
<1> DEFINE p == idx[k].pos + 1
           W == Within(c, p, Len(c) + 1)
<1>1. /\ Len(c) \in Nat /\ idx[k].pos \in Nat /\ p \in 1 .. Len(c) /\ IsHour(c, p)
      /\ idx[k].hour \in Nat \ {0}
  <2>1. idx[k].pos \in 1 .. Len(c) - 1 /\ c[idx[k].pos + 1] = HourCell(idx[k].hour)
    BY DEF LogInv, Placed
  <2>2. IsHour(c, p)
    BY <2>1 DEF IsHour, HourCell
  <2>3. idx[k].hour \in Nat \ {0} /\ idx[k].pos \in Nat
    BY HoursPositive, EntryFields
  <2>4. Len(c) \in Nat
    OBVIOUS
  <2>5. p \in 1 .. Len(c)
    BY <2>1, <2>3, <2>4
  <2> QED
    BY <2>2, <2>3, <2>4, <2>5
<1>2. ASSUME NEW i \in W
      PROVE  i \in DatedCells(c) /\ p < i
  BY <1>1, <1>2 DEF Within, DatedCells
<1>3. ASSUME NEW i \in DatedCells(c)
      PROVE  \E l \in 1 .. Len(idx) :
               /\ FromTimeT(Stamped(c, i).time) = idx[l].hour
               /\ idx[l].hour \in Nat
               /\ p < i => idx[k].hour <= idx[l].hour
               /\ ~(p < i) => idx[l].hour < idx[k].hour
  <2>1. PICK l \in 1 .. Len(idx) :
          /\ idx[l].pos + 1 < i
          /\ \A m \in 1 .. Len(idx) : idx[m].pos + 1 <= i => idx[m].pos <= idx[l].pos
          /\ FromTimeT(Stamped(c, i).time) = idx[l].hour
    BY <1>3, DatedAt
  <2>2. idx[l].pos \in Nat /\ idx[l].hour \in Nat /\ i \in 1 .. Len(c)
    BY EntryFields DEF DatedCells
  <2>3. /\ \A a, b \in 1 .. Len(idx) : a < b => idx[a].pos < idx[b].pos
        /\ \A a, b \in 1 .. Len(idx) : a < b => idx[a].hour < idx[b].hour
    BY DEF LogInv, Placed, IndexShape, Ascending
  <2>4. p < i => idx[k].hour <= idx[l].hour
    <3>1. SUFFICES ASSUME p < i PROVE idx[k].hour <= idx[l].hour
      OBVIOUS
    <3>2. idx[k].pos <= idx[l].pos
      <4>1. idx[k].pos + 1 <= i
        BY <1>1, <2>2, <3>1
      <4> QED
        BY <2>1, <4>1
    <3>3. k <= l
      BY <1>1, <2>2, <2>3, <3>2
    <3>4. k = l \/ k < l
      BY <3>3
    <3> QED
      BY <1>1, <2>2, <2>3, <3>4
  <2>5. ~(p < i) => idx[l].hour < idx[k].hour
    <3>1. SUFFICES ASSUME ~(p < i) PROVE idx[l].hour < idx[k].hour
      OBVIOUS
    <3>2. idx[l].pos < idx[k].pos
      BY <1>1, <2>1, <2>2, <3>1
    <3>3. l < k
      <4>1. l # k
        BY <1>1, <3>2
      <4>2. ~(k < l)
        BY <1>1, <2>2, <2>3, <3>2
      <4> QED
        BY <4>1, <4>2
    <3> QED
      BY <2>3, <3>3
  <2> QED
    BY <2>1, <2>2, <2>4, <2>5
<1>4. DatedValues(c) = InHours(h)
  BY DEF LogInv
<1>5. ASSUME NEW v \in Members(h)
      PROVE  /\ v.time \in Int /\ FromTimeT(v.time) \in Int
             /\ FromTimeT(v.time) >= 1 => v \in InHours(h)
  <2>1. v.time \in Int
    BY <1>5, TimesAreInts DEF Members
  <2>2. FromTimeT(v.time) \in Int
    BY <2>1, ServerNumbers DEF FromTimeT
  <2>3. FromTimeT(v.time) >= 1 => HourSecs <= v.time
    BY <2>1, FirstHour
  <2> QED
    BY <1>5, <2>1, <2>2, <2>3, ServerNumbers DEF InHours
<1>6. ASSUME NEW i \in DatedCells(c)
      PROVE  Stamped(c, i) \in Members(h)
  BY <1>4, <1>6 DEF DatedValues, InHours
<1> HIDE DEF W
<1>7. ASSUME NEW i \in W
      PROVE  Stamped(c, i) \in Members(h) /\ FromTimeT(Stamped(c, i).time) >= idx[k].hour
  BY <1>1, <1>2, <1>3, <1>6
<1>8. ASSUME NEW v \in Members(h), FromTimeT(v.time) >= idx[k].hour
      PROVE  \E i \in W : v = Stamped(c, i)
  <2>1. v \in InHours(h)
    BY <1>1, <1>5, <1>8
  <2>2. PICK i \in DatedCells(c) : v = Stamped(c, i)
    BY <1>4, <2>1 DEF DatedValues
  <2>3. p < i
    BY <1>1, <1>3, <1>8, <2>2
  <2>4. i \in W
    BY <1>1, <2>3 DEF W, Within, DatedCells
  <2> QED
    BY <2>2, <2>4
<1>9. ASSUME NEW v \in Members(h)
      PROVE  FromTimeT(v.time) <= Last(idx).hour
  <2>1. Last(idx).hour \in Nat \ {0}
    BY HoursPositive
  <2>2. CASE FromTimeT(v.time) >= 1
    <3>1. v \in DatedValues(c)
      BY <1>4, <1>5, <2>2
    <3>2. PICK i \in DatedCells(c) : v = Stamped(c, i)
      BY <3>1 DEF DatedValues
    <3>3. PICK l \in 1 .. Len(idx) : FromTimeT(Stamped(c, i).time) = idx[l].hour
      BY <1>3
    <3> QED
      BY <3>2, <3>3, HoursPositive
  <2> QED
    BY <1>5, <2>1, <2>2
<1>10. {Stamped(c, i) : i \in W} = {v \in Members(h) : FromTimeT(v.time) >= idx[k].hour}
  BY <1>7, <1>8
<1> QED
  BY <1>2, <1>9, <1>10 DEF W

(* What getFilesInfo has made sure of when a read runs.                      *)
LEMMA ReadReached ==
  ASSUME WalkInv, ClockedInv, StoredInv, ReadHour \/ ReadRange \/ ReadLastValue
  PROVE  /\ call # Idle /\ IsOpen /\ request.controller \in {"read", "last"}
         /\ request.folder = "db" /\ request.called /\ call = ControllerCall
         /\ ~IsList /\ ~LacksStart
         /\ request.controller = "last" => call = [op |-> "ReadLastValue"]
         /\ request.controller = "read" => call = ReadCall(request.query)
         /\ index # <<>> /\ history # <<>> /\ Asked
<1>1. call.op \in {"ReadHour", "ReadRange", "ReadLastValue"}
  BY ReadsReturn
<1>2. call # Idle
  BY <1>1 DEF Idle
<1>3. /\ IsOpen /\ request.folder = "db" /\ request.called /\ call = ControllerCall
      /\ ~IsList /\ ~LacksStart /\ request.controller \in {"read", "last", "write"}
  BY <1>2 DEF WalkInv, ClockedInv
<1>4. request.controller \in {"read", "last"}
  BY <1>1, <1>3, ToCallCalls
<1>5. Asked
  BY <1>2, <1>4 DEF StoredInv, Pending
<1>6. history # <<>>
  BY <1>3, <1>4, StoredFacts
<1>7. index # <<>>
  BY <1>5, <1>6 DEF Asked
<1> QED
  BY <1>2, <1>3, <1>4, <1>5, <1>6, <1>7, ToCallCalls

(* An hour that findIndex finds is that of an entry, which leads to it.      *)
LEMMA EntryFound ==
  ASSUME WalkInv, ClockedInv, StoredInv, IsOpen, index # <<>>, NEW hour \in Nat,
         FindHour(hour) # NotFound
  PROVE  \E k \in 1 .. Len(index) : /\ index[k].hour = hour /\ index[k].pos = FindHour(hour)
                                    /\ LeadsTo(FindHour(hour), hour)
<1>1. /\ index \in Seq(EntryType) /\ IndexShape(index, now) /\ InfoAgrees(info, index)
      /\ LogInv(Contents(data), index, history) /\ Contents(data) \in Seq(Cell)
  BY StoredFacts
<1>2. /\ Len(index) \in Nat \ {0} /\ index[1].hour \in Nat /\ Last(index).hour \in Nat
      /\ info.indexSize = Len(index)
      /\ info.minHour = index[1].hour /\ info.maxHour = Last(index).hour
  BY <1>1, EntryFields, HoursPositive DEF InfoAgrees
<1>3. Len(index) <= Last(index).hour - index[1].hour + 1
  BY <1>1 DEF IndexShape
<1>4. PICK k \in 1 .. Len(index) : index[k].hour = hour /\ index[k].pos = FindHour(hour)
  <2> DEFINE size == Len(index)
             lo   == index[1].hour
             hi   == Last(index).hour
  <2>1. FindHour(hour) = FindIndex(index, size, lo, hi, hour)
    BY <1>2 DEF FindHour
  <2>2. FindIndex(index, size, lo, hi, hour) # NotFound
    BY <2>1
  <2>3. \E i \in 1 .. Len(index) : /\ index[i].hour = hour
                                  /\ index[i].pos = FindIndex(index, size, lo, hi, hour)
    BY <1>1, <1>2, <1>3, <2>2, FindIndexSound, SMTT(30)
  <2> QED
    BY <2>1, <2>3
<1>5. LeadsTo(index[k].pos, index[k].hour)
  <2>1. /\ index[k].pos \in 1 .. Len(Contents(data)) - 1
        /\ Contents(data)[index[k].pos + 1] = HourCell(index[k].hour)
    BY <1>1 DEF LogInv, Placed
  <2>2. index[k].pos \in Nat
    BY <1>1, EntryFields
  <2>3. index[k].pos \in 0 .. Len(Contents(data)) - 1
    BY <2>1, <2>2
  <2> QED
    BY <2>1, <2>3 DEF LeadsTo, HasCell, CellAt
<1> QED
  BY <1>4, <1>5

(* A read that meets nothing that stops it leaves the stream at its end.     *)
LEMMA StaysAtEnd ==
  ASSUME data \in StreamType(Cell), LeaveAt(Len(Contents(data)) + 1)
  PROVE  data' \in StreamType(Cell) /\ AtEnd(data') /\ Contents(data') = Contents(data)
<1>1. Len(Contents(data)) \in Nat
  BY ContentsFacts
<1>2. ~(Len(Contents(data)) + 1 <= Len(Contents(data)))
  BY <1>1
<1>3. data' = SeekTo(data, Len(Contents(data)))
  BY <1>2 DEF LeaveAt
<1> QED
  BY <1>1, <1>3, SeekFacts

LEMMA ReadStored ==
  ASSUME WalkInv, ClockedInv, StoredInv, IsOpen, UNCHANGED <<now, index, info, history>>,
         history # <<>>, data' \in StreamType(Cell), AtEnd(data'),
         Contents(data') = Contents(data)
  PROVE  OpenedInv'
<1>1. /\ index \in Seq(EntryType) /\ IndexShape(index, now) /\ InfoAgrees(info, index)
      /\ LogInv(Contents(data), index, history)
  BY StoredFacts
<1> QED
  BY <1>1 DEF OpenedInv

LEMMA HourAnswered ==
  ASSUME WalkInv, ClockedInv, StoredInv, ReadHour, request' = request
  PROVE  OpenedInv' /\ answer'.ok /\ ReadLeft'
<1> DEFINE q   == request.query
           c   == Contents(data)
           pos == FindHour(call.hour)
           W   == Within(c, pos + 1, Len(c) + 1)
<1>1. /\ IsOpen /\ request.controller \in {"read", "last"} /\ request.folder = "db"
      /\ ~IsList /\ ~LacksStart /\ index # <<>> /\ history # <<>> /\ Asked
      /\ request.controller = "last" => call = [op |-> "ReadLastValue"]
      /\ request.controller = "read" => call = ReadCall(q)
  BY ReadReached
<1>2. call.op = "ReadHour" /\ UNCHANGED <<now, index, info, history>>
  BY DEF ReadHour
<1>3. request.controller = "read" /\ q.end = 0 /\ call.hour = FromTimeT(q.start)
  <2>1. request.controller = "read"
    BY <1>1, <1>2
  <2>2. q.end = 0
    BY <1>1, <1>2, <2>1 DEF ReadCall
  <2> QED
    BY <1>1, <2>1, <2>2 DEF ReadCall, ToTime
<1>4. /\ q.start \in Nat
      /\ \A k \in 1 .. Len(index) : index[k].hour <= FromTimeT(q.start)
  BY <1>1, <1>3 DEF Asked
<1>5. FromTimeT(q.start) \in Nat
  BY <1>4, HourOfTime
<1>6. /\ data \in StreamType(Cell) /\ AtEnd(data) /\ c \in Seq(Cell) /\ Len(c) \in Nat
      /\ index \in Seq(EntryType) /\ IndexShape(index, now) /\ LogInv(c, index, history)
      /\ history \in Seq(ServerValue)
  BY <1>1, StoredFacts, ContentsFacts
<1> DEFINE asked == {v \in InHours(history) : AskedFor(q, v.time)}
<1>7. SUFFICES /\ data' \in StreamType(Cell) /\ AtEnd(data') /\ Contents(data') = c
               /\ answer'.ok = TRUE /\ answer'.values = asked
  <2>1. asked' = asked
    BY <1>2 DEF Members, InHours, AskedFor
  <2> HIDE DEF asked, c
  <2>2. SUFFICES ASSUME answer'.values = asked' PROVE ReadLeft'
    BY <1>1, <1>2, <2>1, ReadStored DEF c
  <2> QED
    BY <1>3, <2>2 DEF ReadLeft, asked
<1>10. ASSUME NEW v \in Members(history)
       PROVE  /\ FromTimeT(v.time) \in Int
              /\ FromTimeT(v.time) <= Last(index).hour
              /\ FromTimeT(v.time) >= 1 => v \in InHours(history)
  <2>1. v.time \in Int
    BY <1>6, <1>10, TimesAreInts DEF Members
  <2>2. FromTimeT(v.time) \in Int
    BY <2>1, ServerNumbers DEF FromTimeT
  <2>3. FromTimeT(v.time) >= 1 => HourSecs <= v.time
    BY <2>1, FirstHour
  <2>4. Len(index) \in 1 .. Len(index)
    BY <1>1, <1>6
  <2>5. FromTimeT(v.time) <= Last(index).hour
    BY <1>6, <1>10, <2>4, BlocksFrom
  <2> QED
    BY <1>10, <2>1, <2>2, <2>3, <2>5, ServerNumbers DEF InHours
<1>11. /\ Last(index).hour \in Nat \ {0} /\ Last(index).hour <= call.hour
       /\ Len(index) \in 1 .. Len(index)
  <2>1. Len(index) \in 1 .. Len(index)
    BY <1>1, <1>6
  <2> QED
    BY <1>3, <1>4, <1>6, <2>1, HoursPositive DEF Last
<1>12. InfoAgrees(info, index)
  BY <1>1, StoredFacts
<1>8. CASE pos = NotFound
  <2>1. ReadMiss
    BY <1>8 DEF ReadHour
  <2>2. Return(TRUE, "", {}) /\ data' = data
    BY <2>1 DEF ReadMiss
  <2>3. answer'.ok = TRUE /\ answer'.values = {}
    BY <2>2, ReturnFields
  <2>4. call.hour # Last(index).hour
    <3>1. FindHour(info.maxHour) = Last(index).pos /\ info.maxHour = Last(index).hour
      BY <1>1, <1>6, <1>12, EndsFoundHere DEF InfoAgrees
    <3>2. Last(index).pos # NotFound
      <4>1. /\ Last(index).pos \in 1 .. Len(c) - 1 /\ Last(index).pos \in Nat
        BY <1>6, <1>11, EntryFields DEF LogInv, Placed, Last
      <4> HIDE DEF c
      <4> QED
        BY <1>6, <4>1 DEF NotFound
    <3> QED
      BY <1>8, <3>1, <3>2
  <2>5. asked = {}
    <3>1. ASSUME NEW v \in asked PROVE FALSE
      <4>1. v \in Members(history) /\ FromTimeT(v.time) = call.hour
        BY <1>3, <3>1 DEF InHours, AskedFor
      <4>2. FromTimeT(v.time) <= Last(index).hour
        BY <1>10, <4>1
      <4> QED
        BY <1>3, <1>5, <1>11, <2>4, <4>1, <4>2
    <3> QED
      BY <3>1
  <2> HIDE DEF asked
  <2> QED
    BY <1>6, <2>2, <2>3, <2>5
<1>9. CASE pos # NotFound
  <2>1. PICK k \in 1 .. Len(index) : /\ index[k].hour = call.hour /\ index[k].pos = pos
                                     /\ LeadsTo(pos, call.hour)
    BY <1>1, <1>3, <1>5, <1>9, EntryFound
  <2>2. Last(index).hour = call.hour /\ k = Len(index)
    <3>1. /\ index[k].hour \in Nat /\ Last(index).hour \in Nat
          /\ index[k].hour <= Last(index).hour
          /\ index[k].hour = Last(index).hour => k = Len(index)
      BY <1>6, HoursPositive
    <3>2. Last(index).hour <= call.hour
      <4>1. Len(index) \in 1 .. Len(index)
        BY <1>6, <2>1
      <4> QED
        BY <1>3, <1>4, <4>1 DEF Last
    <3> QED
      BY <1>3, <1>5, <2>1, <3>1, <3>2
  <2>3. HourStop(c, pos + 1) = Len(c) + 1
    <3>1. Last(index).pos = pos /\ pos \in Nat
      BY <1>6, <2>1, <2>2, EntryFields DEF Last
    <3>2. \A i \in pos + 2 .. Len(c) : IsValue(c, i)
      BY <1>1, <1>6, <3>1 DEF LogInv, EndsOpen
    <3>3. {i \in pos + 1 + 1 .. Len(c) : IsEnd(c, i)} = {}
      BY <3>1, <3>2 DEF IsEnd, IsValue
    <3> QED
      BY <3>3 DEF HourStop, FirstOf
  <2>4. Return(TRUE, "", {Stamped(c, i) : i \in W}) /\ LeaveAt(Len(c) + 1)
    BY <1>9, <2>1, <2>3 DEF ReadHour
  <2>5. /\ {Stamped(c, i) : i \in W} = {v \in Members(history) : FromTimeT(v.time) >= call.hour}
        /\ \A v \in Members(history) : FromTimeT(v.time) <= call.hour
    BY <1>6, <2>1, <2>2, BlocksFrom
  <2>7. {Stamped(c, i) : i \in W} = asked
    <3>1. ASSUME NEW v \in Members(history)
          PROVE  FromTimeT(v.time) >= call.hour
                   <=> v \in InHours(history) /\ AskedFor(q, v.time)
      <4>1. FromTimeT(v.time) \in Int /\ FromTimeT(v.time) <= call.hour
        BY <1>10, <2>5, <3>1
      <4>2. call.hour \in Nat \ {0}
        BY <1>11, <2>2
      <4> QED
        BY <1>3, <1>10, <3>1, <4>1, <4>2 DEF AskedFor
    <3>2. \A v \in InHours(history) : v \in Members(history)
      BY DEF InHours
    <3> HIDE DEF W, c
    <3> QED
      BY <2>5, <3>1, <3>2
  <2>8. answer'.ok = TRUE /\ answer'.values = asked
    <3> HIDE DEF W, c, asked
    <3> QED
      BY <2>4, <2>7, ReturnFields
  <2> QED
    BY <1>6, <2>4, <2>8, StaysAtEnd
<1> QED
  BY <1>8, <1>9

(* Between the first hour of the index and its last there is no first hour   *)
(* and no last one.                                                          *)
LEMMA NoOtherEnds ==
  ASSUME RecordInv, index \in Seq(EntryType), IndexShape(index, now), index # <<>>,
         history \in Seq(ServerValue), history # <<>>,
         LogInv(Contents(data), index, history), Contents(data) \in Seq(Cell),
         NEW q, q.end # 0, FromTimeT(q.start) \in Nat,
         FromTimeT(q.start) # index[1].hour, FromTimeT(q.start) # Last(index).hour
  PROVE  BeginsElsewhere(q)
<1> DEFINE hours == {FromTimeT(v.time) : v \in InHours(history)}
           c     == Contents(data)
           lo    == index[1].hour
           hi    == Last(index).hour
<1>1. Dated = InHours(history)
  BY DEF Dated, Accepted, InHours, Members
<1>2. lo \in hours
  BY DEF RecordInv
<1>3. /\ lo \in Nat /\ hi \in Nat /\ 1 \in 1 .. Len(index) /\ Len(index) \in 1 .. Len(index)
      /\ \A l \in 1 .. Len(index) : index[l].hour \in Nat /\ lo <= index[l].hour
  <2>1. 1 \in 1 .. Len(index) /\ Len(index) \in 1 .. Len(index)
    OBVIOUS
  <2>2. \A l \in 1 .. Len(index) : index[l].hour \in Nat
    BY HoursPositive
  <2>3. \A k, l \in 1 .. Len(index) : k < l => index[k].hour < index[l].hour
    BY DEF IndexShape, Ascending
  <2>4. \A l \in 1 .. Len(index) : l = 1 \/ 1 < l
    OBVIOUS
  <2>5. \A l \in 1 .. Len(index) : lo <= index[l].hour
    BY <2>1, <2>2, <2>3, <2>4
  <2> QED
    BY <2>1, <2>2, <2>5 DEF Last
<1>4. \A h \in hours : h \in Nat /\ lo <= h /\ h <= hi
  <2>1. ASSUME NEW v \in InHours(history)
        PROVE  FromTimeT(v.time) \in Nat /\ lo <= FromTimeT(v.time) /\ FromTimeT(v.time) <= hi
    <3>1. PICK i \in DatedCells(c) : v = Stamped(c, i)
      BY <2>1 DEF LogInv, DatedValues
    <3>2. PICK l \in 1 .. Len(index) : FromTimeT(Stamped(c, i).time) = index[l].hour
      BY <3>1, DatedAt
    <3>3. FromTimeT(v.time) <= hi
      <4>1. v \in Members(history)
        BY <2>1 DEF InHours
      <4> QED
        BY <1>3, <4>1, BlocksFrom
    <3> QED
      BY <1>3, <3>1, <3>2, <3>3
  <2> QED
    BY <2>1
<1>5. hi \in hours
  <2> DEFINE W == Within(c, Last(index).pos + 1, Len(c) + 1)
             v == Stamped(c, Len(c))
  <2>1. Last(index) = index[Len(index)]
    BY DEF Last
  <2>2. Last(index).pos + 1 < Len(c) /\ IsValue(c, Len(c))
    <3>1. Last(index).pos \in Nat /\ Last(index).pos + 2 <= Len(c) /\ Len(c) \in Nat
      BY LastInForce
    <3>2. \A i \in Last(index).pos + 2 .. Len(c) : IsValue(c, i)
      BY DEF LogInv, EndsOpen
    <3> HIDE DEF c
    <3> QED
      BY <3>1, <3>2
  <2>3. Len(c) \in W
    <3>1. Last(index).pos \in Nat /\ Len(c) \in Nat
      BY LastInForce
    <3> HIDE DEF c
    <3> QED
      BY <2>2, <3>1 DEF Within
  <2>4. /\ Len(c) \in DatedCells(c)
        /\ v \in {u \in Members(history) : FromTimeT(u.time) >= hi}
        /\ \A u \in Members(history) : FromTimeT(u.time) <= hi
    BY <1>3, <2>1, <2>3, BlocksFrom
  <2>5. v \in InHours(history)
    BY <2>4 DEF LogInv, DatedValues
  <2> HIDE DEF v, hi
  <2>6. FromTimeT(v.time) = hi
    BY <1>3, <1>4, <2>4, <2>5
  <2> QED
    BY <2>5, <2>6
<1> HIDE DEF hours, lo, hi
<1> DEFINE g == FromTimeT(q.start)
<1>6. ~(g \in hours /\ \A h \in hours : g <= h)
  BY <1>2, <1>3, <1>4 DEF lo
<1>7. ~(g \in hours /\ \A h \in hours : h <= g)
  BY <1>3, <1>4, <1>5 DEF hi
<1> QED
  BY <1>1, <1>6, <1>7 DEF BeginsElsewhere, hours

LEMMA RangeAnswered ==
  ASSUME WalkInv, ClockedInv, StoredInv, RecordInv, ReadRange, request' = request
  PROVE  OpenedInv' /\ answer'.ok /\ ReadLeft'
<1> DEFINE q    == request.query
           c    == Contents(data)
           hour == FromTimeT(call.begin)
           pos  == FindHour(hour)
           W    == Within(c, pos + 1, Len(c) + 1)
<1>1. /\ IsOpen /\ request.controller \in {"read", "last"} /\ request.folder = "db"
      /\ ~IsList /\ ~LacksStart /\ index # <<>> /\ history # <<>> /\ Asked
      /\ request.controller = "last" => call = [op |-> "ReadLastValue"]
      /\ request.controller = "read" => call = ReadCall(q)
  BY ReadReached
<1>2. call.op = "ReadRange" /\ UNCHANGED <<now, index, info, history>>
  BY DEF ReadRange
<1>3. request.controller = "read" /\ q.end # 0 /\ call.begin = q.start /\ call.end = q.end
  <2>1. request.controller = "read"
    BY <1>1, <1>2
  <2>2. q.end # 0
    BY <1>1, <1>2, <2>1 DEF ReadCall
  <2> QED
    BY <1>1, <2>1, <2>2 DEF ReadCall, ToTime
<1>4. /\ q.start \in Nat /\ q.end \in Nat
      /\ \A k \in 1 .. Len(history) : history[k].time <= q.end
  BY <1>1, <1>3 DEF Asked
<1>5. hour \in Nat
  BY <1>3, <1>4, HourOfTime
<1>6. /\ data \in StreamType(Cell) /\ AtEnd(data) /\ c \in Seq(Cell) /\ Len(c) \in Nat
      /\ index \in Seq(EntryType) /\ IndexShape(index, now) /\ LogInv(c, index, history)
      /\ history \in Seq(ServerValue)
  BY <1>1, StoredFacts, ContentsFacts
<1> DEFINE asked == {v \in InHours(history) : AskedFor(q, v.time)}
<1>7. SUFFICES /\ data' \in StreamType(Cell) /\ AtEnd(data') /\ Contents(data') = c
               /\ answer'.ok = TRUE
               /\ answer'.values = asked \/ (answer'.values = {} /\ BeginsElsewhere(q))
  <2>1. asked' = asked /\ BeginsElsewhere(q)' = BeginsElsewhere(q)
    BY <1>2 DEF Members, InHours, AskedFor, BeginsElsewhere, Dated, Accepted
  <2> HIDE DEF asked, c
  <2>2. SUFFICES ASSUME answer'.values = asked' \/ (answer'.values = {} /\ BeginsElsewhere(q)')
                 PROVE  ReadLeft'
    BY <1>1, <1>2, <2>1, ReadStored DEF c
  <2> QED
    BY <1>3, <2>2 DEF ReadLeft, asked
<1>8. CASE pos = NotFound
  <2>1. ReadMiss
    BY <1>8 DEF ReadRange
  <2>2. Return(TRUE, "", {}) /\ data' = data
    BY <2>1 DEF ReadMiss
  <2>3. answer'.ok = TRUE /\ answer'.values = {}
    BY <2>2, ReturnFields
  <2>4. hour # index[1].hour /\ hour # Last(index).hour
    <3> HIDE DEF hour
    <3>1. /\ InfoAgrees(info, index)
          /\ \A k \in 1 .. Len(index) : index[k].pos # NotFound
      <4>1. \A k \in 1 .. Len(index) : index[k].pos \in 1 .. Len(c) - 1 /\ index[k].pos \in Nat
        BY <1>6, EntryFields DEF LogInv, Placed
      <4> HIDE DEF c
      <4> QED
        BY <1>1, <1>6, <4>1, StoredFacts DEF NotFound
    <3>2. /\ FindHour(index[1].hour) = index[1].pos
          /\ FindHour(Last(index).hour) = Last(index).pos
      BY <1>1, <1>6, <3>1, EndsFoundHere DEF InfoAgrees
    <3>3. 1 \in 1 .. Len(index) /\ Len(index) \in 1 .. Len(index)
      BY <1>1, <1>6
    <3> QED
      BY <1>8, <3>1, <3>2, <3>3 DEF Last
  <2>5. BeginsElsewhere(q)
    <3>1. FromTimeT(q.start) = hour /\ q.end # 0
      BY <1>3
    <3> HIDE DEF hour, q
    <3> QED
      BY <1>1, <1>5, <1>6, <2>4, <3>1, NoOtherEnds
  <2> QED
    BY <1>6, <2>2, <2>3, <2>5
<1>9. CASE pos # NotFound
  <2>1. PICK k \in 1 .. Len(index) : /\ index[k].hour = hour /\ index[k].pos = pos
                                     /\ LeadsTo(pos, hour)
    BY <1>1, <1>5, <1>9, EntryFound
  <2> HIDE DEF pos, hour, c
  <2>2. /\ \A i \in W : i \in DatedCells(c)
        /\ {Stamped(c, i) : i \in W} = {v \in Members(history) : FromTimeT(v.time) >= hour}
    BY <1>6, <2>1, BlocksFrom
  <2>3. hour \in Nat \ {0}
    BY <1>6, <2>1, HoursPositive
  <2>4. \A v \in Members(history) : v.time \in Int /\ v.time <= q.end
    BY <1>4, <1>6, TimesAreInts DEF Members
  <2>5. \A i \in W : Stamped(c, i) \in Members(history) /\ Stamped(c, i).time = TimeAt(c, i)
    BY <2>2 DEF Stamped
  <2>6. RangeStop(c, pos + 1, call.end) = Len(c) + 1
    <3>1. {i \in W : TimeAt(c, i) > call.end} = {}
      <4> HIDE DEF W
      <4>1. \A i \in W : TimeAt(c, i) \in Int /\ TimeAt(c, i) <= q.end
        BY <2>4, <2>5
      <4> QED
        BY <1>3, <1>4, <4>1
    <3> QED
      BY <3>1 DEF RangeStop, FirstOf
  <2> DEFINE got == {v \in {Stamped(c, i) : i \in W} : v.time >= call.begin}
  <2>7. Return(TRUE, "", got) /\ LeaveAt(Len(c) + 1)
    BY <1>9, <2>1, <2>6 DEF ReadRange, pos, hour, c
  <2>8. got = asked
    <3>1. ASSUME NEW v \in Members(history), v.time >= q.start
          PROVE  FromTimeT(v.time) >= hour
      <4>1. v.time \in Int /\ v.time \in Nat
        BY <1>4, <2>4, <3>1
      <4> QED
        BY <1>3, <1>4, <3>1, <4>1, HoursGrow DEF hour
    <3>2. ASSUME NEW v \in Members(history)
          PROVE  /\ v.time >= q.start <=> q.start <= v.time
                 /\ v.time <= q.end
      BY <1>4, <2>4
    <3>3. ASSUME NEW v \in Members(history)
          PROVE  /\ FromTimeT(v.time) >= hour => v \in InHours(history)
                 /\ AskedFor(q, v.time) <=> q.start <= v.time /\ v.time <= q.end
      <4>1. FromTimeT(v.time) >= hour => HourSecs <= v.time
        BY <2>3, <2>4, <3>3, FirstHour
      <4> QED
        BY <1>3, <2>4, <3>3, <4>1, ServerNumbers DEF InHours, AskedFor
    <3>4. \A v \in InHours(history) : v \in Members(history)
      BY DEF InHours
    <3> HIDE DEF W
    <3> QED
      BY <1>3, <2>2, <3>1, <3>2, <3>3, <3>4
  <2>9. answer'.ok = TRUE /\ answer'.values = asked
    <3> HIDE DEF got, asked
    <3> QED
      BY <2>7, <2>8, ReturnFields
  <2> QED
    BY <1>6, <2>7, <2>9, StaysAtEnd DEF c
<1> QED
  BY <1>8, <1>9

LEMMA LastAnswered ==
  ASSUME WalkInv, ClockedInv, StoredInv, ReadLastValue, request' = request
  PROVE  OpenedInv' /\ answer'.ok /\ ReadLeft'
<1> DEFINE c   == Contents(data)
           n   == Len(c)
           pos == FindHour(info.maxHour)
           v   == [time |-> ToTimeT(info.maxHour, c[n].offset), value |-> c[n].value]
<1>1. /\ IsOpen /\ request.controller \in {"read", "last"}
      /\ index # <<>> /\ history # <<>>
      /\ request.controller = "read" => call = ReadCall(request.query)
  BY ReadReached
<1>2. call.op = "ReadLastValue" /\ UNCHANGED <<now, index, info, history>>
  BY DEF ReadLastValue
<1>3. request.controller = "last"
  <2>1. ReadCall(request.query).op \in {"ReadHour", "ReadRange"}
    BY DEF ReadCall
  <2> QED
    BY <1>1, <1>2, <2>1
<1>4. /\ data \in StreamType(Cell) /\ c \in Seq(Cell) /\ n \in Nat
      /\ index \in Seq(EntryType) /\ IndexShape(index, now) /\ InfoAgrees(info, index)
      /\ LogInv(c, index, history)
  BY <1>1, StoredFacts, ContentsFacts
<1>5. info.maxHour = Last(index).hour /\ pos = Last(index).pos
  BY <1>1, <1>4, EndsFoundHere DEF InfoAgrees
<1>6. LeadsTo(pos, info.maxHour) /\ pos # NotFound
  <2>1. Len(index) \in 1 .. Len(index) /\ Last(index) = index[Len(index)]
    BY <1>1, <1>4 DEF Last
  <2>2. pos \in 1 .. n - 1 /\ c[pos + 1] = HourCell(info.maxHour)
    BY <1>4, <1>5, <2>1 DEF LogInv, Placed
  <2>3. pos \in Nat
    BY <1>4, <1>5, <2>1, EntryFields
  <2> HIDE DEF pos
  <2>4. pos \in 0 .. n - 1 /\ pos # 0
    BY <1>4, <2>2, <2>3
  <2> QED
    BY <2>2, <2>4 DEF LeadsTo, HasCell, CellAt, NotFound
<1>7. v = Last(history)
  <2>1. Stamped(c, n) = Last(history)
    BY <1>1, <1>4 DEF LogInv, EndsOpen
  <2>2. HourAt(c, n) = info.maxHour
    BY <1>1, <1>4, <1>5, LastInForce
  <2> QED
    BY <2>1, <2>2 DEF Stamped, TimeAt
<1>8. Return(TRUE, "", {v}) /\ data' = SeekEnd(data)
  BY <1>6 DEF ReadLastValue
<1> HIDE DEF v
<1>9. answer'.ok = TRUE /\ answer'.values = {v} /\ answer'.call = call
  BY <1>8, ReturnFields
<1>10. data' \in StreamType(Cell) /\ AtEnd(data') /\ Contents(data') = c
  BY <1>4, <1>8, SeekEndFacts
<1>11. OpenedInv'
  BY <1>1, <1>2, <1>10, ReadStored
<1>12. ReadLeft'
  BY <1>2, <1>3, <1>7, <1>9 DEF ReadLeft
<1> QED
  BY <1>9, <1>11, <1>12

-----------------------------------------------------------------------------
(* The steps of a handler, for StoredInv.                                    *)

(* No answer is given in the middle of a request.                            *)
LEMMA NothingTold ==
  ASSUME response'.status = 0
  PROVE  ReadAnswered' /\ FailureTold'
<1>1. ~Answered("read")' /\ ~Answered("last")'
  BY DEF Answered
<1>2. ~(response'.status = 404)
  OBVIOUS
<1> QED
  BY <1>1, <1>2 DEF ReadAnswered, FailureTold

LEMMA ErrorKept ==
  ASSUME DOMAIN lastErrors = Folders, NEW folder \in Folders, NEW code,
         SetLastError(folder, code)
  PROVE  DOMAIN lastErrors' = Folders /\ (code # "" => lastErrors'[folder] = code)
  BY DEF SetLastError

LEMMA TimesGrow ==
  ASSUME history \in Seq(ServerValue), NEW v, v \in ServerValue, v.time <= now,
         \A k \in 1 .. Len(history) : history[k].time <= now,
         history' = Append(history, v), now' = now
  PROVE  \A k \in 1 .. Len(history') : history'[k].time <= now'
<1>1. /\ Len(history') = Len(history) + 1 /\ history'[Len(history) + 1] = v
      /\ \A k \in 1 .. Len(history) : history'[k] = history[k]
      /\ Len(history) \in Nat
  OBVIOUS
<1>2. \A k \in 1 .. Len(history') : k \in 1 .. Len(history) \/ k = Len(history) + 1
  BY <1>1
<1> QED
  BY <1>1, <1>2

LEMMA RunBodyStores ==
  ASSUME NegativesWrap, WalkInv, ClockedInv, StoredInv, RecordInv, RunBody
  PROVE  StoredInv'
<1>1. /\ request' = request /\ response' = response
      /\ WriteNow \/ WriteOldInTime \/ WriteBeforeTime \/ ReadHour \/ ReadRange \/ ReadLastValue
      /\ SetLastError("db", answer'.error)
  BY DEF RunBody
<1>2. call # Idle /\ call' = Idle
  <2>1. CASE WriteNow \/ WriteOldInTime \/ WriteBeforeTime
    BY <2>1, WritesReach, WritesReturn
  <2>2. CASE ReadHour \/ ReadRange \/ ReadLastValue
    BY <2>2, ReadReached, ReadsReturn
  <2> QED
    BY <1>1, <2>1, <2>2
<1>3. /\ IsOpen /\ request.called /\ request.folder = "db"
      /\ history \in Seq(ServerValue) /\ Len(history) \in Nat /\ now \in Nat
      /\ DOMAIN lastErrors = Folders /\ "db" \in Folders
      /\ \A k \in 1 .. Len(history) : history[k].time <= now
  BY <1>2 DEF WalkInv, ClockedInv, StoredInv, Folders
<1>4. ReadAnswered' /\ FailureTold'
  BY <1>1, <1>3, NothingTold, NoRequestFields DEF WalkInv
<1>5. DOMAIN lastErrors' = Folders /\ (answer'.error # "" => lastErrors'["db"] = answer'.error)
  BY <1>1, <1>3, ErrorKept
<1>6. SUFFICES /\ OpenedInv'
               /\ \A k \in 1 .. Len(history') : history'[k].time <= now'
               /\ \/ answer'.ok /\ ReadLeft'
                  \/ ~answer'.ok /\ answer'.error # ""
  <2>1. ~Pending'
    BY <1>1, <1>2, <1>3 DEF Pending
  <2>2. ~answer'.ok => FailureLeft'
    BY <1>1, <1>3, <1>5, <1>6 DEF FailureLeft
  <2> QED
    BY <1>4, <1>5, <1>6, <2>1, <2>2 DEF StoredInv
<1>7. CASE WriteNow \/ WriteOldInTime \/ WriteBeforeTime
  <2>1. /\ request.controller = "write" /\ now' = now
        /\ RefusedWrite \/ (\E time \in Nat : TimedWrite(time)) \/ \E time \in Int : EarlyWrite(time)
    BY <1>7, WritesReach
  <2>2. ReadLeft'
    BY <1>1, <2>1 DEF ReadLeft
  <2>3. CASE RefusedWrite
    <3>1. Return(FALSE, "WRITE_MRV", {}) /\ history' = history
      BY <2>3 DEF RefusedWrite
    <3>2. answer'.ok = FALSE /\ answer'.error = "WRITE_MRV"
      BY <3>1, ReturnFields
    <3> QED
      BY <1>3, <2>1, <2>3, <3>1, <3>2, RefusedStored
  <2>4. ASSUME NEW time \in Nat, TimedWrite(time)
        PROVE  OpenedInv' /\ answer'.ok /\ \A k \in 1 .. Len(history') : history'[k].time <= now'
    <3> DEFINE v == [time |-> time, value |-> NextValue]
    <3>1. /\ HourSecs <= time /\ time <= now /\ info.startHour <= time
          /\ WriteInNewHour(time) \/ WriteInHour(time)
          /\ history' = Append(history, v) /\ Return(TRUE, "", {})
      BY <2>4 DEF TimedWrite, WriteTimeValue
    <3>2. OpenedInv'
      BY <1>3, <2>1, <3>1, NewHourStored, SameHourStored
    <3>3. answer'.ok = TRUE
      BY <3>1, ReturnFields
    <3>4. v \in ServerValue /\ v.time = time
      BY <1>3 DEF ServerValue, NextValue
    <3> HIDE DEF v
    <3> QED
      BY <1>3, <2>1, <3>1, <3>2, <3>3, <3>4, TimesGrow
  <2>5. ASSUME NEW time \in Int, EarlyWrite(time)
        PROVE  OpenedInv' /\ answer'.ok /\ \A k \in 1 .. Len(history') : history'[k].time <= now'
    <3> DEFINE v == [time |-> time, value |-> NextValue]
    <3>1. time < 0 /\ history' = Append(history, v) /\ Return(TRUE, "", {})
      BY <2>5 DEF EarlyWrite
    <3>2. answer'.ok = TRUE
      BY <3>1, ReturnFields
    <3>3. v \in ServerValue /\ v.time = time
      BY <1>3 DEF ServerValue, NextValue
    <3>4. time < 0 /\ now \in Nat
      BY <1>3, <3>1
    <3>5. time <= now
      BY <3>4
    <3> HIDE DEF v
    <3> QED
      BY <1>3, <2>1, <2>5, <3>1, <3>2, <3>3, <3>5, EarlyStored, TimesGrow
  <2> QED
    BY <2>1, <2>2, <2>3, <2>4, <2>5
<1>8. CASE ReadHour \/ ReadRange \/ ReadLastValue
  <2>1. OpenedInv' /\ answer'.ok /\ ReadLeft'
    BY <1>1, <1>8, HourAnswered, RangeAnswered, LastAnswered
  <2>2. history' = history /\ now' = now
    BY <1>8, ReadsReturn
  <2> QED
    BY <1>3, <2>1, <2>2
<1> QED
  BY <1>1, <1>7, <1>8

(* The hours of the index are those the clock has shown.                     *)
LEMMA HoursShown ==
  ASSUME WalkInv, ClockedInv, StoredInv, NEW k \in 1 .. Len(index)
  PROVE  index[k].hour \in Nat /\ index[k].hour <= FromTimeT(now)
<1>1. now \in Nat /\ HourSecs <= now /\ FromTimeT(now) \in Nat \ {0}
  BY HourOfTime DEF WalkInv, ClockedInv
<1>2. CASE IsOpen
  <2>1. /\ index \in Seq(EntryType) /\ IndexShape(index, now)
    BY <1>2, StoredFacts
  <2>2. /\ index[k].hour \in Nat \ {0} /\ Last(index).hour \in Nat \ {0} /\ index # <<>>
        /\ index[k].hour <= Last(index).hour
    BY <2>1, HoursPositive
  <2>3. ToTimeT(Last(index).hour, 0) <= now
    BY <2>1, <2>2 DEF IndexShape
  <2>4. now < ToTimeT(FromTimeT(now), 0) + HourSecs /\ ToTimeT(FromTimeT(now), 0) \in Nat
    BY <1>1, HourOfTime
  <2>5. Last(index).hour <= FromTimeT(now)
    <3> DEFINE a == Last(index).hour
               b == FromTimeT(now)
    <3>1. a \in Nat /\ b \in Nat
      BY <1>1, <2>2
    <3>2. ToTimeT(a, 0) <= now /\ now < ToTimeT(b, 0) + HourSecs
      BY <2>3, <2>4
    <3> HIDE DEF a, b
    <3>3. a * HourSecs < (b + 1) * HourSecs
      BY <1>1, <3>1, <3>2, ServerNumbers DEF ToTimeT
    <3>4. a < b + 1
      BY <3>1, <3>3, ServerNumbers
    <3> QED
      BY <3>1, <3>4 DEF a, b
  <2> QED
    BY <1>1, <2>2, <2>5
<1>3. CASE ~IsOpen
  <2>1. index = <<Entry(1, 1)>>
    BY <1>3 DEF ClockedInv, Untouched
  <2>2. k = 1 /\ index[k].hour = 1
    BY <2>1, IntIndexFacts
  <2> QED
    BY <1>1, <2>2
<1> QED
  BY <1>2, <1>3

LEMMA ReceiveStores ==
  ASSUME ~HistoryReads, WalkInv, ClockedInv, StoredInv, Receive
  PROVE  StoredInv'
<1>1. /\ request = NoRequest /\ response' = NoResponse /\ answer' = NoAnswer
      /\ UNCHANGED <<now, data, index, info, call, history, lastErrors>>
  BY DEF Receive
<1>2. PICK uri \in Uris :
        /\ HourLess => Walk(uri).controller \in {"write", "welcome"}
        /\ \E query \in QueriesOf(Walk(uri)) :
             request' = Request(Walk(uri).controller, Walk(uri).params, query, FALSE)
  BY Zenon DEF Receive
<1> DEFINE w == Walk(uri)
<1>3. PICK query \in QueriesOf(w) : request' = Request(w.controller, w.params, query, FALSE)
  BY <1>2
<1>4. HourLess => w.controller \in {"write", "welcome"}
  BY <1>2
<1>5. now \in Nat /\ HourSecs <= now /\ call = Idle
  BY <1>1, NoRequestFields DEF WalkInv, ClockedInv
<1>6. /\ query.start \in Nat /\ query.end \in Nat
      /\ w.controller = "read" /\ w.params["SensorId"] # "" /\ w.params["BaseName"] = "db"
           /\ query.start # 0 => ToTheEnd(query)
  BY <1>5, QueryFacts
<1> HIDE DEF w
<1>7. /\ ~request'.called /\ request'.query = query /\ request'.controller = w.controller
      /\ request'.folder = w.params["BaseName"] /\ request'.sensor = w.params["SensorId"]
  BY <1>3 DEF Request
<1>8. ReadAnswered' /\ FailureTold'
  BY <1>1, NothingTold DEF NoResponse
<1>9. IsOpen' => OpenedInv'
  <2>1. IsOpen' <=> IsOpen
    BY <1>1 DEF IsOpen, NoInfo, FilesInfo
  <2>2. IsOpen => OpenedInv /\ history # <<>>
    BY <1>5 DEF StoredInv, OpenedInv
  <2> QED
    BY <1>1, <2>1, <2>2 DEF OpenedInv
<1>10. request'.controller \in {"read", "last"} => Asked'
  <2>1. SUFFICES ASSUME request'.controller \in {"read", "last"} PROVE Asked'
    OBVIOUS
  <2>2. index = <<>> => history = <<>>
    BY <1>4, <1>7, <2>1 DEF HourLess
  <2>3. SUFFICES ASSUME request'.controller = "read", request'.folder = "db",
                        ~IsList', ~LacksStart'
                 PROVE  /\ query.end = 0 =>
                             \A k \in 1 .. Len(index) : index[k].hour <= FromTimeT(query.start)
                        /\ query.end # 0 =>
                             \A k \in 1 .. Len(history) : history[k].time <= query.end
    BY <1>1, <1>6, <1>7, <2>2 DEF Asked
  <2>4. w.params["SensorId"] # "" /\ query.start # 0
    BY <1>7, <2>3 DEF IsList, LacksStart
  <2>5. /\ query.end = 0 => FromTimeT(query.start) >= FromTimeT(now)
        /\ query.end # 0 => query.end >= now
    BY <1>6, <1>7, <2>3, <2>4 DEF ToTheEnd, ToTime
  <2>6. FromTimeT(query.start) \in Nat /\ FromTimeT(now) \in Nat
    BY <1>5, <1>6, HourOfTime
  <2>7. query.end = 0 => \A k \in 1 .. Len(index) : index[k].hour <= FromTimeT(query.start)
    BY <2>5, <2>6, HoursShown
  <2>8. \A k \in 1 .. Len(history) : history[k].time \in Int /\ history[k].time <= now
    BY TimesAreInts DEF WalkInv, StoredInv
  <2>9. query.end # 0 => \A k \in 1 .. Len(history) : history[k].time <= query.end
    <3> SUFFICES ASSUME query.end # 0, NEW k \in 1 .. Len(history)
                 PROVE  history[k].time <= query.end
      OBVIOUS
    <3>1. history[k].time \in Int /\ history[k].time <= now /\ query.end >= now
      BY <2>5, <2>8
    <3>2. now \in Nat /\ query.end \in Nat
      BY <1>5, <1>6
    <3> QED
      BY <3>1, <3>2
  <2> QED
    BY <2>7, <2>9
<1> QED
  BY <1>1, <1>7, <1>8, <1>9, <1>10 DEF StoredInv

(* The answers given without a call, or after it.                            *)
LEMMA SentStores ==
  ASSUME WalkInv, StoredInv, call = Idle, NEW status, NEW error, NEW values,
         Send(status, error, values), UNCHANGED vars, lastErrors' = lastErrors,
         ReadAnswered', FailureTold'
  PROVE  StoredInv'
<1>1. request' = NoRequest
  BY DEF Send
<1>2. request'.controller = "" /\ ~request'.called
  BY <1>1, NoRequestFields
<1>3. UNCHANGED <<now, data, index, info, call, answer, history>>
  BY DEF vars
<1>4. IsOpen' => OpenedInv'
  <2>1. IsOpen' <=> IsOpen
    BY <1>3 DEF IsOpen, NoInfo, FilesInfo
  <2>2. IsOpen => OpenedInv /\ history # <<>>
    BY DEF StoredInv, OpenedInv
  <2> QED
    BY <1>3, <2>1, <2>2 DEF OpenedInv
<1> QED
  BY <1>2, <1>3, <1>4 DEF StoredInv

LEMMA StatusesDiffer == ~(200 = 404) /\ ~(404 = 200) /\ ~(500 = 200) /\ ~(500 = 404)
  OBVIOUS

LEMMA SentFields ==
  ASSUME NEW status, NEW error, NEW values, Send(status, error, values)
  PROVE  /\ response'.status = status /\ response'.error = error
         /\ response'.values = values /\ response'.to = request
<1>1. response' = Response(status, error, values)
  BY DEF Send
<1> QED
  BY <1>1 DEF Response

(* Neither a value nor a failure is told of a sensor.                        *)
LEMMA OtherTold ==
  ASSUME NEW status, NEW error, NEW values, Send(status, error, values),
         \/ request.controller \notin {"read", "last"}
         \/ request.controller = "read" /\ (request.sensor = "" \/ ~(status = 200)),
         request.sensor = "" \/ ~(status = 404)
  PROVE  ReadAnswered' /\ FailureTold'
<1>1. response'.status = status /\ response'.to = request
  BY SentFields
<1>2. FailureTold'
  BY <1>1, Zenon DEF FailureTold
<1>3. ~("read" = "last")
  OBVIOUS
<1>4. ReadAnswered'
  BY <1>1, <1>3, Zenon DEF ReadAnswered, Answered
<1> QED
  BY <1>2, <1>4

(* The lines of an answer that is not resampled.                             *)
LEMMA LinesTold ==
  ASSUME WalkInv, StoredInv, RecordInv, request.called, call = Idle, answer.ok,
         request.controller \in {"read", "last"}, ~Resampled, UNCHANGED vars,
         Send(200, "", Lines(answer.values))
  PROVE  ReadAnswered'
<1>1. /\ response'.status = 200 /\ response'.values = Lines(answer.values)
      /\ response'.to = request
  BY SentFields
<1>2. history' = history
  BY DEF vars
<1>3. ReadLeft
  BY DEF StoredInv
<1>4. \A S : Lines(S) = {Line(v) : v \in S}
  BY DEF Lines, Line
<1>5. Dated = InHours(history) /\ Dated' = Dated
  BY <1>2 DEF Dated, Accepted, InHours, Members
<1>6. /\ \A v : Line(v)' = Line(v)
      /\ Last(history)' = Last(history)
      /\ \A q : BeginsElsewhere(q)' = BeginsElsewhere(q)
  BY <1>2, <1>5 DEF Line, BeginsElsewhere
<1>7. CASE request.controller = "last"
  <2>1. answer.values = {Last(history)}
    BY <1>3, <1>7 DEF ReadLeft
  <2> DEFINE last == Last(history)
  <2>2. response'.values = {Line(last)}
    <3> HIDE DEF last
    <3>1. Lines({last}) = {Line(last)}
      BY <1>4
    <3> QED
      BY <1>1, <2>1, <3>1 DEF last
  <2> QED
    BY <1>1, <1>2, <1>7, <2>2 DEF ReadAnswered, Answered, Line
<1>8. CASE request.controller = "read"
  <2> DEFINE q     == request.query
             asked == {v \in Dated : AskedFor(q, v.time)}
             told  == response'.values
  <2>1. \/ told = {Line(v) : v \in asked}
        \/ told = {} /\ BeginsElsewhere(q)
    <3>1. answer.values = asked \/ (answer.values = {} /\ BeginsElsewhere(q))
      BY <1>3, <1>5, <1>8 DEF ReadLeft
    <3>2. Lines(asked) = {Line(v) : v \in asked} /\ Lines({}) = {} /\ told = Lines(answer.values)
      BY <1>1, <1>4
    <3> HIDE DEF asked, told, q
    <3> QED
      BY <3>1, <3>2
  <2>2. ASSUME NEW u \in Dated, NEW v \in Dated, Line(u) = Line(v)
        PROVE  u = v
    <3>1. PICK k \in 1 .. Len(history) : u = history[k]
      BY <1>5, <2>2 DEF InHours, Members
    <3>2. PICK l \in 1 .. Len(history) : v = history[l]
      BY <1>5, <2>2 DEF InHours, Members
    <3>3. u.value = v.value
      BY <2>2 DEF Line
    <3> QED
      BY <3>1, <3>2, <3>3 DEF RecordInv
  <2>3. ASSUME NEW v \in Dated, v.time \notin Summer, told = {Line(u) : u \in asked}
        PROVE  Line(v) \in told <=> AskedFor(q, Line(v).wall)
    <3>1. Line(v).wall = v.time
      BY <2>3 DEF Line, ToString
    <3>2. AskedFor(q, v.time) => Line(v) \in told
      BY <2>3
    <3>3. ASSUME Line(v) \in told PROVE AskedFor(q, v.time)
      <4>1. PICK u \in asked : Line(v) = Line(u)
        <5> HIDE DEF asked, told
        <5> QED
          BY <2>3, <3>3
      <4>2. u = v
        BY <2>2, <4>1
      <4> QED
        BY <4>1, <4>2
    <3> QED
      BY <3>1, <3>2, <3>3
  <2>4. \/ /\ told \subseteq {Line(v) : v \in Dated}
           /\ \A v \in Dated : v.time \notin Summer =>
                (Line(v) \in told <=> AskedFor(q, Line(v).wall))
        \/ told = {} /\ BeginsElsewhere(q)
    <3>1. told = {Line(v) : v \in asked} => told \subseteq {Line(v) : v \in Dated}
      OBVIOUS
    <3> HIDE DEF told, asked, q
    <3> QED
      BY <2>1, <2>3, <3>1
  <2>5. ~("read" = "last")
    OBVIOUS
  <2> QED
    BY <1>1, <1>5, <1>6, <1>8, <2>4, <2>5 DEF ReadAnswered, Answered
<1> QED
  BY <1>7, <1>8

LEMMA AnswersStore ==
  ASSUME WalkInv, StoredInv, RecordInv, Welcome \/ RefuseQuery \/ SensorsList \/ Respond
  PROVE  StoredInv'
<1>1. CASE Welcome
  <2>1. /\ request.controller = "welcome" /\ Send(200, "", {})
        /\ UNCHANGED vars /\ lastErrors' = lastErrors
    BY <1>1 DEF Welcome
  <2>2. call = Idle
    BY <2>1 DEF WalkInv
  <2>3. ReadAnswered' /\ FailureTold'
    <3>1. request.controller \notin {"read", "last"}
      BY <2>1
    <3> DEFINE sent == 200
    <3>2. Send(sent, "", {}) /\ ~(sent = 404)
      BY <2>1, StatusesDiffer
    <3> HIDE DEF sent
    <3> QED
      BY <3>1, <3>2, OtherTold
  <2> QED
    BY <2>1, <2>2, <2>3, SentStores
<1>2. CASE RefuseQuery
  <2>1. LacksStart /\ Send(500, "", {}) /\ UNCHANGED vars /\ lastErrors' = lastErrors
    BY <1>2 DEF RefuseQuery
  <2>2. call = Idle /\ request.controller = "read"
    BY <2>1 DEF WalkInv, LacksStart
  <2>3. ReadAnswered' /\ FailureTold'
    <3> DEFINE sent == 500
    <3>1. Send(sent, "", {}) /\ ~(sent = 200) /\ ~(sent = 404)
      BY <2>1, StatusesDiffer
    <3> HIDE DEF sent
    <3> QED
      BY <2>2, <3>1, OtherTold
  <2> QED
    BY <2>1, <2>2, <2>3, SentStores
<1>3. CASE SensorsList
  <2>1. /\ IsList /\ UNCHANGED vars /\ lastErrors' = lastErrors
        /\ Send(404, "", {}) \/ Send(200, "", {})
    BY <1>3 DEF SensorsList
  <2>2. call = Idle /\ request.controller = "read" /\ request.sensor = ""
    BY <2>1 DEF WalkInv, IsList
  <2>3. ReadAnswered' /\ FailureTold'
    BY <2>1, <2>2, OtherTold
  <2> QED
    BY <2>1, <2>2, <2>3, SentStores
<1>4. CASE Respond
  <2> DEFINE told == lastErrors[request.folder]
             body == IF Resampled THEN AverageLines ELSE Lines(answer.values)
  <2>1. /\ request.called /\ call = Idle /\ UNCHANGED vars /\ lastErrors' = lastErrors
        /\ \/ ~answer.ok /\ Send(404, told, {})
           \/ answer.ok /\ request.controller = "write" /\ Send(200, "", {})
           \/ answer.ok /\ request.controller # "write" /\ Send(200, "", body)
    BY <1>4, StatusSent
  <2>2. request.controller \in {"read", "last", "write"}
    BY <2>1 DEF WalkInv
  <2>3. CASE ~answer.ok /\ Send(404, told, {})
    <3> HIDE DEF told
    <3>1. response'.status = 404 /\ response'.error = told
      BY <2>3, SentFields
    <3>2. answer.error # "" /\ told = answer.error /\ answer' = answer
      BY <2>1, <2>3 DEF StoredInv, FailureLeft, told, vars
    <3>3. FailureTold'
      BY <3>1, <3>2 DEF FailureTold
    <3>4. ~(response'.status = 200)
      BY <3>1, StatusesDiffer
    <3>5. ReadAnswered'
      BY <3>4, Zenon DEF ReadAnswered
    <3> QED
      BY <2>1, <2>3, <3>3, <3>5, SentStores
  <2>4. CASE answer.ok /\ request.controller = "write" /\ Send(200, "", {})
    <3>1. ReadAnswered' /\ FailureTold'
      <4>1. request.controller \notin {"read", "last"}
        BY <2>4
      <4> DEFINE sent == 200
      <4>2. Send(sent, "", {}) /\ ~(sent = 404)
        BY <2>4, StatusesDiffer
      <4> HIDE DEF sent
      <4> QED
        BY <4>1, <4>2, OtherTold
    <3> QED
      BY <2>1, <2>4, <3>1, SentStores
  <2>5. CASE answer.ok /\ request.controller # "write" /\ Send(200, "", body)
    <3>1. response'.status = 200 /\ response'.to = request
      <4> HIDE DEF body
      <4> QED
        BY <2>5, SentFields
    <3>4. ~(response'.status = 404)
      BY <3>1, StatusesDiffer
    <3>2. FailureTold'
      BY <3>4, Zenon DEF FailureTold
    <3>3. ReadAnswered'
      <4>1. CASE Resampled
        <5>1. request.query.interval > 0 /\ answer.call.op = "ReadRange"
          BY <4>1 DEF Resampled
        <5>2. request.controller # "last"
          BY <2>1, <2>5, <5>1 DEF StoredInv, ReadLeft
        <5>3. ~(request.query.interval = 0)
          BY <5>1
        <5> QED
          BY <3>1, <5>2, <5>3, Zenon DEF ReadAnswered, Answered
      <4>2. CASE ~Resampled
        BY <2>1, <2>2, <2>5, <4>2, LinesTold
      <4> QED
        BY <4>1, <4>2
    <3> HIDE DEF body
    <3> QED
      BY <2>1, <2>5, <3>2, <3>3, SentStores
  <2> QED
    BY <2>1, <2>3, <2>4, <2>5
<1> QED
  BY <1>1, <1>2, <1>3, <1>4

(* getFilesInfo lets the call through, or refuses it and tells why.          *)
LEMMA StoreTells ==
  ASSUME NEW c, UseOpenFiles(c) \/ OpenFiles(c) \/ OpenFilesFails(c) \/ NoFile(c) \/ CreateFiles(c)
  PROVE  \/ call' = c
         \/ call' = Idle /\ ~answer'.ok /\ answer'.error # ""
<1>1. ASSUME NEW error, Refuse(c, error), error # ""
      PROVE  call' = Idle /\ ~answer'.ok /\ answer'.error # ""
  <2>1. answer' = Answer(c, FALSE, error, {}) /\ call' = Idle
    BY <1>1 DEF Refuse
  <2>2. answer'.ok = FALSE /\ answer'.error = error
    BY <2>1 DEF Answer
  <2> QED
    BY <1>1, <2>1, <2>2
<1>2. ASSUME NEW type, CheckType(c, type)
      PROVE  Admit(c) \/ Refuse(c, "MISMATCH")
  BY <1>2 DEF CheckType
<1>3. VerifyLastIndex \in {"OPEN_COR1", "OPEN_COR2", "OK"}
  BY DEF VerifyLastIndex
<1>4. "MISMATCH" # "" /\ "NOFILE" # "" /\ VerifyLastIndex # ""
  BY <1>3
<1>5. CASE UseOpenFiles(c) \/ OpenFiles(c)
  <2>1. Admit(c) \/ Refuse(c, "MISMATCH")
    BY <1>2, <1>5 DEF UseOpenFiles, OpenFiles
  <2> QED
    BY <1>1, <1>4, <2>1 DEF Admit
<1>6. CASE OpenFilesFails(c)
  <2>1. Refuse(c, VerifyLastIndex)
    BY <1>6 DEF OpenFilesFails
  <2> QED
    BY <1>1, <1>4, <2>1
<1>7. CASE NoFile(c)
  <2>1. Refuse(c, "NOFILE")
    BY <1>7 DEF NoFile
  <2> QED
    BY <1>1, <1>4, <2>1
<1>8. CASE CreateFiles(c)
  BY <1>8 DEF CreateFiles, Admit
<1> QED
  BY <1>5, <1>6, <1>7, <1>8

(* The files that were there hold the one value of the history.              *)
LEMMA IntFileLogged ==
  LogInv(IntCells, <<Entry(1, 1)>>, <<[time |-> HourSecs, value |-> 1]>>)
<1> DEFINE idx == <<Entry(1, 1)>>
           v   == [time |-> HourSecs, value |-> 1]
           h   == <<v>>
           c   == IntCells
<1>1. /\ c \in Seq(Cell) /\ Len(c) = 3 /\ c[1].kind = "header"
      /\ c[2] = HourCell(1) /\ c[2].kind = "hour" /\ c[2].hour = 1
      /\ c[3].kind = "value" /\ c[3].offset = 0 /\ c[3].value = 1
  BY IntCellsFacts
<1>2. Len(idx) = 1 /\ idx # <<>> /\ idx[1].hour = 1 /\ idx[1].pos = 1 /\ idx \in Seq(EntryType)
  BY IntIndexFacts
<1>3. v.time = HourSecs /\ v.value = 1
  OBVIOUS
<1> HIDE DEF idx, v, c
<1>4. h # <<>> /\ Len(h) = 1 /\ h[1] = v /\ Last(h) = v
  BY DEF Last
<1> HIDE DEF h
<1>5. /\ \A i \in 1 .. Len(c) : IsHour(c, i) => i = 2
      /\ \A i \in 1 .. Len(c) : IsValue(c, i) => i = 3
      /\ IsHour(c, 2) /\ IsValue(c, 3)
  <2>1. \A i \in 1 .. Len(c) : i = 1 \/ i = 2 \/ i = 3
    BY <1>1
  <2> QED
    BY <1>1, <2>1 DEF IsHour, IsValue
<1>6. Placed(c, idx)
  <2>1. \A k \in 1 .. Len(idx) : k = 1
    BY <1>2
  <2>2. idx[1].pos \in 1 .. Len(c) - 1 /\ c[idx[1].pos + 1] = HourCell(idx[1].hour)
    BY <1>1, <1>2
  <2>3. idx[1].pos + 1 = 2 /\ 1 \in 1 .. Len(idx)
    BY <1>2
  <2> QED
    BY <1>5, <2>1, <2>2, <2>3 DEF Placed
<1>7. HourAt(c, 3) = 1
  <2>1. 3 \in 1 .. Len(c) /\ 2 \in 1 .. 3
    BY <1>1
  <2>2. PICK j \in 2 .. 3 : IsHour(c, j) /\ HourAt(c, 3) = c[j].hour
    BY <1>1, <1>5, <2>1, HourFrom
  <2>3. j = 2
    BY <1>1, <1>5, <2>2
  <2> QED
    BY <1>1, <2>2, <2>3
<1>8. Stamped(c, 3) = v
  <2>1. ToTimeT(1, 0) = HourSecs
    BY ServerNumbers DEF ToTimeT
  <2> QED
    BY <1>1, <1>7, <2>1 DEF Stamped, TimeAt, v
<1>9. EndsOpen(c, idx, h)
  <2>1. Last(idx).pos = 1
    BY <1>2 DEF Last
  <2> QED
    BY <1>1, <1>4, <1>5, <1>8, <2>1 DEF EndsOpen
<1>10. DatedCells(c) = {3}
  BY <1>1, <1>5 DEF DatedCells
<1>11. DatedValues(c) = {v}
  BY <1>8, <1>10 DEF DatedValues
<1>12. InHours(h) = {v}
  <2>1. Members(h) = {v}
    BY <1>4 DEF Members
  <2> QED
    BY <1>3, <2>1, ServerNumbers DEF InHours
<1>13. \A i \in DatedCells(c) : c[i].offset < HourSecs
  BY <1>1, <1>10, ServerNumbers
<1>14. c # <<>>
  BY DEF c, IntCells
<1> QED
  BY <1>1, <1>6, <1>9, <1>11, <1>12, <1>13, <1>14 DEF LogInv, idx, h, c, v

LEMMA HeaderLogged ==
  ASSUME NEW type \in ValueTypes
  PROVE  LogInv(<<HeaderCell(type)>>, <<>>, <<>>)
<1> DEFINE x == HeaderCell(type)
           c == <<x>>
<1>1. x.kind = "header"
  BY DEF HeaderCell
<1> HIDE DEF x
<1>2. Len(c) = 1 /\ c[1] = x /\ c # <<>>
  OBVIOUS
<1> HIDE DEF c
<1>3. \A i \in 1 .. Len(c) : ~IsHour(c, i) /\ ~IsValue(c, i)
  BY <1>1, <1>2 DEF IsHour, IsValue
<1>4. DatedCells(c) = {}
  BY <1>3 DEF DatedCells
<1>5. DatedValues(c) = {}
  BY <1>4 DEF DatedValues
<1>6. InHours(<<>>) = {}
  BY DEF InHours, Members
<1>7. Placed(c, <<>>)
  BY <1>3 DEF Placed
<1>8. EndsOpen(c, <<>>, <<>>)
  BY DEF EndsOpen
<1> QED
  BY <1>1, <1>2, <1>4, <1>5, <1>6, <1>7, <1>8 DEF LogInv, c, x

LEMMA FoundStored ==
  ASSUME WalkInv, ClockedInv, ~IsOpen, NEW c, OpenFiles(c), UNCHANGED <<now, history>>
  PROVE  OpenedInv'
<1>1. Untouched /\ now \in Nat /\ HourSecs <= now
  BY DEF ClockedInv, WalkInv
<1>2. /\ data = IntFile /\ index = <<Entry(1, 1)>>
      /\ history = <<[time |-> HourSecs, value |-> 1]>>
      /\ data' = SeekEnd(Open(data)) /\ index' = index
      /\ info' = FilesInfo("Int", ToTimeT(1, 0), 1, 1, 0, 1)
  BY <1>1, FoundOpened
<1>3. index \in Seq(EntryType) /\ Len(index) = 1 /\ index # <<>> /\ index[1].hour = 1
  BY <1>2, IntIndexFacts
<1>4. data' \in StreamType(Cell) /\ AtEnd(data') /\ Contents(data') = IntCells
  <2>1. Open(IntFile) \in StreamType(Cell) /\ Contents(Open(IntFile)) = IntCells
    BY IntFileFacts, OpenFacts
  <2> QED
    BY <1>2, <2>1, SeekEndFacts
<1>5. LogInv(Contents(data'), index', history')
  BY <1>2, <1>4, IntFileLogged
<1>6. Last(index).hour = 1 /\ ToTimeT(1, 0) = HourSecs
  BY <1>3, ServerNumbers DEF Last, ToTimeT
<1>7. IndexShape(index', now')
  BY <1>1, <1>2, <1>3, <1>6, ServerNumbers DEF IndexShape, Ascending
<1>8. InfoAgrees(info', index')
  <2>1. /\ info'.type = "Int" /\ info'.startHour = ToTimeT(1, 0) /\ info'.minHour = 1
        /\ info'.maxHour = 1 /\ info'.indexSize = 1
    BY <1>2, InfoFields
  <2>2. "Int" \in ValueTypes
    BY DEF ValueTypes
  <2> QED
    BY <1>2, <1>3, <1>6, <2>1, <2>2 DEF InfoAgrees
<1>9. history' # <<>>
  BY <1>2
<1> QED
  BY <1>2, <1>3, <1>4, <1>5, <1>7, <1>8, <1>9 DEF OpenedInv

LEMMA CreatedStored ==
  ASSUME WalkInv, ClockedInv, NEW c, CreateFiles(c), TypeOf(c) \in ValueTypes, c # Idle,
         UNCHANGED <<now, history>>, request'.controller = "write"
  PROVE  OpenedInv' /\ index' = <<>> /\ history' = <<>>
<1> DEFINE type == TypeOf(c)
           x    == HeaderCell(type)
           o    == Open(Absent)
<1>1. /\ ~IsOpen /\ ~FileExists(data) /\ data' = Put(Open(data), x) /\ index' = <<>>
      /\ info' = FilesInfo(type, 0, 0, 0, 0, 0) /\ call' = c
  BY DEF CreateFiles, Admit
<1>2. data = Absent /\ history = <<>>
  BY <1>1, IntFileFacts DEF ClockedInv, Untouched, FileExists
<1> HIDE DEF type
<1>3. x \in Cell /\ Absent \in StreamType(Cell) /\ Absent.cells = <<>> /\ Contents(Absent) = <<>>
  <2>1. Absent.cells = <<>>
    BY DEF Absent, Stream
  <2> QED
    BY <2>1, CellsMade, AbsentFacts DEF type
<1>4. o \in StreamType(Cell) /\ Contents(o) = <<>> /\ AtEnd(o)
  BY <1>3, OpenFacts
<1> HIDE DEF x, o
<1>5. data' \in StreamType(Cell) /\ AtEnd(data') /\ Contents(data') = Append(<<>>, x)
  BY <1>1, <1>2, <1>3, <1>4, PutFacts DEF o
<1>6. Append(<<>>, x) = <<x>>
  OBVIOUS
<1>7. LogInv(Contents(data'), index', history')
  BY <1>1, <1>2, <1>5, <1>6, HeaderLogged DEF x, type
<1>8. InfoAgrees(info', index')
  <2>1. /\ info'.type = type /\ info'.startHour = 0 /\ info'.minHour = 0
        /\ info'.maxHour = 0 /\ info'.indexSize = 0
    BY <1>1, InfoFields
  <2> QED
    BY <1>1, <2>1 DEF InfoAgrees, type
<1>9. index' \in Seq(EntryType) /\ IndexShape(index', now')
  BY <1>1 DEF IndexShape, Ascending
<1> QED
  BY <1>1, <1>2, <1>5, <1>7, <1>8, <1>9 DEF OpenedInv

LEMMA TypesCalled ==
  ASSUME request.controller \in {"read", "last", "write"}
  PROVE  /\ request.controller = "write" => TypeOf(ControllerCall) = "Float"
         /\ request.controller # "write" => TypeOf(ControllerCall) = "Undefined"
<1>1. ASSUME NEW q
      PROVE  /\ WriteCall(q).op \in {"WriteValue", "WriteOldValue"} /\ WriteCall(q).type = "Float"
             /\ ReadCall(q).op \in {"ReadHour", "ReadRange"}
  BY DEF WriteCall, ReadCall
<1>2. CASE request.controller = "write"
  <2>1. ControllerCall = WriteCall(request.query)
    BY <1>2, ToCallCalls
  <2> QED
    BY <1>1, <1>2, <2>1 DEF TypeOf
<1>3. CASE request.controller = "last"
  <2>1. ControllerCall.op = "ReadLastValue"
    BY <1>3, ToCallCalls
  <2> QED
    BY <1>3, <2>1 DEF TypeOf
<1>4. CASE request.controller = "read"
  <2>1. ControllerCall = ReadCall(request.query)
    BY <1>4, ToCallCalls
  <2>2. ControllerCall.op \in {"ReadHour", "ReadRange"}
    BY <1>1, <2>1
  <2> QED
    BY <1>4, <2>2 DEF TypeOf
<1> QED
  BY <1>2, <1>3, <1>4

LEMMA CallStoreStores ==
  ASSUME WalkInv, ClockedInv, StoredInv, CallStore
  PROVE  StoredInv'
<1> DEFINE c == ControllerCall
<1>1. /\ ToCall /\ request.folder = "db" /\ call = Idle
      /\ UseOpenFiles(c) \/ OpenFiles(c) \/ OpenFilesFails(c) \/ NoFile(c) \/ CreateFiles(c)
      /\ request' = [request EXCEPT !.called = TRUE]
      /\ SetLastError("db", answer'.error)
      /\ now' = now /\ history' = history /\ response' = response
  BY DEF CallStore
<1>2. /\ request'.called
      /\ request'.controller = request.controller /\ request'.folder = request.folder
      /\ request'.sensor = request.sensor /\ request'.query = request.query
  BY <1>1, RequestCalled DEF WalkInv
<1>3. /\ c # Idle /\ request.controller \in {"read", "last", "write"}
      /\ request.controller = "write" => TypeOf(c) = "Float"
      /\ request.controller # "write" => TypeOf(c) = "Undefined"
  BY <1>1, ToCallCalls, TypesCalled DEF ToCall
<1>4. \/ call' = c
      \/ call' = Idle /\ ~answer'.ok /\ answer'.error # ""
  BY <1>1, StoreTells
<1>5. ~request.called /\ response.status = 0
  BY <1>1, NoRequestFields DEF ToCall, WalkInv
<1> HIDE DEF c
<1>6. ReadAnswered' /\ FailureTold'
  BY <1>1, <1>5, NothingTold
<1>7. /\ DOMAIN lastErrors = Folders /\ "db" \in Folders
      /\ \A k \in 1 .. Len(history) : history[k].time <= now
      /\ request.controller \in {"read", "last"} => Asked
      /\ IsOpen => OpenedInv /\ history # <<>>
  BY <1>1, <1>5 DEF StoredInv, Folders, Pending, OpenedInv
<1>8. DOMAIN lastErrors' = Folders /\ (answer'.error # "" => lastErrors'["db"] = answer'.error)
  BY <1>1, <1>7, ErrorKept
<1>9. call' = Idle => ~answer'.ok /\ FailureLeft'
  BY <1>1, <1>2, <1>3, <1>4, <1>8 DEF FailureLeft
<1>10. NoInfo' = NoInfo
  BY DEF NoInfo, FilesInfo
<1>11. SUFFICES /\ IsOpen' => OpenedInv'
                /\ index' = index \/ request.controller = "write"
  <2>1. request'.controller \in {"read", "last"} => Asked'
    BY <1>1, <1>2, <1>7, <1>11 DEF Asked, IsList, LacksStart
  <2> QED
    BY <1>1, <1>2, <1>6, <1>7, <1>8, <1>9, <1>11, <2>1 DEF StoredInv
<1>12. CASE UseOpenFiles(c)
  BY <1>1, <1>7, <1>10, <1>12 DEF UseOpenFiles, IsOpen, OpenedInv
<1>13. CASE OpenFilesFails(c) \/ NoFile(c)
  <2>1. ~IsOpen /\ UNCHANGED <<data, index, info>>
    BY <1>13 DEF OpenFilesFails, NoFile
  <2> QED
    BY <1>10, <2>1 DEF IsOpen
<1>14. CASE OpenFiles(c)
  <2>1. ~IsOpen /\ index' = index
    BY <1>14 DEF OpenFiles
  <2> QED
    BY <1>1, <1>14, <2>1, FoundStored
<1>15. CASE CreateFiles(c)
  <2>1. TypeOf(c) # "Undefined"
    BY <1>15 DEF CreateFiles
  <2>2. request.controller = "write" /\ TypeOf(c) \in ValueTypes
    BY <1>3, <2>1 DEF ValueTypes
  <2> QED
    BY <1>1, <1>2, <1>3, <1>15, <2>2, CreatedStored
<1> QED
  BY <1>1, <1>12, <1>13, <1>14, <1>15 DEF c

LEMMA CallNowhereStores ==
  ASSUME WalkInv, ClockedInv, StoredInv, CallNowhere
  PROVE  StoredInv'
<1> DEFINE code == IF request.controller = "write" THEN "CREATE_DAT1" ELSE "NOFILE"
<1>1. /\ ToCall /\ request.folder = "none"
      /\ answer' = Answer(ControllerCall, FALSE, code, {}) /\ SetLastError("none", code)
      /\ request' = [request EXCEPT !.called = TRUE]
      /\ UNCHANGED <<now, data, index, info, call, history, response>>
  BY DEF CallNowhere
<1>2. /\ request'.called
      /\ request'.controller = request.controller /\ request'.folder = request.folder
  BY <1>1, RequestCalled DEF WalkInv
<1>3. code # ""
  OBVIOUS
<1> HIDE DEF code
<1>4. answer'.ok = FALSE /\ answer'.error = code
  BY <1>1 DEF Answer
<1>5. ~request.called /\ response.status = 0 /\ call = Idle
  BY <1>1, NoRequestFields DEF ToCall, WalkInv
<1>6. ReadAnswered' /\ FailureTold'
  BY <1>1, <1>5, NothingTold
<1>7. /\ DOMAIN lastErrors = Folders /\ "none" \in Folders
      /\ \A k \in 1 .. Len(history) : history[k].time <= now
      /\ IsOpen => OpenedInv /\ history # <<>>
  BY <1>5 DEF StoredInv, Folders, OpenedInv
<1>8. DOMAIN lastErrors' = Folders /\ lastErrors'["none"] = code
  BY <1>1, <1>3, <1>7, ErrorKept
<1>9. FailureLeft'
  BY <1>1, <1>2, <1>3, <1>4, <1>8 DEF FailureLeft
<1>10. IsOpen' => OpenedInv'
  <2>1. IsOpen' <=> IsOpen
    BY <1>1 DEF IsOpen, NoInfo, FilesInfo
  <2> QED
    BY <1>1, <1>7, <2>1 DEF OpenedInv
<1>11. ~Pending'
  BY <1>1, <1>2, <1>5 DEF Pending
<1> QED
  BY <1>1, <1>4, <1>6, <1>7, <1>8, <1>9, <1>10, <1>11 DEF StoredInv

LEMMA ClockStores ==
  ASSUME WalkInv, ClockedInv, StoredInv, Clock \/ UNCHANGED serverVars
  PROVE  StoredInv'
<1>1. /\ now' = now \/ now' = now + 1
      /\ UNCHANGED <<data, index, info, call, answer, history, instances, lastErrors,
                     request, response>>
  BY DEF Clock, Tick, vars, serverVars
<1>2. now \in Nat /\ now' \in Nat /\ now <= now'
  BY <1>1 DEF WalkInv
<1>3. /\ IsOpen' <=> IsOpen
      /\ Pending' <=> Pending
      /\ Asked' <=> Asked
      /\ ReadLeft' <=> ReadLeft
      /\ FailureLeft' <=> FailureLeft
  BY <1>1
  DEF IsOpen, NoInfo, FilesInfo, Pending, Asked, IsList, LacksStart, ReadLeft, Members,
      InHours, BeginsElsewhere, Dated, Accepted, FailureLeft
<1>4. ReadAnswered' /\ FailureTold'
  <2>1. Dated' = Dated
    BY <1>1 DEF Dated, Accepted
  <2>2. \A q : BeginsElsewhere(q)' <=> BeginsElsewhere(q)
    BY <2>1 DEF BeginsElsewhere
  <2>3. /\ ReadAnswered' <=> ReadAnswered
        /\ FailureTold' <=> FailureTold
    BY <1>1, <2>1, <2>2 DEF ReadAnswered, FailureTold, Answered, Line
  <2> QED
    BY <2>3 DEF StoredInv
<1>5. \A k \in 1 .. Len(history) : history[k].time <= now'
  <2> SUFFICES ASSUME NEW k \in 1 .. Len(history) PROVE history[k].time <= now'
    OBVIOUS
  <2>1. history[k].time \in Int /\ history[k].time <= now
    BY TimesAreInts DEF WalkInv, StoredInv
  <2> QED
    BY <1>2, <2>1
<1>6. IsOpen => OpenedInv'
  <2> SUFFICES ASSUME IsOpen PROVE OpenedInv'
    OBVIOUS
  <2>1. OpenedInv
    BY DEF StoredInv
  <2>2. IndexShape(index, now')
    <3>1. IndexShape(index, now) /\ index \in Seq(EntryType)
      BY <2>1 DEF OpenedInv
    <3>2. index # <<>> => Last(index).hour \in Nat
      BY <3>1, EntryFields DEF Last
    <3>3. index # <<>> => ToTimeT(Last(index).hour, 0) \in Nat
      BY <3>2, TimeTyped
    <3> QED
      BY <1>2, <3>1, <3>3 DEF IndexShape
  <2> QED
    BY <1>1, <2>1, <2>2 DEF OpenedInv
<1> QED
  BY <1>1, <1>3, <1>4, <1>5, <1>6 DEF StoredInv

LEMMA StepStores ==
  ASSUME NegativesWrap, ~HistoryReads, WalkInv, ClockedInv, StoredInv, RecordInv,
         [ServerNext]_serverVars
  PROVE  StoredInv'
  BY ReceiveStores, AnswersStore, CallStoreStores, CallNowhereStores, RunBodyStores, ClockStores
  DEF ServerNext, Handle

(* A value that is added takes the next number, and the hour of the first    *)
(* entry keeps its values.                                                   *)
LEMMA RecordAdded ==
  ASSUME RecordInv, history \in Seq(ServerValue), index \in Seq(EntryType),
         NEW time \in Int, NextValue \in Nat,
         history' = Append(history, [time |-> time, value |-> NextValue]),
         \/ index' = index
         \/ \E pos : HourSecs <= time /\ index' = Append(index, Entry(FromTimeT(time), pos))
  PROVE  RecordInv'
<1> DEFINE v == [time |-> time, value |-> NextValue]
<1>1. v \in ServerValue /\ v.time = time /\ v.value = Len(history) + 1 /\ Len(history) \in Nat
  BY DEF ServerValue, NextValue
<1> HIDE DEF v
<1>2. history' = Append(history, v)
  BY DEF v
<1>3. \A k \in 1 .. Len(history') : history'[k].value = k
  <2>1. /\ Len(history') = Len(history) + 1 /\ history'[Len(history) + 1] = v
        /\ \A k \in 1 .. Len(history) : history'[k] = history[k]
    BY <1>1, <1>2
  <2>2. \A k \in 1 .. Len(history') : k \in 1 .. Len(history) \/ k = Len(history) + 1
    BY <1>1, <2>1
  <2> QED
    BY <1>1, <2>1, <2>2 DEF RecordInv
<1>4. /\ \A u \in InHours(history) : u \in InHours(history')
      /\ HourSecs <= time => v \in InHours(history')
  <2>1. HourSecs \in Nat
    BY ServerNumbers
  <2> QED
    BY <1>1, <1>2, <2>1, InHoursAppend
<1>5. index' # <<>> => \E u \in InHours(history') : FromTimeT(u.time) = index'[1].hour
  <2>1. CASE index' = index
    BY <1>4, <2>1 DEF RecordInv
  <2>2. ASSUME NEW pos, HourSecs <= time, index' = Append(index, Entry(FromTimeT(time), pos))
        PROVE  \E u \in InHours(history') : FromTimeT(u.time) = index'[1].hour
    <3>1. CASE index = <<>>
      <4>1. index'[1].hour = FromTimeT(time)
        BY <2>2, <3>1 DEF Entry
      <4> QED
        BY <1>1, <1>4, <2>2, <4>1
    <3>2. CASE index # <<>>
      <4>1. index'[1] = index[1]
        BY <2>2, <3>2
      <4> QED
        BY <1>4, <3>2, <4>1 DEF RecordInv
    <3> QED
      BY <3>1, <3>2
  <2> QED
    BY <2>1, <2>2
<1>6. InHours(history)' = InHours(history')
  BY DEF InHours, Members
<1> QED
  BY <1>3, <1>5, <1>6 DEF RecordInv

LEMMA StepRecords ==
  ASSUME NegativesWrap, WalkInv, ClockedInv, StoredInv, RecordInv, [ServerNext]_serverVars
  PROVE  RecordInv'
<1>1. ASSUME history' = history, index' = index \/ index' = <<>>
      PROVE  RecordInv'
  BY <1>1 DEF RecordInv, InHours, Members
<1>2. CASE RunBody
  <2>1. CASE ReadHour \/ ReadRange \/ ReadLastValue
    BY <1>1, <2>1, ReadsReturn
  <2>2. CASE WriteNow \/ WriteOldInTime \/ WriteBeforeTime
    <3>1. /\ call # Idle
          /\ RefusedWrite \/ (\E time \in Nat : TimedWrite(time)) \/ \E time \in Int : EarlyWrite(time)
      BY <2>2, WritesReach
    <3>2. IsOpen
      BY <3>1 DEF ClockedInv, WalkInv
    <3>3. history \in Seq(ServerValue) /\ index \in Seq(EntryType) /\ NextValue \in Nat
      BY <3>2, StoredFacts
    <3>4. CASE RefusedWrite
      BY <1>1, <3>4 DEF RefusedWrite
    <3>5. ASSUME NEW time \in Nat, TimedWrite(time) PROVE RecordInv'
      <4>1. /\ history' = Append(history, [time |-> time, value |-> NextValue])
            /\ HourSecs <= time
            /\ WriteInNewHour(time) \/ WriteInHour(time)
        BY <3>5 DEF TimedWrite, WriteTimeValue
      <4>3. time \in Int
        OBVIOUS
      <4>2. \/ index' = index
            \/ \E pos : index' = Append(index, Entry(FromTimeT(time), pos))
        BY <4>1 DEF WriteInNewHour, WriteInHour
      <4> QED
        BY <3>3, <4>1, <4>2, <4>3, RecordAdded
    <3>6. ASSUME NEW time \in Int, EarlyWrite(time) PROVE RecordInv'
      BY <3>3, <3>6, RecordAdded DEF EarlyWrite
    <3> QED
      BY <3>1, <3>4, <3>5, <3>6
  <2> QED
    BY <1>2, <2>1, <2>2 DEF RunBody
<1>3. CASE CallStore
  <2> DEFINE c == ControllerCall
  <2>1. /\ history' = history
        /\ UseOpenFiles(c) \/ OpenFiles(c) \/ OpenFilesFails(c) \/ NoFile(c) \/ CreateFiles(c)
    BY <1>3 DEF CallStore
  <2> HIDE DEF c
  <2>2. index' = index \/ index' = <<>>
    BY <2>1 DEF UseOpenFiles, OpenFiles, OpenFilesFails, NoFile, CreateFiles
  <2> QED
    BY <1>1, <2>1, <2>2
<1>4. CASE Receive \/ Welcome \/ RefuseQuery \/ SensorsList \/ CallNowhere \/ Respond
           \/ Clock \/ UNCHANGED serverVars
  <2>1. history' = history /\ index' = index
    BY <1>4 DEF Receive, Welcome, RefuseQuery, SensorsList, CallNowhere, Respond, Clock, Tick,
                vars, serverVars
  <2> QED
    BY <1>1, <2>1
<1> QED
  BY <1>2, <1>3, <1>4 DEF ServerNext, Handle

LEMMA InitRecorded ==
  ASSUME ServerInit
  PROVE  RecordInv
<1>1. CASE history = <<>> /\ index = <<>>
  BY <1>1 DEF RecordInv
<1>2. CASE history = <<[time |-> HourSecs, value |-> 1]>> /\ index = <<Entry(1, 1)>>
  <2> DEFINE v == [time |-> HourSecs, value |-> 1]
  <2>1. /\ v.time = HourSecs /\ v.value = 1
        /\ HourSecs \in Nat \ {0}
    BY ServerNumbers
  <2>2. index[1].hour = 1 /\ FromTimeT(v.time) = 1
    BY <1>2, <2>1, IntIndexFacts DEF FromTimeT, Entry
  <2> HIDE DEF v
  <2>3. history = <<v>>
    BY <1>2 DEF v
  <2>4. v \in InHours(history)
    <3>1. 1 \in 1 .. Len(history) /\ history[1] = v
      BY <2>3
    <3> QED
      BY <2>1, <3>1 DEF InHours, Members
  <2> QED
    BY <2>1, <2>2, <2>3, <2>4 DEF RecordInv
<1> QED
  BY <1>1, <1>2 DEF ServerInit

LEMMA InitStored ==
  ASSUME ServerInit
  PROVE  StoredInv
<1>1. /\ now = HourSecs /\ info = NoInfo /\ request = NoRequest /\ response = NoResponse
      /\ lastErrors = [f \in Folders |-> ""]
  BY DEF ServerInit
<1>2. ~IsOpen /\ request.controller = "" /\ ~request.called
  BY <1>1, NoRequestFields DEF IsOpen
<1>3. DOMAIN lastErrors = Folders
  BY <1>1
<1>4. \A k \in 1 .. Len(history) : history[k].time <= now
  <2>1. CASE history = <<>>
    BY <2>1
  <2>2. CASE history = <<[time |-> HourSecs, value |-> 1]>>
    <3> DEFINE v == [time |-> HourSecs, value |-> 1]
    <3>1. v.time <= now
      <4>1. v.time = now /\ now \in Nat
        BY <1>1, ServerNumbers
      <4> QED
        BY <4>1
    <3>2. history = <<v>>
      BY <2>2
    <3> HIDE DEF v
    <3> QED
      BY <3>1, <3>2
  <2> QED
    BY <2>1, <2>2 DEF ServerInit
<1>5. response.status = 0
  BY <1>1 DEF NoResponse
<1>6. ReadAnswered /\ FailureTold
  <2>1. ~Answered("read") /\ ~Answered("last")
    BY <1>5 DEF Answered
  <2>2. ~(response.status = 404)
    BY <1>5
  <2> QED
    BY <2>1, <2>2 DEF ReadAnswered, FailureTold
<1> QED
  BY <1>2, <1>3, <1>4, <1>6 DEF StoredInv

(* The files of the sensor hold what the writes told the clients, and a read *)
(* in progress asks to their end.                                            *)
THEOREM StoredHolds ==
  ASSUME NegativesWrap, ~HistoryReads
  PROVE  ServerSpec => [](StoredInv /\ RecordInv)
<1>1. ServerInit => StoredInv /\ RecordInv
  BY InitStored, InitRecorded
<1>2. WalkInv /\ ClockedInv /\ (StoredInv /\ RecordInv) /\ [ServerNext]_serverVars
        => (StoredInv /\ RecordInv)'
  BY StepStores, StepRecords
<1> QED
  BY <1>1, <1>2, WalkHolds, ClockedHolds, PTL DEF ServerSpec

(* ReadController and LastController: as long as only reads to the end of    *)
(* the log are asked, every line told is a value of the sensor, and a value  *)
(* of the winter is told exactly when its time lies in the hour or the range *)
(* of the query; a range that begins in neither the first hour nor the last  *)
(* may be answered with nothing.                                             *)
THEOREM ReadTold ==
  ASSUME NegativesWrap, ~HistoryReads
  PROVE  ServerSpec => []ReadAnswered
<1>1. StoredInv /\ RecordInv => ReadAnswered
  BY DEF StoredInv
<1> QED
  BY <1>1, StoredHolds, PTL

(* GetLastError: every call of a controller that fails leaves the error it   *)
(* is answered with.                                                         *)
THEOREM RefusalsTold ==
  ASSUME NegativesWrap, ~HistoryReads
  PROVE  ServerSpec => []FailureTold
<1>1. StoredInv /\ RecordInv => FailureTold
  BY DEF StoredInv
<1> QED
  BY <1>1, StoredHolds, PTL
=============================================================================
