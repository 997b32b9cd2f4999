---------------------------- MODULE TsdbServer -----------------------------
(* The server of main.cpp: one thread that polls, the routes of main, the    *)
(* controllers, the LightTSDB instances LtsdbFactory keeps by folder, and    *)
(* under the folder "db" the sensor of SensorStore.  The folder "none" does  *)
(* not exist on the disk.                                                    *)
(*                                                                           *)
(* A request goes through the steps of its handler: the routes, the call of  *)
(* the controller (getFilesInfo, then the body), and the answer made of what *)
(* the call left.  Only the clock moves in between.                          *)
EXTENDS SensorStoreProps, WebRoutes
LOCAL Seqs == INSTANCE SequencesExt

CONSTANTS
  Uris,      \* the uris that are requested
  Walls,     \* the wall clocks of Start and End
  Intervals, \* the numbers of the Interval query parameter
  Offsets,   \* the numbers of the Offset query parameter, 0 when it is missing
  Summer,    \* the times of the summer, when wall clocks are one hour ahead
  Wrap       \* 2^32: the width of the offset of WriteOldValue

ASSUME ServerAssumption ==
  /\ Walls \subseteq Nat \ {0} /\ Intervals \subseteq Nat
  /\ Offsets \subseteq Int /\ Summer \subseteq Nat
  /\ Wrap \in Nat /\ MaxTime < Wrap
  /\ Names = {"BaseName", "SensorId"}

VARIABLES
  instances,  \* the folders of g_LtsdbMap
  lastErrors, \* m_LastError of each folder, for the one sensor: its code
  request,    \* the request in progress
  response    \* the answer to the last one

serverVars == <<vars, instances, lastErrors, request, response>>

Folders == {"db", "none"}

-----------------------------------------------------------------------------
(* TimeHelper.  ToString writes the wall clock of the place, ToTime reads it *)
(* as that of the winter: it leaves tm_isdst at 0.  The offset of the zone   *)
(* comes in and goes out again; it is left out.                              *)

ToString(time) == IF time \in Summer THEN time + HourSecs ELSE time

(* Mutant: the hour of the day counts from one.                              *)
ToTimeLate(wall) == wall + HourSecs

ToTime(wall) == wall

-----------------------------------------------------------------------------
(* The routes of main, and the walk of EventHandler over them.               *)

Slash(tokens) == <<Word("")>> \o tokens

Route(tokens, controller) == [parts |-> ParseRoute(tokens).parts, controller |-> controller]

MainRoutes ==
  <<Route(Slash(<<Word("read"), Braces("BaseName"), Brackets("SensorId")>>), "read"),
    Route(Slash(<<Word("lastvalue"), Braces("BaseName"), Braces("SensorId")>>), "last"),
    Route(Slash(<<Word("write"), Braces("BaseName"), Braces("SensorId")>>), "write"),
    Route(<<Star>>, "welcome")>>

Walk(uri) ==
  LET Step(w, route) ==
        IF w.controller # "" THEN w
        ELSE LET m == matchUrl(uri, w.params, route.parts)
             IN  [params |-> m.params,
                  controller |-> IF m.verdict = "match" THEN route.controller ELSE ""]
  IN  Seqs!FoldLeft(Step, [params |-> NoParameters, controller |-> ""], MainRoutes)

-----------------------------------------------------------------------------
(* Requests.  Start and End are wall clocks, 0 when they are missing.        *)

Query(start, end, interval, offset) ==
  [start |-> start, end |-> end, interval |-> interval, offset |-> offset]

NoQuery == Query(0, 0, 0, 0)

(* Reads that run to the end of the log, when only those are made.           *)
ToTheEnd(q) ==
  IF q.end = 0 THEN FromTimeT(ToTime(q.start)) >= FromTimeT(now) ELSE ToTime(q.end) >= now

HourQueries == {Query(start, 0, 0, 0) : start \in Walls}

RangeQueries == {Query(start, end, interval, 0) : start \in Walls, end \in Walls, interval \in Intervals}

(* The query parameters that count for what the routes made of a uri.        *)
QueriesOf(w) ==
  LET toStore == w.params["BaseName"] = "db"
      named   == w.params["SensorId"] # ""
  IN  CASE w.controller = "read" /\ named /\ toStore ->
             {NoQuery} \union {q \in HourQueries \union RangeQueries : HistoryReads \/ ToTheEnd(q)}
        [] w.controller = "read" /\ named /\ ~toStore -> HourQueries
        [] w.controller = "write" /\ toStore ->
             {Query(0, 0, 0, offset) : offset \in {o \in Offsets : o <= now - HourSecs}}
        [] OTHER -> {NoQuery}

Request(controller, params, query, called) ==
  [controller |-> controller, folder |-> params["BaseName"], sensor |-> params["SensorId"],
   query |-> query, called |-> called, accepted |-> Len(history)]

NoRequest == [controller |-> "", folder |-> "", sensor |-> "", query |-> NoQuery,
              called |-> FALSE, accepted |-> 0]

(* error is the code of ErrorInfo, values what the lines of the body tell.   *)
Response(status, error, values) ==
  [status |-> status, error |-> error, values |-> values, to |-> request]

NoResponse == [status |-> 0, error |-> "", values |-> {}, to |-> NoRequest]

Send(status, error, values) ==
  /\ response' = Response(status, error, values)
  /\ request' = NoRequest

(* The first value was written before the hour 0 ended, see WriteBeforeTime. *)
HourLess == history # <<>> /\ index = <<>>

(* MG_EV_HTTP_REQUEST, and the walk over the routes.  Reads of a sensor with *)
(* a value and no hour are left out.                                         *)
Receive ==
  /\ request = NoRequest
  /\ \E uri \in Uris :
       LET w == Walk(uri)
       IN  /\ w.controller = "write" => Len(history) < MaxWrites
           /\ HourLess => w.controller \in {"write", "welcome"}
           /\ \E query \in QueriesOf(w) :
                request' = Request(w.controller, w.params, query, FALSE)
  /\ response' = NoResponse
  /\ answer' = NoAnswer
  /\ UNCHANGED <<now, data, index, info, call, history, instances, lastErrors>>

-----------------------------------------------------------------------------
(* What the controllers call.                                                *)

(* Mutant: the offset is passed with its sign.                               *)
WriteCallSigned(q) ==
  IF q.offset = 0 THEN [op |-> "WriteValue", type |-> "Float"]
  ELSE [op |-> "WriteOldValue", type |-> "Float", offset |-> q.offset]

WriteCall(q) ==
  IF q.offset = 0 THEN [op |-> "WriteValue", type |-> "Float"]
  ELSE [op |-> "WriteOldValue", type |-> "Float", offset |-> q.offset % Wrap]

ReadCall(q) ==
  IF q.end = 0 THEN [op |-> "ReadHour", hour |-> FromTimeT(ToTime(q.start))]
  ELSE [op |-> "ReadRange", begin |-> ToTime(q.start), end |-> ToTime(q.end)]

ControllerCall ==
  CASE request.controller = "write" -> WriteCall(request.query)
    [] request.controller = "last"  -> [op |-> "ReadLastValue"]
    [] OTHER                        -> ReadCall(request.query)

IsList == request.controller = "read" /\ request.sensor = ""

LacksStart == request.controller = "read" /\ request.sensor # "" /\ request.query.start = 0

ToCall == /\ request.controller \in {"read", "last", "write"}
          /\ ~request.called /\ ~IsList /\ ~LacksStart

Welcome ==
  /\ request.controller = "welcome"
  /\ Send(200, "", {})
  /\ UNCHANGED <<vars, instances, lastErrors>>

RefuseQuery ==
  /\ LacksStart
  /\ Send(500, "", {})
  /\ UNCHANGED <<vars, instances, lastErrors>>

GetInstance == instances' = instances \union {request.folder}

(* SensorsList: a line for each data file of the folder; none here has more. *)
SensorsList ==
  /\ IsList
  /\ GetInstance
  /\ IF request.folder = "none" THEN Send(404, "", {}) ELSE Send(200, "", {})
  /\ UNCHANGED <<vars, lastErrors>>

(* Mutant: an error that is there is not replaced.                           *)
SetLastErrorOnce(folder, code) ==
  lastErrors' = IF code = "" \/ lastErrors[folder] # "" THEN lastErrors
                ELSE [lastErrors EXCEPT ![folder] = code]

SetLastError(folder, code) ==
  lastErrors' = IF code = "" THEN lastErrors ELSE [lastErrors EXCEPT ![folder] = code]

(* The controller calls the store of the folder: getFilesInfo.               *)
CallStore ==
  /\ ToCall /\ request.folder = "db" /\ call = Idle
  /\ LET c == ControllerCall
     IN  UseOpenFiles(c) \/ OpenFiles(c) \/ OpenFilesFails(c) \/ NoFile(c) \/ CreateFiles(c)
  /\ request' = [request EXCEPT !.called = TRUE]
  /\ SetLastError("db", answer'.error)
  /\ GetInstance
  /\ UNCHANGED <<now, history, response>>

(* Without the folder, no file is found and none can be created.             *)
CallNowhere ==
  /\ ToCall /\ request.folder = "none"
  /\ LET code == IF request.controller = "write" THEN "CREATE_DAT1" ELSE "NOFILE"
     IN  answer' = Answer(ControllerCall, FALSE, code, {}) /\ SetLastError("none", code)
  /\ request' = [request EXCEPT !.called = TRUE]
  /\ GetInstance
  /\ UNCHANGED <<now, data, index, info, call, history, response>>

(* The HourlyOffset_t cast, of a time before the hour.                       *)
WrappedOffset(time) == (time - info.startHour) % 65536

(* WriteOldValue with a time before 1970: it is later than the hour 0 that   *)
(* stands for no hour by less than an hour, so that no hour is begun.        *)
WriteBeforeTime ==
  /\ call.op = "WriteOldValue" /\ call.offset > now
  /\ \/ /\ HasMoreRecent(now - call.offset)
        /\ Return(FALSE, "WRITE_MRV", {})
        /\ UNCHANGED <<data, index, info, history>>
     \/ /\ ~HasMoreRecent(now - call.offset)
        /\ LET offset == WrappedOffset(now - call.offset)
           IN  /\ data' = Put(data, ValueCell(offset, NextValue))
               /\ info' = FilesInfo(info.type, info.startHour, info.minHour, info.maxHour,
                                    offset, info.indexSize)
        /\ history' = Append(history, [time |-> now - call.offset, value |-> NextValue])
        /\ Return(TRUE, "", {})
        /\ UNCHANGED index
  /\ UNCHANGED now

WriteOldInTime == ~(call.op = "WriteOldValue" /\ call.offset > now) /\ WriteOld

RunBody ==
  /\ WriteNow \/ WriteOldInTime \/ WriteBeforeTime \/ ReadHour \/ ReadRange \/ ReadLastValue
  /\ SetLastError("db", answer'.error)
  /\ UNCHANGED <<instances, request, response>>

(* The lines of the body.                                                    *)
Lines(values) == {[wall |-> ToString(v.time), value |-> v.value] : v \in values}

Resampled == answer.call.op = "ReadRange" /\ request.query.interval > 0 /\ answer.values # {}

(* Mutant: the comparison is turned round.                                   *)
InFirstTurned(v) == v.time > answer.call.begin + request.query.interval

InFirst(v) == v.time < answer.call.begin + request.query.interval

(* The loop of ResampleValues only goes on once a value lies in its first    *)
(* interval: it turns for ever when none does, and the thread with it.       *)
Spins == Resampled /\ ~(\E v \in answer.values : InFirst(v))

(* An average a line, dated by the begin of its interval; the averages       *)
(* themselves are not told apart.                                            *)
AverageLines ==
  LET begin   == answer.call.begin
  IN  {[wall |-> ToString(begin + k * request.query.interval), value |-> 0] :
         k \in {k \in 0 .. MaxTime :
                 \E v \in answer.values : begin + k * request.query.interval <= v.time}}

(* Mutant: the result of the call is not looked at.                          *)
StatusAlways(ok) == 200

Status(ok) == IF ok THEN 200 ELSE 404

(* The call is back: the values, or what GetLastError tells of the sensor.   *)
Respond ==
  LET status == Status(answer.ok)
  IN  /\ request.called /\ call = Idle
      /\ \/ status = 404 /\ Send(404, lastErrors[request.folder], {})
         \/ status = 200 /\ request.controller = "write" /\ Send(200, "", {})
         \/ /\ status = 200 /\ request.controller # "write" /\ ~Spins
            /\ Send(200, "", IF Resampled THEN AverageLines ELSE Lines(answer.values))
      /\ UNCHANGED <<vars, instances, lastErrors>>

-----------------------------------------------------------------------------
(* The files another program of the library may have left: one Int value.    *)
IntFile ==
  Stream("present", <<HeaderCell("Int"), HourCell(1), ValueCell(0, 1)>>, <<>>, 0)

ServerInit ==
  /\ now = HourSecs /\ info = NoInfo /\ call = Idle /\ answer = NoAnswer
  /\ \/ data = Absent /\ index = <<>> /\ history = <<>>
     \/ /\ data = IntFile /\ index = <<Entry(1, 1)>>
        /\ history = <<[time |-> HourSecs, value |-> 1]>>
  /\ instances = {}
  /\ lastErrors = [f \in Folders |-> ""]
  /\ request = NoRequest
  /\ response = NoResponse

(* At the bound the clock stands still.                                      *)
Clock ==
  /\ Tick \/ (now = MaxTime /\ UNCHANGED vars)
  /\ UNCHANGED <<instances, lastErrors, request, response>>

Handle == Welcome \/ RefuseQuery \/ SensorsList \/ CallStore \/ CallNowhere \/ RunBody \/ Respond

ServerNext == Receive \/ Handle \/ Clock

(* The handler of a request runs on: nothing else has the thread.            *)
ServerSpec == ServerInit /\ [][ServerNext]_serverVars /\ WF_serverVars(Handle)
=============================================================================
