-------------------------- MODULE SensorStoreProps --------------------------
(* What the store promises, stated over SensorStore.                         *)
EXTENDS SensorStore

CallType == [op : {"Idle", "ReadLastValue", "GetSensorInfo"}]
  \union [op : {"WriteValue"}, type : Types]
  \union [op : {"WriteOldValue"}, type : Types, offset : Nat]
  \union [op : {"WriteTimeValue"}, type : Types, time : Nat]
  \union [op : {"ReadHour"}, hour : Nat]
  \union [op : {"ReadRange"}, begin : Nat, end : Nat]

ValueType == [time : Nat, value : Nat]

Errors == {"", "NOFILE", "MISMATCH", "OPEN_COR1", "OPEN_COR2", "WRITE_MRV", "REMOVE_DAT"}

AnswerType == [call : CallType \union {[op |-> "Remove"]}, ok : BOOLEAN,
               error : Errors, values : SUBSET ValueType]

(* Every variable stays in its type; a sensor whose files are open has them  *)
(* on disk, and a call in progress has them open.                            *)
TypeOK ==
  /\ now \in Times
  /\ data \in StreamType(Cell)
  /\ index \in Seq(EntryType)
  /\ info \in InfoType
  /\ call \in CallType
  /\ answer \in AnswerType
  /\ history \in Seq(ValueType)
  /\ call # Idle => IsOpen
  /\ IsOpen => FileExists(data)

Last(s) == s[Len(s)]

Accepted(keep(_)) == {v \in {history[k] : k \in 1 .. Len(history)} : keep(v)}

(* writeTimeValue: decoded from its first byte, with the hour headers and    *)
(* the offsets, the data file holds exactly what was accepted, in the order  *)
(* it was accepted.                                                          *)
LogIsHistory ==
  LET c      == Contents(data)
      values == Within(c, 0, Len(c) + 1)
  IN  /\ {Stamped(c, i) : i \in values} = Accepted(LAMBDA v : TRUE)
      /\ \A i, j \in values : i < j => c[i].value < c[j].value

WantedHour == Accepted(LAMBDA v : FromTimeT(v.time) = answer.call.hour)

(* ReadValues for an hour never mixes, loses or adds a value: what it        *)
(* returns with true is the whole hour, or nothing when findIndex gave up.   *)
HourReadSound ==
  answer.call.op = "ReadHour" /\ answer.ok => answer.values \in {{}, WantedHour}

WantedRange ==
  Accepted(LAMBDA v : answer.call.begin <= v.time /\ v.time <= answer.call.end)

(* ReadValues between two times returns the whole range, or nothing.         *)
RangeReadSound ==
  answer.call.op = "ReadRange" /\ answer.ok => answer.values \in {{}, WantedRange}

(* The hours of the index are those of the accepted values, each once and in *)
(* order, whatever is read in between: no block is lost for the search.      *)
IndexCoversHistory ==
  /\ Ascending(index)
  /\ {index[k].hour : k \in 1 .. Len(index)} =
       {FromTimeT(history[k].time) : k \in 1 .. Len(history)}

(* Whatever the hours in between, findIndex finds the first and the last     *)
(* hour: the interpolated slot of the last hour is never below its entry.    *)
EndsFound ==
  IsOpen /\ index # <<>> =>
    /\ FindHour(info.minHour) = index[1].pos
    /\ FindHour(info.maxHour) = Last(index).pos

-----------------------------------------------------------------------------
(* Promises that need every read to run to the end of the log.               *)

Leads(entry) == LeadsTo(entry.pos, entry.hour)

(* writeTimeValue stores data->Tellp() in the index before it writes the     *)
(* hour: every entry leads to the header of its hour.                        *)
IndexAccurate == \A k \in 1 .. Len(index) : Leads(index[k])

(* Closing and opening again is invisible: what openFiles computes from the  *)
(* files is what the writes maintained in FilesInfo, and it is not refused.  *)
ReopenInvisible ==
  IsOpen /\ call = Idle =>
    /\ VerifyLastIndex = "OK"
    /\ {OpenedInfo(offset) : offset \in TailOffsets(Contents(data))} = {info}

CallTime == IF call.op = "WriteOldValue" THEN now - call.offset ELSE call.time

(* WriteOldValue and WriteTimeValue accept a value exactly when none at      *)
(* least as recent was written, also after a close and an open.              *)
MoreRecentRule ==
  [][call.op \in {"WriteOldValue", "WriteTimeValue"} /\ call' = Idle =>
       (answer'.ok <=> history = <<>> \/ CallTime > Last(history).time)]_vars

-----------------------------------------------------------------------------
(* Promises of the documentation the code does not keep.                     *)

(* LightTSDB.h:206-210, "Read all values of a sensor into LightTSDB for an   *)
(* hour", "True if values are found": an hour with values is not refused.    *)
HourReadAnswered ==
  answer.call.op = "ReadHour" /\ answer.error # "NOFILE"
    /\ WantedHour # {} => answer.ok

(* LightTSDB.h:214, "Read values of a sensor into LightTSDB between two      *)
(* times": the values of the range are returned.                             *)
RangeReadAll ==
  answer.call.op = "ReadRange" /\ answer.ok => answer.values = WantedRange
=============================================================================
