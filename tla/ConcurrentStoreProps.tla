------------------------ MODULE ConcurrentStoreProps -------------------------
(* What callers of one sensor may rely on, stated over ConcurrentStore.      *)
EXTENDS ConcurrentStore

Ats == {"idle", "clock", "check", "writeLock", "endLine", "entryHour", "entryTell",
        "entryPosition", "hour", "value", "readLock", "indexSeek", "indexRead", "walkSeek",
        "walkRead", "indexPosition", "indexEnd", "dataSeek", "dataHour", "dataValue", "clear",
        "lastSeek", "lastTell", "lastRecord", "lastValue", "lastEnd"}

Reading == Ats \ {"idle", "clock", "check", "writeLock", "endLine", "entryHour", "entryTell",
                  "entryPosition", "hour", "value", "readLock"}
Writing == {"endLine", "entryHour", "entryTell", "entryPosition", "hour", "value"}

StreamOf(Cells) == [file : StreamType(Cells), bad : BOOLEAN]

IndexCell == Cell \union [kind : {"position"}, pos : Int]

(* The clock, the streams, FilesInfo, the mutexes, the steps of the callers  *)
(* and the counters stay in their types, and the caller inside the body of a *)
(* write or of a read is the one that holds its mutex.                       *)
SharedTypeOK ==
  /\ now \in Nat /\ data \in StreamOf(Cell) /\ index \in StreamOf(IndexCell)
  /\ info \in [startHour : Nat, minHour : Nat, maxHour : Nat, maxOffset : Nat, indexSize : Nat]
  /\ writer \in Callers \union {None} /\ reader \in Callers \union {None}
  /\ at \in [Callers -> Ats]
  /\ calls \in [WriteOps \union ReadOps -> 0 .. MaxCalls]
  /\ \A c \in Callers : (at[c] \in Writing <=> writer = c) /\ (at[c] \in Reading <=> reader = c)

Log == Contents(data.file)

(* Whatever reads do to the stream behind a write, flush it, move it or make *)
(* it fail: the record of every write that returned true stays, once and in  *)
(* the order of the mutex, and no write that returned false left one.        *)
TrueMeansWritten ==
  LET c       == Log
      records == Within(c, 0, Len(c) + 1)
      Is(i, k) == c[i].value = history[k].value
  IN  /\ {c[i].value : i \in records} = {history[k].value : k \in 1 .. Len(history)}
      /\ \A i \in records, k \in 1 .. Len(history) : Is(i, k) =>
           \A j \in records, l \in 1 .. Len(history) : Is(j, l) => (i < j <=> k < l)

-----------------------------------------------------------------------------
(* Writers among themselves.                                                 *)

(* An hour stands behind the header and behind every end mark, and nowhere   *)
(* else.                                                                     *)
HoursPlaced(c) == \A i \in 2 .. Len(c) : IsHour(c, i) <=> c[i - 1].kind \in {"header", "endline"}

(* An index of n entries has the hours of a data file, in order, each with   *)
(* its position.                                                             *)
Indexes(e, n, c) ==
  /\ Len(e) = 1 + 2 * n
  /\ \A k \in 1 .. n :
       /\ e[2 * k + 1] = PositionCell(e[2 * k + 1].pos)
       /\ e[2 * k + 1].pos \in 0 .. Len(c) - 1 /\ IsHour(c, e[2 * k + 1].pos + 1)
       /\ e[2 * k] = c[e[2 * k + 1].pos + 1]
  /\ \A k, l \in 1 .. n : k < l => e[2 * k + 1].pos < e[2 * l + 1].pos
  /\ \A i \in 1 .. Len(c) : IsHour(c, i) => \E k \in 1 .. n : e[2 * k + 1].pos = i - 1

(* writeMutex keeps blocks whole: as long as nobody reads, between two       *)
(* writes every hour stands behind the header or an end mark, and the index  *)
(* has its position, in order, whatever the writers raced for.               *)
BlocksWhole ==
  writer = None /\ ReadsBegun = 0 =>
    /\ HoursPlaced(Log)
    /\ Log[Len(Log)].kind \in {"header", "value"}
    /\ Indexes(Contents(index.file), info.indexSize, Log)

(* LightTSDB.h:197, "(Only if none more recent value are wrote)": the         *)
(* comparison of internalWriteTimeValue is made before the mutex is taken,   *)
(* and FilesInfo may have been left by writes that failed or overlapped; a   *)
(* dated write that runs alone still never follows a later value.            *)
RuleKeptAlone ==
  answer.op = "WriteTimeValue" /\ answer.ok /\ answer.alone /\ answer.seen > 0 =>
    history[answer.seen].time < answer.time

-----------------------------------------------------------------------------
(* Readers.                                                                  *)

OfHour(hour, n) ==
  SelectSeq(SubSeq(history, 1, n), LAMBDA v : FromTimeT(v.time) = hour)

(* readMutex keeps readers apart on the two streams: as long as nobody       *)
(* writes, every read is exact, in whatever order they seek.                 *)
ReadersExact ==
  WritesBegun = 0 =>
    /\ answer.op = "ReadHour" => answer.ok /\ answer.got = OfHour(answer.time, Len(history))
    /\ answer.op = "ReadLastValue" /\ history # <<>> =>
         answer.ok /\ answer.got = <<Last(history)>>

(* Every call returns: the two mutexes are never waited for in a circle, no  *)
(* early return keeps one, and the walk and the loops end, whatever readers  *)
(* and writers do to the streams of each other.                              *)
EveryCallReturns == \A c \in Callers : (at[c] # "idle") ~> (at[c] = "idle")

-----------------------------------------------------------------------------
(* What does not hold of callers that overlap.  ReadRace checks the first;   *)
(* the others fail in the same way on files of one hour.                     *)

(* LightTSDB.h:206, "Read all values of a sensor into LightTSDB for an       *)
(* hour": a read that returns true has at least the values of the hour that  *)
(* were written before it was called.                                        *)
ReadsWhatWasWritten ==
  answer.op = "ReadHour" /\ answer.ok =>
    ToSet(OfHour(answer.time, answer.seen)) \subseteq ToSet(answer.got)

(* The same for a read during which no other call runs, after calls that     *)
(* ran together: nothing of a race stays behind.                             *)
RacesLeaveNoTrace ==
  answer.op = "ReadHour" /\ answer.alone =>
    answer.ok /\ ToSet(OfHour(answer.time, answer.seen)) \subseteq ToSet(answer.got)

(* LightTSDB.h:197, "(Only if none more recent value are wrote)": of dated   *)
(* writes, each value is later than those written before it.                 *)
DatedInOrder == \A j, k \in 1 .. Len(history) : j < k => history[j].time < history[k].time

(* LightTSDB.h:180, "Add a new value of a sensor into LightTSDB at current   *)
(* time": between two writes every value decodes to the time it was given.   *)
StoredAtTheirTime ==
  writer = None =>
    {Stamped(Log, i) : i \in Within(Log, 0, Len(Log) + 1)} = ToSet(history)
=============================================================================
