--------------------------- MODULE CrashStoreProps ---------------------------
(* What the files of a sensor keep through kills, repairs and half-done      *)
(* operations, stated over CrashStore.                                       *)
EXTENDS CrashStore, SequencesExt

(* What a reader can decode: the values before the first torn record.        *)
Readable(c) == Within(c, 0, FirstOf(c, {i \in 1 .. Len(c) : IsTorn(c, i)}))

(* No createFiles has failed half-way: after one the tool writes an entry    *)
(* for an hour that is not there, and the store values behind a header.      *)
NoHalfCreated == "createIndex" \notin failed

(* Nor has the removal of an index failed: after that a new sensor appends   *)
(* its index to the old one, in which a search goes wrong.                   *)
FilesPaired == NoHalfCreated /\ "removeIndex" \notin failed

(* writeTimeValue appends hour, value and end mark as separate writes: cut   *)
(* behind a value by any kill, repaired and written on, the log still        *)
(* decodes to the values that are left, each at its time.                    *)
LogSurvives ==
  LET c == Contents(data)
  IN  NoHalfCreated => {Stamped(c, i) : i \in Readable(c)} = ToSet(history)

(* openFiles after a repair, and the writes from then on: the index has      *)
(* every hour of the log once, in order, at its place.                       *)
IndexSurvives ==
  IsOpen /\ FilesPaired => IndexedUpTo(Contents(index), Contents(data), Len(Contents(data)))

(* "repair it" (LightTSDB.cpp:518): after a run of the tool that returned    *)
(* true on data with values, openFiles does not refuse the sensor.           *)
RepairedOpens ==
  Ready /\ ~IsOpen /\ ~dirty /\ result = "TRUE" /\ answer = "" /\ FileExists(data) /\ FilesPaired
    => OpenCodes = {"OK"}

(* LightTSDB.h:197: "Add a new value of a sensor into LightTSDB at old time. *)
(* (Only if none more recent value are wrote)": a dated write is accepted    *)
(* exactly when it is later than every value that is left.                   *)
MoreRecentRule ==
  [][\A time \in Dates :
       FilesPaired /\ WriteTimeValue(time) =>
         (answer' = "" <=> \A k \in 1 .. Len(history) : history[k].time < time)]_vars

(* Remove deletes two files, and each deletion may fail: when it returns     *)
(* true neither file is left, so that the next write starts a sensor anew.   *)
RemovedWhole ==
  [][RemoveData /\ answer' = "" => ~FileExists(data') /\ ~FileExists(index')]_vars

(* The values of a data file, in its order, each at its time.                *)
Decode(c) ==
  LET nth == [i \in Readable(c) |-> Cardinality({j \in Readable(c) : j <= i})]
  IN  [k \in 1 .. Cardinality(Readable(c)) |-> Stamped(c, CHOOSE i \in Readable(c) : nth[i] = k)]

Decoded == Decode(Contents(data))

Durable == INSTANCE DurableSeries WITH series <- Decoded, durable <- synced

(* What the data file decodes to is a series that only grows at its end and  *)
(* of which kills only take the end that was never flushed by a close or by  *)
(* a read that found its hour: creating, opening, indexing, every step of    *)
(* the tool, kills of the tool and refused writes do not touch it.           *)
ImplementsDurableSeries ==
  /\ Durable!Init
  /\ [][\/ UNCHANGED <<Contents(data), synced>>
        \/ FilesPaired' => [Durable!Next]_<<Decoded, synced>>]_vars
=============================================================================
