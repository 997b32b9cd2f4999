# A TLA+ model of LightTSDB

LightTSDB is a small C++ library that stores time series in two files per
sensor, with a web server and an index repair tool around it. This directory
models its core in TLA+, checks it with TLC and proves part of it with TLAPS.
Line numbers are those of `src/src/LightTSDB.cpp` unless another file is named.

## Inventory

| Component | State | Operations | Talks to |
|---|---|---|---|
| `LightTSDB` | map sensor -> `FilesInfo` (streams, `startHour`, `minHour`, `maxHour`, `maxOffset`, `indexSize`, type), map sensor -> last error, four mutexes (map, error, and per sensor read and write) | `WriteValue`, `WriteOldValue`, `WriteTimeValue`, `ReadValues` (hour / range), `ReadLastValue`, `ResampleValues`, `GetSensorInfo`, `GetSensorList`, `Close`, `Remove`, `GetLastError` | two `LtsdbFile` per sensor, the clock |
| `findIndex` | none (reads the index file and `FilesInfo`) | interpolation, then a backward walk | index file |
| `HourlyTimestamp` | none | `FromTimeT`, `ToTimeT`, `ReadLastIndex`, `VerifyDataHourlyTimestamp` | both files, the clock |
| `LtsdbFile` | one `std::fstream` opened `in|out|app` | open, close, seek, tell, typed reads and writes | file system |
| `ResamplingHelper` | none | `Average`, `PreserveExtremum` | list of `ReadValues` |
| `RebuildIndex` (tools/) | two streams, last error | rename the old index, write a new one from the data file | files of a closed sensor |
| server controllers, `LtsdbFactory`, `TimeHelper` | one `LightTSDB` per folder | a request becomes one or two store calls | `LightTSDB`, `MongooseCpp` |
| `MongooseCpp` | list of routes | `AddRoute`, `matchUrl`, `EventHandler`, `Poll` | controllers, vendored mongoose |

A data file is a header, then blocks: an hour, then records (offset, value),
then an end mark which is only written when the next hour begins. The index
file is a header, then one entry (hour, position of the block) per block. The
writes keep in `FilesInfo` what `openFiles` would compute from the files.

What is hard in this code, and what makes each part correct:

- *One stream, two positions.* The data stream is opened with `app`: writes go
  to the end wherever it stands, but `Tellp()` (line 221) reports where it
  stands. The index is right only if the two agree when an hour begins, and
  every read in between moves the stream.
- *State twice.* `FilesInfo` and the files must agree after any sequence of
  writes, reads, closes and opens; `openDataFile` and `openIndexFile` read it
  back by arithmetic on positions.
- *The search.* `findIndex` guesses a slot by interpolation and only walks
  backwards. It must never answer a wrong block and should miss none.
- *Hour borders* (`> 3599`, `<=`, end of file inside a block).
- *Buffers.* A cell written is not yet in the file; a position taken meanwhile
  must count it and a close must not lose it.
- *Concurrency.* Reads and writes of one sensor take different mutexes over the
  same streams, the more-recent-value rule is checked before the mutex is
  taken, and `Close` deletes what another call may hold.
- *Failure.* Two files without a common commit: a kill between two flushes, a
  second open or a second removal that fails, a repair tool that is killed too.
- *Clock.* Steps back, values dated in the future or in hour 0.
- *Requests.* Routes that overlap, parameters stored before a route is known to
  match, signed numbers that become unsigned, errors asked for after the call.

`PROJECT.json` lists each of these under "hazards" at the line where it bites,
with the properties that would notice, or why none does.

## Modules

| Module | Models | State and actions |
|---|---|---|
| `HourlyTimestamp` | lines 728-738 and the cast of 229 | operators; `HourSecs` stands for 3600 |
| `LtsdbFile` | lines 891-1029 over a `std::fstream` | a stream is `[state, cells, buf, pos]`: what is on disk, what is buffered, where the descriptor stands. `Put` appends to the buffer and flushes it when `BufCap` cells fill it; a flush of an append stream goes to the end and takes `pos` there; `Tellp` is `pos` plus what is buffered; seeks and close flush |
| `FailingStream` | the same stream with its fail bit | a read is a step of its own, at the descriptor; a read at the end sets the bit, `Clear` resets it, everything else does nothing meanwhile |
| `DataFile` | what a data file holds | cells, the hour in force, the time of a value |
| `IndexSearch` | `findIndex`, lines 620-660 | `Slot` (the interpolation), `WalkBack` (the loop), `FindIndex` |
| `IndexProbe` | `findIndex` against every index a store can build | `BeginHour`, `Search` |
| `SensorStore`, `SensorStoreProps` | `LightTSDB` as one caller sees one sensor, on files that do not fail | below |
| `TimeSeries` | what the class promises: a series, no files | one action per answer |
| `SensorStoreRefinement` | | `SensorStore` implements `TimeSeries` |
| `ClockSteps` | the store of `SensorStore` under a clock that steps back and free dates | adds `StepBack`, writes with the cast of line 229 as the machine makes it |
| `RebuildIndex` | `tools/RebuildIndex.cpp` | `data`, `index`, `backup` (the renamed index), `step`; one action per step of `LightTSDBRebuildIndex`, each may fail, and `Killed` after any of them |
| `RebuildIndexAlone`, `MCRebuildIndex` | the tool on the files of a sensor nobody uses | `StartRun`; files of every shape |
| `CrashStore`, `CrashStoreProps` | store, tool and kills over one pair of files | `CreateFiles`, `OpenFilesOf`, `WriteTimeValue`, `ReadLastValue`, `ReadMissingHour`, `CloseSensor`, `RemoveIndex` then `RemoveData`, `RunTool` (any step of the tool), `KillTool`, `Crash` |
| `DurableSeries` | what survives kills: a series of which only the end that was not flushed goes | `Grow`, `MakeDurable`, `LoseEnd`, `Forget` |
| `ConcurrentStore`, `ConcurrentStoreProps`, `MCConcurrentStore` | several callers of one open sensor | one action per stream operation of `writeTimeValue`, `ReadValues`, `ReadLastValue` and `findIndex`, with the two mutexes |
| `WebRoutes` | `ParseRoute` and `matchUrl` of `MongooseCpp/WebServer.cpp` | folds over tokens and parts, as the loops |
| `WebServer`, `MCWebServer` | `AddRoute`, `EventHandler`, the dispatch of `TypeController` and `ApiController` | the list of routes, the request that is tried on them, the answer |
| `TsdbServer`, `TsdbServerProps`, `MCTsdbServer` | `main.cpp`, the controllers, `LtsdbFactory`, `TimeHelper` over `SensorStore` and `WebRoutes` | one request at a time: `Receive`, the call, the answer |
| `Resampling` | `ResamplingHelper`, lines 808-884 | `Turn` is one turn of the loop of `Average`, `PreserveExtremum` the second loop |
| `StoreLemmas` | | facts about the operators of `HourlyTimestamp`, `LtsdbFile`, `DataFile` and `IndexSearch`, proved |
| `IndexProbeProofs`, `SensorStoreProofs`, `ClockStepsProofs`, `CrashStoreProofs` (the tool, then store and tool), `ConcurrentStoreProofs`, `ResamplingProofs`, `TsdbServerProofs` | | inductive invariants and theorems |

How they compose: `SensorStore` uses `DataFile`, `LtsdbFile` and `IndexSearch`;
`ConcurrentStore` uses `DataFile` and `FailingStream`, and makes the search of
the index in steps of its own; `ClockSteps` and `TsdbServer` extend
`SensorStore` and call its actions; `CrashStore` extends `RebuildIndex`, so that
the store and the tool work on the same files; `TsdbServer` also uses
`WebRoutes`. A comment `Mutant:` marks a variant of the definition below it,
wrong in the way a slip in that code would be; each is tied in `PROJECT.json`
to the run and the property that notices it, and nothing else uses it.

`SensorStore` has the variables `now` (the clock), `data` (a stream of
`LtsdbFile` whose cells are the header, hours, values and end marks), `index`
(the entries, in file order), `info` (`FilesInfo`, `NoInfo` while the sensor is
not in the map), `call` (the call whose body is still to run), `answer` (result
and values of the last call) and `history` (what was accepted, for comparison
only). A call takes two steps, like the code: `GetFilesInfo` (open, create,
verify, find, check the type; lines 376-566) and the body (`WriteNow`,
`WriteOld`, `WriteTime`, `ReadHour`, `ReadRange`, `ReadLastValue`,
`GetSensorInfo`); the clock may tick in between. `CloseSensor`, `Remove` and
`Tick` are the other actions.

Abstractions of `SensorStore`, and why they are sound for what is checked:

- A cell is what one write call of `LtsdbFile` writes; positions count cells,
  not bytes. An index entry that leads into the middle of a file leads to some
  other cell; the model takes its first bytes for a different hour (a
  coincidence of the bytes with the wanted hour is left out), and the position
  after a refused read is that of the following cell.
- A value is the rank at which it was accepted, so that a wrong, missing or
  doubled value shows. A list that was read is the set of its members.
- The index file is a sequence: its stream is only appended to and its position
  is never used for anything that is stored (lines 220-221, 640, 654, 658).
- What `openDataFile` reads as the last offset (line 484) is modelled per type:
  right for Float and Int, an earlier offset or bytes of the hour for Bool, any
  number of 16 bits for Double, where it is bits of the value (no run has Bool or
  Double: with them what `ReopenInvisible` says is false, disagreement 4).
- File operations succeed and there is one caller; `CrashStore` and
  `ConcurrentStore` are the models without these two. The clock only goes on;
  `ClockSteps` is the model without that. Times are below the 32-bit wrap of
  line 736.

`CrashStore` makes both files streams of which a kill takes a part of what was
buffered: what is left of the data file is empty or ends in a kind of cell of
`Cuts` (a torn record among them), that of the index ends behind any cell, an
entry being two writes and so possibly half of one; each stream at its own
place, since the two are flushed independently. A kill that meets an empty
buffer leaves the file as it is. What may fail is `Faults`: the open of the new
index in `createFiles` (line 549), and each of the two removals (line 362). One
kind of fault occurs in one life (`failed`), as often as it likes: two kinds
together lead to files that no statement of the code is about. `ReadLastValue`
searches the index as it is, misses and wrong blocks included; left out are a
search that meets bytes out of step or a place before the file (`MeetsEntries`),
and an hour read at the end of the data file, which take an index that
`FilesPaired` excepts. Values are Float
and dated by the caller (`Dates`), the clock is later than every date.
`ConcurrentStore` begins with an open sensor. A step is one method of
`LtsdbFile` with the memory accesses that follow it; inside a method the code
guarantees no order between a read and a write, which hold different mutexes,
and that is left out. What the files may hold at the start is any list of
blocks of values, each block of one hour and the values numbered from 1; the
values of the calls go on from `FirstNumber`. `TsdbServer` keeps the `SensorStore` assumptions, since
the server has one thread; values dated in the hour 0, which have no header,
are written, but no read of the sensor that follows is modelled (`HourLess`),
because what it returns is bytes. In `WebServer` a uri is the list of its parts.

## Runs

| Run | Question | Bounds |
|---|---|---|
| `StoreToEnd` | While reads run to the end of the log: does the data file decode to the history, does every entry lead to its block, is a close and an open invisible, and does the store implement `TimeSeries`? | hours of 2 seconds, times 2..9 (hours 1..4), 3 values, buffer of 3 cells, Float and Int (so that types can mismatch) |
| `StoreAnyRead` | With any read at any moment: is what is returned whole or nothing, never mixed? Does the index cover the history? Are the first and last hour found? | the same, Float |
| `IndexProbe` | What does `findIndex` find and miss? | hours 1..10, every subset as an index |
| `Resampling` | Are the averages the means, is every value averaged, are extremes kept, does the loop end? | lists of up to 3 values, 7 seconds, 3 levels, intervals of 1, 2, 3 seconds |
| `Rebuild` | Is the index the tool leaves that of the data file, and is the old one never lost? | data files of up to 3 blocks of 1 or 2 values, cut behind every cell or torn, with a foreign header or empty; indexes missing, empty, whole, half; 2 runs, any operation may fail, a kill after any step |
| `CrashRepair` | After kills, repairs and half-done operations, do the values, the index and the rule of dated writes still agree? | values at 3 times (one hour with two, a gap), 3 values, 2 kills, one kind of fault, the tool run after a kill, no new sensor beside an index of 3 cells or more |
| `ReadersAndWriters` | What do the two mutexes guarantee: to writers alone, to readers alone, to both? Does every call return? | 2 callers, 3 calls, a new sensor and one of three hours with a gap, two clock times, two dates, three hours to read, buffer of 3 cells |
| `AnyClock` | Under any clock: the rule of dated writes, and when a sensor is refused | times 2..7, 2 steps back, 3 values, dates in the future |
| `WebRouting` | Which route answers a uri, with whose parameters, and which routes are refused? | 2 of 8 overlapping routes, every refused route of 3 tokens of the right form or of up to 2 of any form, uris of up to 4 parts of 3 words, 3 controllers of which one declines |
| `Server` | Is what a status and a body say what happened, and is every request answered, but the averages whose first interval is empty? | one sensor, 2 values, times 2..6, offsets -2..2, 11 uris, averages over one hour |
| `StaleTellp`, `ReadRace` | disagreements of code and documentation, below | the smallest that show them |

Why the bounds are enough: three values in four hours of two seconds give a
block of one value, a block of two, a full block, a skipped hour, three blocks,
and values on both seconds of an hour; a buffer of three cells is filled in the
middle of `WriteInNewHour` (end mark, hour, value) as well as between two
writes. Ten hours contain every pattern of gaps around an interpolated slot up
to that span; the proofs cover all others. Three values and intervals up to
three seconds give empty intervals, several values in an interval, and values
on its border. Two kills let the second hit the tool that repairs after the
first, or the store that wrote on behind a repair; the index that a kill leaves
is missing, empty, a header, short, or ends in half an entry. Three calls of
two callers give two that overlap with each other and one before, after or
inside them, and the sensor with a gap makes `findIndex` walk back. Two steps
back of the clock come before, between and after two values. Two routes are
what a stored parameter of a failed route needs to reach another one; a third
route meets the same pair.

`HistoryReads = FALSE` restricts reads to those that reach the end of the log
(the running hour, or a range whose end is not in the past, plus
`ReadLastValue`). It is the condition under which the position of the data
stream stays at its end; `StaleTellp` shows what happens without it. The
conditional properties are in `StoreToEnd`, the unconditional ones in
`StoreAnyRead`.

Some properties are conditional for the same reason. `NoHalfCreated` of
`CrashStoreProps` excepts the lives in which `createFiles` failed half-way
(disagreement 7), `FilesPaired` also those in which the removal of the index failed
(disagreement 8). `LogSurvives` rests on the first, `RemovedWhole` on neither, the
others of `CrashRepair` on the second. `TrueMeansWritten`
says of a write among reads only that its record is in the file when it returns
true, not that its index entry is right, and
`RuleKeptAlone` speaks of a dated write that no other call overlaps
(disagreements 9 and 10). `ReadAnswered` says of a value of the summer only that
no line but those of the sensor's values is told (disagreement 13), and lets a
range that begins in neither the first nor the last hour tell nothing at all
(`BeginsElsewhere`, disagreement 3). `EveryRequestAnswered` excepts the averages
of a range whose first interval is empty (`FirstIntervalEmpty`, disagreement 5). `AnyClock` calls the dated writes only
(disagreement 11). `RepairFirst = TRUE` says that after a kill the
tool is run before the sensor is opened, which the message of line 518 asks for;
disagreement 6 is what happens without it.

`CHECK_DEADLOCK FALSE` is used where the system stops: `Resampling` returns,
`Rebuild` has a bounded number of runs, `ReadersAndWriters` and `ReadRace` a
bounded number of calls. In every other run something can always be done.

Fairness is stated where the code schedules. `Resampling` and the steps inside a
call of `ConcurrentStore` (`EveryCallReturns`): weak fairness of each caller's
next step, since a thread that can go on does, and a mutex that is free is taken;
no fairness on beginning calls. The number of calls is bounded, so that a mutex
is not taken by others for ever, which `std::mutex` does not exclude. `TsdbServer` (`EveryRequestAnswered`): weak
fairness of the steps of the handler, which has the only thread; none on
requests or the clock. `ClockSteps` (`RefusalEnds`): weak fairness of the clock's
tick, time passes. `SensorStore` has no liveness property: a call is two steps
that are always enabled.

### Disagreements found

Two are runs of the project:

1. `StaleTellp`: `ReadValues` of an hour or range that ends inside the file
   leaves the stream there. The next value of a new hour is indexed at
   `Tellp()`, the position of that read, and reading its hour is refused
   (line 249); after a close the sensor cannot be opened at all (`OPEN_COR1`).
2. `ReadRace`: a write between two records of `ReadValues` moves the stream to
   the end, and the read returns true with a part of the hour (line 241).

The others are stated as properties that no run lists; each is reproduced by a
configuration that differs from a listed one as said:

3. `RangeReadAll` in `StoreAnyRead`: a range that begins in an hour without
   values returns true and nothing (line 273). `SearchComplete` in
   `IndexProbe`: `findIndex` never goes forward (lines 658-659): in the hours
   1, 2, 4 the hour 2 is not found.
4. `MoreRecentRule` in `StoreToEnd` with `Types = {"Bool"}`: line 484 steps
   back by the size of a float record; after a close and an open a write is
   accepted that is older than the last value.
5. `Returns` in `Resampling` with `EarlyFirst = FALSE`: `Average` loops for ever
   when the first value is not in the first interval (lines 828-851). Over the
   server: `AlwaysAnswered` in `Server`, as it is listed; the one
   thread of the server is lost for every client.
6. `MoreRecentRule` in `CrashRepair` with `Faults = {}` and
   `RepairFirst = FALSE`: an index that lags behind the data file after a kill
   is not always noticed by `openFiles`, and older values are accepted.
   `LogSurvives` with `Cuts = {"value", "torn"}`: behind half a record all that
   is appended is out of step.
7. `LogSurvives` in `CrashRepair` without its condition (it is not even
   defined, a value has no hour): when the second half of
   `createFiles` fails (line 549) a data file of a header stays. The sensor is
   refused from then on; the tool writes an entry for an hour it has not read
   (`RebuildIndex.cpp:132`), and the store then writes values behind the header.
8. `IndexSurvives` in `CrashRepair` without its condition: when the removal of
   the index fails but not that of the data file (line 362), `Remove` returns
   false, and the next write begins a new data file beside the old index. Behind
   the old entries `findIndex` can miss the last hour: `ReadLastValue` then returns
   true without a value (line 308) and without a seek in the data stream, so that
   nothing is flushed.
9. `DatedInOrder` and `StoredAtTheirTime` in `ReadRace`, whose constants they
   share: two dated writes both pass the comparison of line 201 before either
   holds the mutex; a `WriteValue` that read the clock before another call began
   the next hour is stored with an offset from that hour (line 126).
10. `RacesLeaveNoTrace` in `ReadRace`: the index entry a race gets wrong stays
    wrong for every later read (line 221).
11. `LogIsHistory` in `AnyClock` with `Writes = {"WriteValue"}`: under a clock
    stepped back the offset is negative and its cast keeps the low bits.
    `BehindAnHour` with `FirstDate = 0`: a first value dated in the hour 0 is
    written without the header of an hour (line 214). `OldValueKept` in
    `Server`: a negative `Offset` becomes an unsigned one of 32 bits, the value
    is dated before the epoch, answered by 200 and found by no read.
12. `FailureTold` in `Server` with `HistoryReads = TRUE`, `MaxWrites = 3` and
    `Uris <- StoreUris`: line 249 returns false
    without an error, and the answer tells an older one or none.
13. `ShownAsAsked` in `Server`: `TimeHelper::ToTime` reads `Start` and `End` with
    `tm_isdst` 0 (`TimeHelper.cpp:46`, 62, 64, 66), as times of the winter, while
    `ToString` writes the local time. In the summer a value is not found by the
    time its line shows, but by the one an hour earlier.

## Proofs

TLAPS proves, for every value of the constants (named assumptions: an hour has
at least one second, a buffer holds at least one cell, the clock's bound is
after the first hour, types are among the four, files are sequences of cells; for
several callers, that the blocks of the start are not empty and each of one hour,
that no date lies in the hour 0, which line 201 takes for no value, and that the
offset of a second in its hour fits in 16 bits without being an end mark).
More hypotheses are stated by the theorems that need them, because the code
does not do without:

- `FourByteTypes`: values are Float or Int. `openDataFile` (line 484) steps back
  by the size of a record with a float; with Bool and Double it takes the last
  offset from somewhere else (disagreement 4).
- `ReadsToEnd`, that is `~HistoryReads`: every read runs to the end of the log,
  see above (disagreement 1).
- `RepairedLife`, for kills. A kill leaves a data file that ends in a record
  (behind a torn one all is out of step, disagreement 6, and behind the header
  or an hour the tool indexes an hour it has not read, disagreement 7). The tool
  is run before the sensor is opened again (`RepairFirst`, disagreement 6), and
  its own file operations succeed: a run that fails behind the rename leaves a
  short index, which `openFiles` takes (that the old one is still there as the
  backup is `OldIndexSurvives`). It may be killed at any step. `BufCap > 1`: a
  buffer holds two cells, as the real one of 8 KiB does; with one cell a header
  is on disk before its hour, and the first kill leaves what is excluded above.
- `DatedLife`, for a clock that steps back. Writes are dated by the caller, and not
  in the hour 0 (disagreement 11), and an offset fits in its 16 bits without being
  the end mark 65534; the hour of the code has 3600 seconds.
- `NegativesWrap`, for the server: a negative `Offset` of a query, as an unsigned
  number of 32 bits, is later than any clock of the model. The parameter is an
  `int`: a small negative number becomes one near 2^32.

The store:

- `StoreLemmas`: each stream operation keeps or extends the contents and keeps a
  stream at its end there (`PutFacts`, `SeekFacts`, `TellpAtEnd`, ...); the
  smallest of a set of numbers, and that `FirstOf` is it; what `FindIndex` finds.
- `SensorStoreProofs`, first part, for every kind of read: `TypeCorrect`, `EndsAlwaysFound`,
  `LogAlwaysHistory`, `IndexAlwaysCovers`. `TypeOK` is not inductive: an offset is
  `time - startHour`, and is a number only because `startHour` is the last hour
  of the index, not in the future, and not above what the more-recent rule lets
  through; opening reads the last record and the last entry, which exist only
  because a file without entries exists only inside its first write; a decoded
  time needs an hour before the value. `StoreInv` collects this: `LogShape` (the
  data file), `IndexShape` (the index), `InfoAgrees` (`FilesInfo` repeats the
  files), `CallBounded` (the time a call will write at), `Started` (files without
  entries). There is one lemma per action, and the same invariant gives what
  `FindIndexFinds` needs for `EndsFound`. `ContentInv` adds to `LogIsHistory` what
  its induction needs: every value stands behind an hour (`Ranked`), so that a
  cell appended later does not change what it decodes to (`HourAppend`), and the
  hour in force at the end of the file is the last hour of the index
  (`EndsInLastHour`), so that `time - startHour` decodes to `time` again.
- The second part, what reads answer, wherever earlier reads have left the
  streams: `HourReadAlwaysSound` and, under `FourByteTypes`,
  `RangeReadAlwaysSound` and `MoreRecentRuleKept`. `BlockInv` says that the data
  file is a list of blocks: an hour stands behind the header or an end mark and
  nowhere else, hours grow, offsets lie inside the hour. So a read that checked
  the hour it was led to, by an entry right or wrong, and goes to the next end
  mark collects exactly that hour (`HourCollected`). A range also needs that the
  log is in order of time (`OrderInv`), for the loop stops at the first later
  value (`RangeCollected`). That order rests on the rule of the dated writes,
  and this on `TailInv`: `maxHour` and `maxOffset` are the time of the last
  value, also when they were read back by an open. With Bool or Double they are not,
  hence `FourByteTypes`.
- The third part, under `ReadsToEnd`: `IndexAlwaysAccurate` and, with
  `FourByteTypes`, `ReopenAlwaysInvisible` and the refinement,
  `FilesImplementSeries` (`Spec => ImplementsTimeSeries`). `StreamInv` says that
  the stream of an open sensor stands at the end of the file between two calls,
  that every entry leads to its hour, and that a call in progress is one that
  runs to the end. An entry takes its position before the hour is written: it
  leads there because `Tellp` is then the length of the file. The refinement
  mapping is that of `SensorStoreRefinement`; `SeriesInv` joins all the
  invariants above, and there is one lemma per action that names the step of
  `TimeSeries` it is, or the stutter: an accepted write grows the series, a refused
  one answers by the rule, a read answers the hour, the range or the last value
  of the series, opening, closing and failing to open leave it alone.

Any clock, `ClockStepsProofs`, for any number of steps of the clock in both
directions and any dates from the hour 1 on (`DatedLife`):

- `RefusedOnlyUntilReached` (`RefusedUntilReached`), for every value type. That no
  time is after the clock is what `StoreInv` rests on and what does not hold here,
  so `ClockInv` is an invariant of its own. Its core is `EndsInBlock`: the last
  entry leads to the last block of the data file, behind whose hour there are values
  only, the last of them at the time of the last accepted one. So the walk of
  `VerifyDataHourlyTimestamp` ends at that value (`WalkEndsAtLast`), and only its
  time can refuse a sensor. That a write inside the running hour keeps its offset
  needs that it is not before `startHour`: the rule lets no earlier date through
  (`DateLetThrough`), whatever the clock says.
- `RuleHoldsWhateverClock` (`RuleWhateverClock`), under `FourByteTypes`. `RuleInv` adds
  that `maxOffset` is that of the last record, kept by writes and read back by
  `openFiles`, and that the last accepted value is the latest; so the rule, which
  looks at `FilesInfo` only, speaks of all values (`RuleOfHistory`).

Kills and repairs, `CrashStoreProofs`, for any number of values, kills and runs of
the tool, and any dates (under `RepairedLife`):

- `LogSurvivesKills`, `IndexSurvivesKills`, `RepairSuffices` (`RepairedOpens`),
  `MoreRecentAfterKills` (`MoreRecentRule`) and the refinement `SeriesIsDurable`
  (`ImplementsDurableSeries`) come from one inductive invariant, `CrashInv`: as
  long as neither `createFiles` nor the removal of an index has failed
  (`FilesPaired`; so is `LogSurvives` proved, the run also has the second
  failure), `LifeInv` holds, whose parts are
  named for what the files owe to whom. `OpenAt`: the data stream of an open
  sensor stands at its end, the last entry leads to the last hour of the log, and
  `FilesInfo` repeats both. `ClosedAt`: otherwise the files are as the tool may
  find or leave them; its part is the invariant of the tool alone (`FilesAt`,
  `BuiltAt`, see below), whose lemmas on the steps of the tool are used as they are. `LogAt`: value
  k of the file is value k of the history, and times grow. `SyncedAt`: as many
  values as were flushed stand among the cells that are on disk, which is what
  a kill cannot take. `PairedAt`, `CleanAt`, `EmptyAt`: what the index is worth
  while the sensor is open, while it is closed since a run of the tool, and when
  nothing is left of the data. None of the theorems is inductive alone: that a
  write puts its entry in the right place needs the stream's place (`OpenAt`), that
  needs the last entry of an index that was read back, which is right after a
  repair only because the tool found a log of the right form (`ClosedAt`), cut
  behind a record by the kill before.
- The cut is `LogCut`: a beginning of the file decodes to a beginning of the
  history. The write is `BlockWritten` and `ValueWritten`, stated of sequences of
  cells without streams. The refinement needs that the values of a file, counted in its
  order, are its history (`LogDecodes`); then each action is a step of
  `DurableSeries` or a stutter, and a kill is its `LoseEnd`.
- `RemoveIsWhole` (`RemovedWhole`) needs no hypothesis: between the two removals
  the index is gone, or the failure is already in the answer (`RemovingAt`).

Several callers, `ConcurrentStoreProofs`, for any number of callers and calls:

- `MutexesHold`: the types of the streams, of `FilesInfo`, of the mutexes and of
  the positions of the callers, and whoever is inside the body of a write or a read is
  the one that holds its mutex. `TypeInv` adds those of the locals. A step
  of a read has one frame for all fifteen actions (`ReadEffect`): it leaves
  `FilesInfo`, `writeMutex` and the contents of both files alone, and moves one
  caller; the later invariants use only that.
- `TrueAlwaysWritten`: the records of the data file are the accepted values, each
  once and in the order of the mutex. `NumberInv` says that a call writes a value
  that is nowhere yet, so the record it appends is behind all others and
  new; a write in a stream that a read made fail appends nothing and returns
  false, and both go together whatever the reads did (`WriteLogs`).
- `RuleAlwaysKeptAlone`: line 201 compares before the mutex, with what other
  writes left in `FilesInfo`, which may be of a write that failed between two of its
  steps or of one that took a negative offset. `HoursInv` says what is true in
  each position of the writer: the last value is never later than `maxHour` and
  `maxOffset` say, since `StartsHour` is tested under the mutex, a later hour
  moves `maxHour` up, and an offset that wraps (a time before the running hour)
  is larger than any that does not. `AloneInv` carries the comparison from line
  201 to the answer when nobody else runs.
- `BlocksAlwaysWhole`: as long as nobody has read, the data file has its
  hours exactly behind the header and the end marks, and the index exactly their
  positions. `BlockInv` follows the writer through the five writes of a new
  block (`InPhase`): the end of the log, and the index whole, with an hour
  without its position, or with the entry of the hour that is about to be written.

The server, `TsdbServerProofs`, for any uris, queries, offsets and number of
requests, over the store of `SensorStore` with its clock:

- `WriteTold` (`WriteAnswered`), without a hypothesis. `WalkInv` follows a request
  through its handler whatever the store does: it is called at most once, with the
  arguments it asked for, nothing is accepted while a call of another controller runs, and
  between the call and the answer `answer.ok` says whether the history has grown
  since the request came in (`WriteLeft`).
- `NegativesRefused` (`NegativeRefused`), under `NegativesWrap`. A write dated
  before 1970 is later than nothing only as long as `maxHour` is 0. `ClockedInv`
  says when that is so: before the first open the files are those of the start
  (`Untouched`), afterwards `maxHour` is 0 only while no value has an hour
  (`HourKnown`), even after writes with negative offsets, which leave
  `maxHour` alone and spoil `maxOffset`.
- `ReadTold` (`ReadAnswered`) and `RefusalsTold` (`FailureTold`), under
  `NegativesWrap` and `~HistoryReads` (with other reads the second is false,
  disagreement 12). The invariants of `SensorStoreProofs` do not hold
  here: writes with a negative offset put values into the file
  before any hour, which nothing decodes (disagreement 11), and maximum and history
  part. `StoredInv` is what is left. `LogInv`: the values before any
  header are those dated before the hour 1, each later one decodes to its own time
  (`Placed`, `DatedValues`), the file ends in its last hour (`EndsOpen`).
  `OpenedInv`: the stream is at its end between two calls, since `Asked` says of
  a read in progress that it runs there. Then a read of an hour, of a range and of
  the last value collects the values of the history at the times asked (`HourAnswered`,
  `RangeAnswered`, `LastAnswered`), which is `ReadLeft` until the answer is sent.
  Only a range may collect nothing instead, and only one that `BeginsElsewhere`:
  `findIndex` finds the first hour of the index and the last, and `RecordInv`
  (values are numbered, the first hour of the index has one) makes these the first
  and the last hour of the values (`NoOtherEnds`). `ReadTold` is this as a client
  sees it: a value of the winter, for which `ToTime` and `ToString` are inverse, is
  told exactly when the time shown is asked for. Of a call that returned false
  `FailureLeft` says that the error in
  `lastErrors` is that of this call and not an older one.

The other components:

- `IndexProbeProofs`: `SearchIsSound`, `EndsFoundAlways` and
  `MissedOnlyWhenProbedBefore`, from `Invariant` (hours strictly ascend, so an
  index of n entries spans at least n hours, and the slot
  `n * (h - lo) \div (hi - lo + 1)` stays inside it, equal to the last one
  for the last hour).
- The tool alone, first part of `CrashStoreProofs`: `RebuildIsExact` (`RunsSpec => []RebuiltExactly`) and
  `OldIndexSurvives` (`RunsSpec => []OldIndexKept`), for every data file of the right
  form, every index, every buffer and every sequence of failed, killed and
  repeated runs, and `ToolTypeCorrect`. The inductive invariant `ToolInv` joins to the
  types where the files are at each step (`FilesAt`: before the rename there may
  be an index, after it only a backup) and what has been built (`BuiltAt`: the
  header and the entries of the blocks before the one at `pos`, on disk and in
  the buffer together); `FoundAt` says where the index that the run found is. The core is
  `EntryAdded`: a turn of `buildBody` that reads a block adds its entry and no
  other. The stream lemmas make the place where the buffer is flushed irrelevant.
- `ResamplingProofs`: `AveragesAreMeans`, `EveryValueIsAveraged` and
  `ExtremesAreKept`, for every list in time order, every interval, and wherever
  the first value lies: they do not rest on the condition that the loop needs to
  end (`EarlyFirst`). `Area` is a recursive function; that there is one is proved
  from its beginnings (`SumsExist`), after which it is used through `AreaFacts`.
  The loop invariant (`LoopInv`) says that `totValue` is the area of the running
  interval up to `tLast`, that from there to the next value `lastValue` is in
  force, and that the running interval is the one after those made;
  `SpreadInv` that the minimum and the maximum of an interval are levels of the
  list and enclose its average, which is why an extreme put in the place of a
  dip or a peak only moves it outwards. A turn that takes a value adds a stretch under one value
  (`AreaOver`); the end of an interval adds the last one (`TotalFacts`).

Only model-checked: `LogSurvives` beside an index whose removal failed, where the
stream need not be at its end; `WebServer`, whose answers are what folds over the routes and
over the tokens of a uri compute, and `ReadersExact`, which is
not true of every file the callers may begin with: a search may miss an hour
(disagreement 3), and `ReadersAndWriters` begins with files where it does not. Out of the
prover's reach: liveness under fairness (`Returns`, `EveryCallReturns`,
`RefusalEnds`, `EveryRequestAnswered`), and inductions over data.

## Not modelled

- The vendored `mongoose` (about four fifths of the lines of the repository) and
  `dependency`, tests, examples and build files. The share of the code that the
  models stand for is small by lines for that reason: it is most of
  `LightTSDB.cpp`, the tool and the server's own files.
- `Close` and `Remove` while another call is between `getFilesInfo` and its end
  (line 352): a use of a destroyed mutex and of deleted streams has no outcomes
  to enumerate. The calls of `ConcurrentStore` begin with an open sensor.
- The order of memory accesses inside one method of `LtsdbFile` when a read and
  a write run it together, and reads of a range by several callers, whose steps
  are those of an hour.
- The 32-bit wrap of line 736, reached in 2106.
- More than one sensor, `SetFolder`, the pattern of `GetSensorList`; header
  options and version checks that every file the library writes passes; formatting,
  the file of `PageController`, `Start`, `Stop` and `Poll` of the web server.
- In `TsdbServer`, reads of a sensor that has values and no hour.

## Plan

Done: `HourlyTimestamp`, `LtsdbFile`, `IndexSearch` -> `SensorStore` ->
`TimeSeries` with the refinement; `IndexProbe`; `Resampling`; `RebuildIndex` ->
`CrashStore` -> `DurableSeries`; `ConcurrentStore`; `ClockSteps`; `WebRoutes`,
`WebServer`, `TsdbServer`; the proofs above. Next, in this order:

1. A width study of `ToTimeT` and of hour 0.
2. `ReadersExact` for the starting files in which every search finds its hour.
