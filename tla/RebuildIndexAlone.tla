-------------------------- MODULE RebuildIndexAlone --------------------------
(* The tool on the files of a sensor nobody else uses: runs, killed runs and *)
(* runs again.                                                               *)
EXTENDS RebuildIndex

CONSTANTS
  DataFiles,   \* what the data file may hold, a set of sequences of cells
  IndexFiles,  \* what the index file may hold
  MaxRuns      \* bound: runs of the tool

ASSUME FilesAssumption == DataFiles \subseteq Seq(DataCell) /\ IndexFiles \subseteq Seq(IndexCell)
ASSUME MaxRunsAssumption == MaxRuns \in Nat

VARIABLES
  found,   \* the index file the last run found
  runs     \* runs so far

runsVars == <<toolVars, found, runs>>

OnDisk(cells) == Stream("present", cells, <<>>, 0)

RunsInit ==
  /\ data \in {OnDisk(c) : c \in DataFiles} \union {Absent}
  /\ index \in {OnDisk(c) : c \in IndexFiles} \union {Absent}
  /\ backup \in {OnDisk(c) : c \in IndexFiles} \union {Absent}
  /\ step = "idle" /\ pos = 0 /\ result = ""
  /\ found = Absent /\ runs = 0

StartRun ==
  /\ runs < MaxRuns
  /\ Start
  /\ found' = index /\ runs' = runs + 1

Continue == RemoveBackup \/ RenameIndex \/ OpenFiles \/ CreateHeader \/ BuildBlock
              \/ CloseFiles

RunsNext == StartRun \/ ((Continue \/ Killed) /\ UNCHANGED <<found, runs>>)

RunsSpec == RunsInit /\ [][RunsNext]_runsVars

-----------------------------------------------------------------------------
Results == {"", "TRUE", "REMOVE_BAK", "RENAME_BAK", "OPEN_DAT", "CREATE_NDX", "HEADER_REA",
            "CHECK_SIG", "HEADER_WRI", "HOUR_WRI", "OFFSET_WRI"}

(* Every variable stays in its type; the tool reads inside the data file,    *)
(* and between two runs nothing is left in a buffer.                         *)
ToolTypeOK ==
  /\ data \in StreamType(DataCell)
  /\ index \in StreamType(IndexCell)
  /\ backup \in StreamType(IndexCell)
  /\ step \in Steps /\ pos \in Nat /\ result \in Results
  /\ found \in StreamType(IndexCell) /\ runs \in Nat
  /\ pos <= Len(Contents(data))
  /\ step = "idle" => index.buf = <<>>

(* buildBody: whatever index, torn index or backup it found, and however     *)
(* often it was killed before, a run that returns true leaves the index of   *)
(* the data file: every hour, once, in order, and nothing else.              *)
RebuiltExactly ==
  LET c == Contents(data)
  IN  step = "idle" /\ result = "TRUE" /\ WellFormed(c) /\ EndsWhole(c)
        => IndexedUpTo(Contents(index), c, Len(c))

(* renameFileIndex: the index file a run found is never gone.  Until the     *)
(* next run it is still the index file, or it is the backup.                 *)
OldIndexKept == FileExists(found) => found \in {index, backup}
=============================================================================
