---------------------------- MODULE FailingStream ----------------------------
(* The stream of LtsdbFile with its fail bit, which reads and writes share.  *)
(* A read takes place where the descriptor stands; when cells are buffered   *)
(* by a write it first flushes them, which takes the descriptor to the end   *)
(* of the file, where there is nothing to read.  A read that finds nothing   *)
(* and a seek before the beginning set the bit; while it is set every        *)
(* operation does nothing but clear().                                       *)
EXTENDS LtsdbFile

Good(file)   == [file |-> file, bad |-> FALSE]
Failed(file) == [file |-> file, bad |-> TRUE]

WriteTo(s, cell) == IF s.bad THEN s ELSE Good(Put(s.file, cell))

(* Mutant: tellp of a stream that holds buffered cells.                      *)
PositionOnDisk(s) == IF s.bad THEN -1 ELSE s.file.pos

PositionOf(s) == IF s.bad THEN -1 ELSE Tellp(s.file)

SeekIn(s, position) ==
  IF s.bad THEN s
  ELSE IF position < 0 THEN Failed(Flush(s.file))
  ELSE Good(SeekTo(s.file, position))

SeekInEnd(s) == IF s.bad THEN s ELSE Good(SeekEnd(s.file))

Here(s)     == Flush(s.file).pos
CanRead(s)  == ~s.bad /\ HasCell(s.file, Here(s))
ReadCell(s) == CellAt(s.file, Here(s))

(* Mutant: a read drops what a write has buffered.                           *)
AfterReadDropping(s) ==
  IF s.bad THEN s
  ELSE IF s.file.buf # <<>> THEN Failed(SeekTo(CloseUnflushed(s.file), s.file.pos))
  ELSE IF CanRead(s) THEN Good(SeekTo(s.file, Here(s) + 1))
  ELSE Failed(s.file)

AfterRead(s) ==
  IF s.bad THEN s
  ELSE IF CanRead(s) THEN Good(SeekTo(s.file, Here(s) + 1))
  ELSE Failed(Flush(s.file))

Cleared(s) == Good(s.file)
=============================================================================
