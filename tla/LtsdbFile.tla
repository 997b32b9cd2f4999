------------------------------ MODULE LtsdbFile ------------------------------
(* Class LtsdbFile: a binary std::fstream opened with in|out|app.            *)
(*                                                                           *)
(* A file is the sequence of the items written to it, one cell per write     *)
(* call of the class; positions count cells from 0.  `cells' is what reached *)
(* the file, `buf' what the stream still buffers, `pos' the position of the  *)
(* file descriptor.  Because of `app' a flush appends to the end of the file *)
(* wherever `pos' is, and only then moves `pos' to the end; tellp adds the   *)
(* buffered cells to `pos' without flushing.                                 *)
EXTENDS Integers, Sequences

CONSTANT BufCap     \* cells that fill the stream buffer (8 KiB in libstdc++)

ASSUME BufCapAssumption == BufCap \in Nat \ {0}

Contents(f) == f.cells \o f.buf

Stream(state, cells, buf, pos) ==
  [state |-> state, cells |-> cells, buf |-> buf, pos |-> pos]

Flush(f) == IF f.buf = <<>> THEN f
            ELSE Stream(f.state, Contents(f), <<>>, Len(Contents(f)))

Absent == Stream("absent", <<>>, <<>>, 0)

FileExists(f) == f.state = "present"

Open(f) == Stream("present", f.cells, f.buf, 0)

(* Mutant: a stream that is dropped without being flushed.                   *)
CloseUnflushed(f) == Stream(f.state, f.cells, <<>>, 0)

(* Closing flushes; what is on disk stays.                                   *)
Close(f) == Stream(f.state, Contents(f), <<>>, 0)

(* WriteHeader, WriteHourlyTimestamp, WriteValue and WriteEndLine: the bytes *)
(* are buffered, and a write that fills the buffer flushes it.               *)
Put(f, cell) ==
  LET buffered == Stream(f.state, f.cells, Append(f.buf, cell), f.pos)
  IN  IF Len(buffered.buf) < BufCap THEN buffered ELSE Flush(buffered)

(* Mutant: a tellp that forgets what is still buffered.                      *)
TellpOnDisk(f) == f.pos

Tellp(f) == f.pos + Len(f.buf)

(* Seekg and Seekp flush, then set the position.                             *)
SeekTo(f, position) == Stream(f.state, Contents(f), <<>>, position)

SeekEnd(f) == SeekTo(f, Len(Contents(f)))

(* The cell a read at `position' meets, when there is one.                   *)
HasCell(f, position) == position \in 0 .. Len(Contents(f)) - 1
CellAt(f, position)  == Contents(f)[position + 1]

StreamType(Cell) ==
  [state : {"absent", "present"}, cells : Seq(Cell), buf : Seq(Cell), pos : Nat]
=============================================================================
