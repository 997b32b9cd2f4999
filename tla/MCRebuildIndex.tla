--------------------------- MODULE MCRebuildIndex ---------------------------
(* Files for TLC: logs of up to MaxBlocks hours of one or two values, whole  *)
(* or cut, and what may stand for the index.                                 *)
EXTENDS RebuildIndexAlone, SequencesExt

CONSTANT MaxBlocks

Block(hour, size) == <<HourCell(hour)>> \o [v \in 1 .. size |-> ValueCell(v - 1, v)]

Log(sizes) ==
  <<HeaderCell("Float")>>
    \o FlattenSeq([h \in 1 .. Len(sizes) |->
                     (IF h = 1 THEN <<>> ELSE <<EndLine>>) \o Block(h, sizes[h])])

MCDataFiles ==
  LET logs  == {Log(s) : s \in UNION {[1 .. n -> 1 .. 2] : n \in 1 .. MaxBlocks}}
      whole == CHOOSE l \in logs : \A m \in logs : Len(m) <= Len(l)
  IN  logs \union {SubSeq(whole, 1, n) : n \in 0 .. Len(whole)}
        \union {Append(l, TornCell(1)) : l \in logs} \union {<<ForeignHeader>>}

MCIndexFiles ==
  {<<>>, <<HeaderCell("Float")>>, <<HeaderCell("Float"), IndexEntry(1, 1)>>,
   <<HeaderCell("Float"), HalfEntry(1)>>}
=============================================================================
