-------------------------- MODULE MCConcurrentStore --------------------------
(* Callers and files for TLC: a new sensor, and one whose hours have a gap,  *)
(* so that the search of an hour may walk back.                              *)
EXTENDS ConcurrentStoreProps

CONSTANTS c1, c2

GapBlocks == <<<<2, 3>>, <<10>>, <<12>>>>

NewOrGap == {<<>>, GapBlocks}
OneHour  == {<<<<2, 3>>>>}
=============================================================================
