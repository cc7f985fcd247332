--------------------------- MODULE MCWallRouting ---------------------------
(* An instance of WallRouting: links whose markers differ.                 *)
EXTENDS WallRouting, TLC

CONSTANTS l1, l2, t1, t2
MCMarks(l) == l
Interchangeable == Permutations(Tabs) \cup Permutations(Links)
==============================================================================
