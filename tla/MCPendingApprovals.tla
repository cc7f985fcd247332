------------------------- MODULE MCPendingApprovals -------------------------
(* An instance of PendingApprovals: an agent asks to read a file and to    *)
(* write to it; the owner may answer the first by allowing both.           *)
EXTENDS PendingApprovals

CONSTANTS expose, write, read, readWrite
MCWants(l) == IF l = expose THEN read ELSE readWrite
MCPicks(l) == IF l = expose THEN {readWrite} ELSE {}
MCCovers(g) == IF g = read THEN {read, readWrite} ELSE {g}
==============================================================================
