--------------------------- MODULE MCDriveLineage ---------------------------
(* An instance of DriveLineage: a file in a folder in a folder of My       *)
(* Drive, which may move out of sight, in a circle or to a shared drive.   *)
EXTENDS DriveLineage, TLC

CONSTANTS u1, file, inner, outer, w1, w2
MCNodes == {file, inner, outer}
MCSeen == [u \in Users |-> file :> inner @@ inner :> outer @@ outer :> "mine"]
MCMoves ==
  {<<file, outer>>, <<inner, "mine">>, <<outer, inner>>, <<outer, "gone">>, <<outer, "drive">>,
   <<inner, "shared">>, <<file, "gone">>}
NoSetting == [n \in Nodes \cup {SharedWithMe, SharedDrives} |-> "none"]
MCSettings ==
  {[on |-> [NoSetting EXCEPT ![n] = a, ![m] = "read"], default |-> d] :
     n \in DOMAIN NoSetting, m \in DOMAIN NoSetting, a \in {"write", "block"}, d \in {"read", "block"}}
Interchangeable == Permutations(Walkers)
==============================================================================
