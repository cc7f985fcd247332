------------------------------ MODULE MCUploads ------------------------------
(* An instance of Uploads. *)
EXTENDS Uploads, TLC

CONSTANTS c1, c2, a, b
TwoCallers == {c1, c2}
TwoRecipients == {a, b}
Interchangeable == Permutations(Callers) \cup Permutations(Recipients)
==============================================================================
