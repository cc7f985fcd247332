---------------------------- MODULE MCGmailCursor ----------------------------
(***************************************************************************)
(* Instances of GmailCursor.                                               *)
(***************************************************************************)
EXTENDS GmailCursor, TLC

CONSTANTS s1, s2, h1, h2, j1, j2

(* Invocations are interchangeable. *)
ProcessSymmetry == Permutations(Handlers) \union Permutations(Jobs)
==============================================================================
