-------------------------- MODULE MCNoticeClaimLock --------------------------
(***************************************************************************)
(* Instances of NoticeClaimLock: two owners; links, refusals and a grant of *)
(* the first, a grant of the second.                                       *)
(***************************************************************************)
EXTENDS NoticeClaimLock, TLC

CONSTANTS o1, o2, l1, l2, f1, f2, g1, g2, t1, t2, t3, MaxNow

MCTime == 0..MaxNow
RowOwner == l1 :> o1 @@ l2 :> o1 @@ f1 :> o1 @@ f2 :> o1 @@ g1 :> o1 @@ g2 :> o2
MCOwnerOf == [r \in Rows |-> RowOwner[r]]
(* o2's id hashes to the breaker's key. *)
MCHashOf == o1 :> 1 @@ o2 :> 0
==============================================================================
