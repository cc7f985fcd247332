--------------------------- MODULE MCOwnerNotices ----------------------------
(***************************************************************************)
(* Instances of OwnerNotices.  A tick is at least the five minutes of      *)
(* NOTIFY_MIN_GAP_MS; the configurations shrink the day and the fortnight  *)
(* to a few ticks, keeping their order.                                    *)
(***************************************************************************)
EXTENDS OwnerNotices, TLC

CONSTANTS o1, o2, l1, l2, f1, f2, g1, g2, a1, a2, a3, MaxNow, c1, c2,
          dead, scope

MCTime == 0..MaxNow
RowOwner == l1 :> o1 @@ l2 :> o1 @@ f1 :> o1 @@ f2 :> o1 @@ g1 :> o1 @@ g2 :> o2
MCOwnerOf == [r \in Rows |-> RowOwner[r]]
MCEmailOf == [o \in Owners |-> IF o = o1 THEN a1 ELSE a2]
Mailbox == g1 :> a1 @@ g2 :> a2
MCMailboxOf == [g \in Grants |-> Mailbox[g]]

MCClassesOf == [g \in Grants |-> IF g = g1 THEN Classes ELSE {dead}]

(* Calls are interchangeable. *)
CallSymmetry == Permutations(Calls)
==============================================================================
