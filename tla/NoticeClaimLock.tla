-------------------------- MODULE NoticeClaimLock ----------------------------
(***************************************************************************)
(* The transaction of one claim: src/src/lib/notifyClaimLock.ts, and what  *)
(* PostgreSQL does with it under READ COMMITTED.  db.batch runs            *)
(*      SELECT pg_advisory_xact_lock(ns, hashtext(owner));                 *)
(*      SELECT pg_advisory_xact_lock(ns, 0);        (dead grants only)     *)
(*      UPDATE ledger SET notified_at = now() WHERE ...                    *)
(* in one transaction.  The UPDATE sees the snapshot taken when it starts, *)
(* not when the transaction began, while now() is the time at which the    *)
(* transaction began.  Releases and episode resets are single UPDATEs      *)
(* outside the locks.                                                      *)
(***************************************************************************)
EXTENDS NoticeClaims

CONSTANTS
  Txs,        \* concurrent claim transactions
  HashOf,     \* hashtext of an owner's id: the second lock key
  NoRow, NoTx

GlobalKey == 0            \* globalNoticeLockSql
OwnerKey(r) == HashOf[OwnerOf[r]]
LockKeys == {HashOf[o] : o \in Owners} \union {GlobalKey}

ASSUME Hashes == HashOf \in [Owners -> Int]
ASSUME NoValues == NoRow \notin Rows /\ NoTx \notin Txs

VARIABLES
  now,        \* the wall clock
  tx,         \* claim transactions in flight
  lock        \* holder of each advisory lock

vars == <<now, stamp, tx, lock>>   \* stamp: the committed notified_at

Empty == [r \in Rows |-> Never]

Idle == [pc |-> "idle", row |-> NoRow, began |-> 0, snap |-> Empty]

Init ==
  /\ now = 0
  /\ stamp = Empty
  /\ tx = [c \in Txs |-> Idle]
  /\ lock = [k \in LockKeys |-> NoTx]

Free(k, c) == lock[k] \in {NoTx, c}     \* a transaction may lock a key twice
Step(c, pc) == tx' = [tx EXCEPT ![c].pc = pc]

(* Fault: the breaker's lock is a session's, and outlives the claim. *)
UnlockedOwnerOnly(c) ==
  [k \in LockKeys |-> IF lock[k] = c /\ k # GlobalKey THEN NoTx ELSE lock[k]]
(* pg_advisory_xact_lock: the end of the transaction frees its locks. *)
Unlocked(c) == [k \in LockKeys |-> IF lock[k] = c THEN NoTx ELSE lock[k]]

(* Fault: the claim's UPDATE is sent by itself. *)
BeginUnlocked(c, r) ==
  /\ tx[c] = Idle
  /\ tx' = [tx EXCEPT ![c] = [Idle EXCEPT !.pc = "update", !.row = r, !.began = now]]
  /\ UNCHANGED <<now, stamp, lock>>

(* The batch opens the transaction: now() is fixed here. *)
Begin(c, r) ==
  /\ tx[c] = Idle
  /\ tx' = [tx EXCEPT ![c] = [Idle EXCEPT !.pc = "owner", !.row = r, !.began = now]]
  /\ UNCHANGED <<now, stamp, lock>>

(* Fault: dead-grant claims do not take the breaker's lock. *)
LockOwnerOnly(c) ==
  /\ tx[c].pc = "owner"
  /\ Free(OwnerKey(tx[c].row), c)
  /\ lock' = [lock EXCEPT ![OwnerKey(tx[c].row)] = c]
  /\ Step(c, "update")
  /\ UNCHANGED <<now, stamp>>

LockOwner(c) ==
  /\ tx[c].pc = "owner"
  /\ Free(OwnerKey(tx[c].row), c)
  /\ lock' = [lock EXCEPT ![OwnerKey(tx[c].row)] = c]
  /\ Step(c, IF tx[c].row \in Grants THEN "global" ELSE "update")
  /\ UNCHANGED <<now, stamp>>

LockGlobal(c) ==
  /\ tx[c].pc = "global"
  /\ Free(GlobalKey, c)
  /\ lock' = [lock EXCEPT ![GlobalKey] = c]
  /\ Step(c, "update")
  /\ UNCHANGED <<now, stamp>>

(* The UPDATE starts: its snapshot is what is committed now. *)
StartUpdate(c) ==
  /\ tx[c].pc = "update"
  /\ tx' = [tx EXCEPT ![c].pc = "where", ![c].snap = stamp]
  /\ UNCHANGED <<now, stamp, lock>>

RowLocked(r) == \E c \in Txs : tx[c].pc = "commit" /\ tx[c].row = r

(* The WHERE holds in the snapshot, and the row version that is current    *)
(* when its row lock is obtained still has notified_at NULL: the row is    *)
(* updated, uncommitted.                                                   *)
UpdateRow(c) ==
  /\ tx[c].pc = "where"
  /\ Permits(tx[c].snap, tx[c].began, tx[c].row)
  /\ ~RowLocked(tx[c].row)
  /\ stamp[tx[c].row] = Never
  /\ Step(c, "commit")
  /\ UNCHANGED <<now, stamp, lock>>

(* No row qualifies: the transaction commits having changed nothing. *)
UpdateNothing(c) ==
  /\ tx[c].pc = "where"
  /\ \/ ~Permits(tx[c].snap, tx[c].began, tx[c].row)
     \/ ~RowLocked(tx[c].row) /\ stamp[tx[c].row] # Never
  /\ tx' = [tx EXCEPT ![c] = Idle]
  /\ lock' = Unlocked(c)
  /\ UNCHANGED <<now, stamp>>

(* Commit publishes the stamp and frees the transaction's locks together. *)
Commit(c) ==
  /\ tx[c].pc = "commit"
  /\ stamp' = [stamp EXCEPT ![tx[c].row] = tx[c].began]
  /\ tx' = [tx EXCEPT ![c] = Idle]
  /\ lock' = Unlocked(c)
  /\ UNCHANGED now

(* The connection drops before the commit: the transaction rolls back. *)
Abort(c) ==
  /\ tx[c].pc # "idle"
  /\ tx' = [tx EXCEPT ![c] = Idle]
  /\ lock' = Unlocked(c)
  /\ UNCHANGED <<now, stamp>>

(* A release, or an episode reset: one UPDATE of its own, no advisory      *)
(* lock; it waits for a claim that has updated the row.                    *)
Erase(r) ==
  /\ stamp[r] # Never
  /\ ~RowLocked(r)
  /\ stamp' = [stamp EXCEPT ![r] = Never]
  /\ UNCHANGED <<now, tx, lock>>

Tick ==
  /\ now + 1 \in Time
  /\ now' = now + 1
  /\ UNCHANGED <<stamp, tx, lock>>

Progress(c) ==
  \/ LockOwner(c) \/ LockGlobal(c) \/ StartUpdate(c)
  \/ UpdateRow(c) \/ UpdateNothing(c) \/ Commit(c)

Next ==
  \/ \E c \in Txs : Progress(c) \/ Abort(c) \/ \E r \in Rows : Begin(c, r)
  \/ \E r \in Rows : Erase(r)
  \/ Tick

Spec == Init /\ [][Next]_vars

(* PostgreSQL runs the statements of a batch without waiting for anybody   *)
(* else (weak fairness), and serves a lock's waiters in order (strong      *)
(* fairness of the two lock steps).                                        *)
Fairness ==
  \A c \in Txs :
    /\ WF_vars(StartUpdate(c)) /\ WF_vars(Commit(c))
    /\ WF_vars(UpdateRow(c) \/ UpdateNothing(c))
    /\ SF_vars(LockOwner(c)) /\ SF_vars(LockGlobal(c))

FairSpec == Spec /\ Fairness
------------------------------------------------------------------------------
TypeOK ==
  /\ now \in Time
  /\ stamp \in [Rows -> Stamp]
  /\ tx \in [Txs -> [pc : {"idle", "owner", "global", "update", "where", "commit"},
                     row : Rows \union {NoRow}, began : Time, snap : [Rows -> Stamp]]]
  /\ lock \in [LockKeys -> Txs \union {NoTx}]

(* The transactions implement the atomic claims of NoticeClaims, whose     *)
(* stamps are the committed ones: a claim happens when it commits.         *)
ImplementsClaims == ClaimsSpec

(* "No two claims can deadlock" (notifyClaimLock.ts:24-25): every claim    *)
(* that was begun finishes, however many wait for the owner's lock or the  *)
(* breaker's.                                                              *)
EveryClaimFinishes == \A c \in Txs : (tx[c].pc # "idle") ~> (tx[c].pc = "idle")

(* "A hash collision between two owners only serializes them needlessly,   *)
(* never lets one through" (notifyClaimLock.ts:35-36): past its lock       *)
(* statements a transaction is the only one of its owner, and the only     *)
(* dead-grant claim of all owners, between its snapshot and its commit.    *)
Judging(c) == tx[c].pc \in {"where", "commit"}
Serialized ==
  \A c, d \in Txs :
    c # d /\ Judging(c) /\ Judging(d) =>
      /\ OwnerOf[tx[c].row] # OwnerOf[tx[d].row]
      /\ ~(tx[c].row \in Grants /\ tx[d].row \in Grants)
==============================================================================
