----------------------- MODULE NoticeClaimLockProofs -------------------------
(***************************************************************************)
(* What the claim rules guarantee for any number of owners and rows, any   *)
(* limits and intervals, and claims that commit in any order; and that the *)
(* claim transactions are such claims, for any number of them, whatever    *)
(* keys the owners' ids hash to, although each judges by a snapshot that   *)
(* may be old when it commits.                                             *)
(***************************************************************************)
EXTENDS NoticeClaimLock, FiniteSetTheorems, TLAPS

(* First the claims themselves (NoticeClaims).                             *)

(* Every stamp is a clock reading or NULL.                                 *)
THEOREM StampsTypeCorrect == ClaimsSpec => []StampsOK
<1>1. ClaimsInit => StampsOK
  BY DEF ClaimsInit, StampsOK, Stamp
<1>2. StampsOK /\ [ClaimsNext]_stamp => StampsOK'
  BY DEF StampsOK, ClaimsNext, ClaimRow, EraseRow, Stamp
<1>. QED BY <1>1, <1>2, PTL DEF ClaimsSpec

(* A stamp within a window stays so when the window begins earlier.        *)
LEMMA WithinMonotone ==
  ASSUME NEW s \in Stamp, NEW t \in Time, NEW w \in Time, NEW gap \in Nat,
         t <= w, Within(s, w, gap)
  PROVE  Within(s, t, gap)
  BY ClockReadings DEF Within, Stamp, Never

LEMMA NotWithin ==
  ASSUME NEW s \in Stamp, NEW t \in Time, NEW gap \in Nat, ~Within(s, t, gap)
  PROVE  s = Never \/ s <= t - gap
  BY ClockReadings DEF Within, Stamp, Never

(* Adding one row to a finite set of rows that is not yet full.            *)
LEMMA OneMore ==
  ASSUME NEW S \in SUBSET Rows, NEW T \in SUBSET Rows, NEW r, NEW n \in Nat,
         Cardinality(S) < n, T \subseteq S \union {r}
  PROVE  Cardinality(T) <= n
<1>1. IsFiniteSet(S)
  BY RowsFinite, FS_Subset
<1>2. /\ IsFiniteSet(S \union {r})
      /\ Cardinality(S \union {r}) <= Cardinality(S) + 1
  <2>1. CASE r \in S
    <3>1. S \union {r} = S BY <2>1
    <3>2. Cardinality(S) \in Nat BY <1>1, FS_CardinalityType
    <3>. QED BY <1>1, <3>1, <3>2
  <2>2. CASE r \notin S
    <3>1. Cardinality(S) \in Nat BY <1>1, FS_CardinalityType
    <3>2. IsFiniteSet(S \union {r}) /\ Cardinality(S \union {r}) = Cardinality(S) + 1
      BY <1>1, <2>2, FS_AddElement
    <3>. QED BY <3>1, <3>2
  <2>. QED BY <2>1, <2>2
<1>3. Cardinality(T) <= Cardinality(S \union {r}) /\ IsFiniteSet(T)
  BY <1>2, FS_Subset
<1>. QED BY <1>1, <1>2, <1>3, FS_CardinalityType

(* The daily cap: whatever the order in which claims commit, no 24-hour    *)
(* window of an owner holds more than MaxPerDay stamps.  The claim at t    *)
(* counts every stamp after t - Day, later ones included; a window that    *)
(* contains t and ends at w >= t begins no earlier, so its other stamps    *)
(* are among those counted.                                                *)
THEOREM CapHolds == ClaimsSpec => []CapOnStamps
<1>1. ClaimsInit => CapOnStamps
  <2>. SUFFICES ASSUME ClaimsInit, NEW o \in Owners, NEW w \in Time
                PROVE  Cardinality(DayOf(o, w)) <= MaxPerDay
    BY DEF CapOnStamps
  <2>1. DayOf(o, w) = {}
    BY DEF DayOf, RecentOf, Within, ClaimsInit
  <2>. QED BY <2>1, FS_EmptySet, Limits
<1>2. StampsOK /\ CapOnStamps /\ [ClaimsNext]_stamp => CapOnStamps'
  <2>. SUFFICES ASSUME StampsOK, CapOnStamps, [ClaimsNext]_stamp,
                       NEW o \in Owners, NEW w \in Time
                PROVE  Cardinality(DayOf(o, w)') <= MaxPerDay
    BY DEF CapOnStamps
  <2>0. /\ IsFiniteSet(DayOf(o, w)) /\ Cardinality(DayOf(o, w)) \in Nat
        /\ Cardinality(DayOf(o, w)) <= MaxPerDay
    <3>1. DayOf(o, w) \subseteq Rows BY DEF DayOf, RecentOf
    <3>. QED BY <3>1, RowsFinite, FS_Subset, FS_CardinalityType DEF CapOnStamps
  <2>1. ASSUME NEW r \in Rows, EraseRow(r)
        PROVE  Cardinality(DayOf(o, w)') <= MaxPerDay
    <3>1. DayOf(o, w)' \subseteq DayOf(o, w)
      BY <2>1 DEF DayOf, RecentOf, Within, EraseRow, StampsOK
    <3>. QED BY <2>0, <3>1, FS_Subset, FS_CardinalityType, Limits
  <2>2. ASSUME NEW r \in Rows, NEW t \in Time, ClaimRow(r, t)
        PROVE  Cardinality(DayOf(o, w)') <= MaxPerDay
    <3>1. CASE OwnerOf[r] = o /\ t <= w
      <4>1. Cardinality(RecentOf(stamp, t, o)) < MaxPerDay
        BY <2>2, <3>1 DEF ClaimRow, Permits, UnderCap
      <4>2. DayOf(o, w)' \subseteq RecentOf(stamp, t, o) \union {r}
        <5>. SUFFICES ASSUME NEW s \in DayOf(o, w)', s # r
                      PROVE  s \in RecentOf(stamp, t, o)
          OBVIOUS
        <5>1. s \in Rows /\ OwnerOf[s] = o /\ Within(stamp[s], w, Day)
          BY <2>2 DEF DayOf, RecentOf, ClaimRow, StampsOK
        <5>2. stamp[s] \in Stamp /\ Day \in Nat
          BY <5>1, Intervals DEF StampsOK
        <5>. QED BY <3>1, <5>1, <5>2, WithinMonotone DEF RecentOf
      <4>3. DayOf(o, w)' \subseteq Rows /\ RecentOf(stamp, t, o) \subseteq Rows
        BY DEF DayOf, RecentOf
      <4>. QED BY <4>1, <4>2, <4>3, OneMore, Limits
    <3>2. CASE ~(OwnerOf[r] = o /\ t <= w)
      <4>1. DayOf(o, w)' \subseteq DayOf(o, w)
        BY <2>2, <3>2 DEF DayOf, RecentOf, ClaimRow, StampsOK
      <4>. QED BY <2>0, <4>1, FS_Subset, FS_CardinalityType, Limits
    <3>. QED BY <3>1, <3>2
  <2>3. CASE UNCHANGED stamp
    BY <2>0, <2>3 DEF DayOf, RecentOf
  <2>. QED BY <2>1, <2>2, <2>3 DEF ClaimsNext
<1>. QED BY <1>1, <1>2, StampsTypeCorrect, PTL DEF ClaimsSpec

(* The circuit breaker, by the same argument over all owners.              *)
THEOREM BreakerHolds == ClaimsSpec => []BreakerOnStamps
<1>1. ClaimsInit => BreakerOnStamps
  <2>. SUFFICES ASSUME ClaimsInit, NEW w \in Time
                PROVE  Cardinality(HourOf(w)) <= GlobalHourlyMax
    BY DEF BreakerOnStamps
  <2>1. HourOf(w) = {}
    BY DEF HourOf, RecentGrants, Within, ClaimsInit, Rows
  <2>. QED BY <2>1, FS_EmptySet, Limits
<1>2. StampsOK /\ BreakerOnStamps /\ [ClaimsNext]_stamp => BreakerOnStamps'
  <2>. SUFFICES ASSUME StampsOK, BreakerOnStamps, [ClaimsNext]_stamp, NEW w \in Time
                PROVE  Cardinality(HourOf(w)') <= GlobalHourlyMax
    BY DEF BreakerOnStamps
  <2>0. /\ IsFiniteSet(HourOf(w)) /\ Cardinality(HourOf(w)) \in Nat
        /\ Cardinality(HourOf(w)) <= GlobalHourlyMax
    <3>1. HourOf(w) \subseteq Rows BY DEF HourOf, RecentGrants, Rows
    <3>. QED BY <3>1, RowsFinite, FS_Subset, FS_CardinalityType DEF BreakerOnStamps
  <2>1. ASSUME NEW r \in Rows, EraseRow(r)
        PROVE  Cardinality(HourOf(w)') <= GlobalHourlyMax
    <3>1. HourOf(w)' \subseteq HourOf(w)
      BY <2>1 DEF HourOf, RecentGrants, Within, EraseRow, StampsOK, Rows
    <3>. QED BY <2>0, <3>1, FS_Subset, FS_CardinalityType, Limits
  <2>2. ASSUME NEW r \in Rows, NEW t \in Time, ClaimRow(r, t)
        PROVE  Cardinality(HourOf(w)') <= GlobalHourlyMax
    <3>1. CASE r \in Grants /\ t <= w
      <4>1. Cardinality(RecentGrants(stamp, t)) < GlobalHourlyMax
        BY <2>2, <3>1 DEF ClaimRow, Permits, UnderBreaker
      <4>2. HourOf(w)' \subseteq RecentGrants(stamp, t) \union {r}
        <5>. SUFFICES ASSUME NEW s \in HourOf(w)', s # r
                      PROVE  s \in RecentGrants(stamp, t)
          OBVIOUS
        <5>1. s \in Grants /\ Within(stamp[s], w, Hour)
          BY <2>2 DEF HourOf, RecentGrants, ClaimRow, StampsOK, Rows
        <5>2. stamp[s] \in Stamp /\ Hour \in Nat
          BY <5>1, Intervals DEF StampsOK, Rows
        <5>. QED BY <3>1, <5>1, <5>2, WithinMonotone DEF RecentGrants
      <4>3. HourOf(w)' \subseteq Rows /\ RecentGrants(stamp, t) \subseteq Rows
        BY DEF HourOf, RecentGrants, Rows
      <4>. QED BY <4>1, <4>2, <4>3, OneMore, Limits
    <3>2. CASE ~(r \in Grants /\ t <= w)
      <4>1. HourOf(w)' \subseteq HourOf(w)
        BY <2>2, <3>2 DEF HourOf, RecentGrants, ClaimRow, StampsOK, Rows
      <4>. QED BY <2>0, <4>1, FS_Subset, FS_CardinalityType, Limits
    <3>. QED BY <3>1, <3>2
  <2>3. CASE UNCHANGED stamp
    BY <2>0, <2>3 DEF HourOf, RecentGrants
  <2>. QED BY <2>1, <2>2, <2>3 DEF ClaimsNext
<1>. QED BY <1>1, <1>2, StampsTypeCorrect, PTL DEF ClaimsSpec

(* Two stamped links of one owner are an episode apart, although each      *)
(* claim looks only at the stamps that are there when it commits.          *)
THEOREM LinkEpisodesHold == ClaimsSpec => []LinkEpisodesOnStamps
<1>1. ClaimsInit => LinkEpisodesOnStamps
  BY DEF ClaimsInit, LinkEpisodesOnStamps, Rows
<1>2. StampsOK /\ LinkEpisodesOnStamps /\ [ClaimsNext]_stamp => LinkEpisodesOnStamps'
  <2>. SUFFICES ASSUME StampsOK, LinkEpisodesOnStamps, [ClaimsNext]_stamp
                PROVE  LinkEpisodesOnStamps'
    OBVIOUS
  <2>1. ASSUME NEW r \in Rows, EraseRow(r)
        PROVE  LinkEpisodesOnStamps'
    BY <2>1 DEF EraseRow, LinkEpisodesOnStamps, StampsOK, Rows
  <2>2. ASSUME NEW x \in Rows, NEW t \in Time, ClaimRow(x, t)
        PROVE  LinkEpisodesOnStamps'
    <3>. SUFFICES ASSUME NEW r \in Links, NEW s \in Links, r # s, OwnerOf[r] = OwnerOf[s],
                         stamp'[r] # Never, stamp'[s] # Never, stamp'[r] <= stamp'[s]
                  PROVE  stamp'[r] <= stamp'[s] - LinkEpisode
      BY DEF LinkEpisodesOnStamps
    <3>0. \A y \in Links : y \in Rows /\ stamp[y] \in Stamp /\ stamp'[y] = IF y = x THEN t ELSE stamp[y]
      BY <2>2 DEF ClaimRow, StampsOK, Rows
    <3>1. LinkEpisode \in Nat \ {0}
      BY Intervals
    <3>2. x \in Links => \A y \in Links \ {x} : OwnerOf[y] = OwnerOf[x] =>
                           stamp[y] = Never \/ stamp[y] <= t - LinkEpisode
      BY <2>2, <3>0, <3>1, NotWithin DEF ClaimRow, Permits, NoLinkEpisode
    <3>t. t \in Nat
      BY ClockReadings
    <3>3. CASE r = x
      <4>1. stamp'[r] = t /\ stamp'[s] = stamp[s] /\ stamp[s] \in Nat
        BY <3>0, <3>3, ClockReadings DEF Stamp
      <4>2. stamp[s] <= t - LinkEpisode
        BY <3>2, <3>3, <4>1 DEF Never
      <4>. QED BY <3>1, <3>t, <4>1, <4>2
    <3>4. CASE s = x
      <4>1. stamp'[s] = t /\ stamp'[r] = stamp[r] /\ stamp[r] \in Nat
        BY <3>0, <3>4, ClockReadings DEF Stamp
      <4>2. stamp[r] <= t - LinkEpisode
        BY <3>2, <3>4, <4>1 DEF Never
      <4>. QED BY <4>1, <4>2
    <3>5. CASE r # x /\ s # x
      BY <3>0, <3>5 DEF LinkEpisodesOnStamps
    <3>. QED BY <3>3, <3>4, <3>5
  <2>3. CASE UNCHANGED stamp
    BY <2>3 DEF LinkEpisodesOnStamps
  <2>. QED BY <2>1, <2>2, <2>3 DEF ClaimsNext
<1>. QED BY <1>1, <1>2, StampsTypeCorrect, PTL DEF ClaimsSpec

(* The same for two refused accounts.                                      *)
THEOREM RefusalEpisodesHold == ClaimsSpec => []RefusalEpisodesOnStamps
<1>1. ClaimsInit => RefusalEpisodesOnStamps
  BY DEF ClaimsInit, RefusalEpisodesOnStamps, Rows
<1>2. StampsOK /\ RefusalEpisodesOnStamps /\ [ClaimsNext]_stamp => RefusalEpisodesOnStamps'
  <2>. SUFFICES ASSUME StampsOK, RefusalEpisodesOnStamps, [ClaimsNext]_stamp
                PROVE  RefusalEpisodesOnStamps'
    OBVIOUS
  <2>1. ASSUME NEW r \in Rows, EraseRow(r)
        PROVE  RefusalEpisodesOnStamps'
    BY <2>1 DEF EraseRow, RefusalEpisodesOnStamps, StampsOK, Rows
  <2>2. ASSUME NEW x \in Rows, NEW t \in Time, ClaimRow(x, t)
        PROVE  RefusalEpisodesOnStamps'
    <3>. SUFFICES ASSUME NEW r \in Refusals, NEW s \in Refusals, r # s, OwnerOf[r] = OwnerOf[s],
                         stamp'[r] # Never, stamp'[s] # Never, stamp'[r] <= stamp'[s]
                  PROVE  stamp'[r] <= stamp'[s] - RefusalEpisode
      BY DEF RefusalEpisodesOnStamps
    <3>0. \A y \in Refusals : y \in Rows /\ stamp[y] \in Stamp /\ stamp'[y] = IF y = x THEN t ELSE stamp[y]
      BY <2>2 DEF ClaimRow, StampsOK, Rows
    <3>1. RefusalEpisode \in Nat \ {0}
      BY Intervals
    <3>2. x \in Refusals => \A y \in Refusals : OwnerOf[y] = OwnerOf[x] =>
                              stamp[y] = Never \/ stamp[y] <= t - RefusalEpisode
      BY <2>2, <3>0, <3>1, NotWithin DEF ClaimRow, Permits, NoRefusalEpisode
    <3>t. t \in Nat
      BY ClockReadings
    <3>3. CASE r = x
      <4>1. stamp'[r] = t /\ stamp'[s] = stamp[s] /\ stamp[s] \in Nat
        BY <3>0, <3>3, ClockReadings DEF Stamp
      <4>2. stamp[s] <= t - RefusalEpisode
        BY <3>2, <3>3, <4>1 DEF Never
      <4>. QED BY <3>1, <3>t, <4>1, <4>2
    <3>4. CASE s = x
      <4>1. stamp'[s] = t /\ stamp'[r] = stamp[r] /\ stamp[r] \in Nat
        BY <3>0, <3>4, ClockReadings DEF Stamp
      <4>2. stamp[r] <= t - RefusalEpisode
        BY <3>2, <3>4, <4>1 DEF Never
      <4>. QED BY <4>1, <4>2
    <3>5. CASE r # x /\ s # x
      BY <3>0, <3>5 DEF RefusalEpisodesOnStamps
    <3>. QED BY <3>3, <3>4, <3>5
  <2>3. CASE UNCHANGED stamp
    BY <2>3 DEF RefusalEpisodesOnStamps
  <2>. QED BY <2>1, <2>2, <2>3 DEF ClaimsNext
<1>. QED BY <1>1, <1>2, StampsTypeCorrect, PTL DEF ClaimsSpec
------------------------------------------------------------------------------
(* The transactions.                                                       *)

(* A transaction past a lock statement holds that lock.                    *)
Locked(c) ==
  /\ tx[c].pc # "idle" => tx[c].row \in Rows
  /\ tx[c].pc \in {"global", "update", "where", "commit"} => lock[OwnerKey(tx[c].row)] = c
  /\ tx[c].pc \in {"update", "where", "commit"} /\ tx[c].row \in Grants => lock[GlobalKey] = c

(* The rows by which a claim of r is judged: the owner's, and for a grant  *)
(* those of the breaker.                                                   *)
Judged(r) == {s \in Rows : OwnerOf[s] = OwnerOf[r] \/ (r \in Grants /\ s \in Grants)}

(* Since the snapshot nothing was stamped among them, if some was erased.  *)
Current(c) ==
  Judging(c) => \A s \in Judged(tx[c].row) : stamp[s] # Never => stamp[s] = tx[c].snap[s]

(* What has updated its row was permitted to by its snapshot.              *)
Updated(c) ==
  tx[c].pc = "commit" => Permits(tx[c].snap, tx[c].began, tx[c].row) /\ stamp[tx[c].row] = Never

Sound(c) == Locked(c) /\ Current(c) /\ Updated(c)

IInv == TypeOK /\ \A c \in Txs : Sound(c)
------------------------------------------------------------------------------
LEMMA Keys == /\ GlobalKey \in LockKeys
              /\ \A r \in Rows : OwnerOf[r] \in Owners /\ OwnerKey(r) \in LockKeys
BY OwnersOfRows DEF GlobalKey, LockKeys, OwnerKey

(* Two that judge hold different locks.                                    *)
LEMMA LockedOut == (\A c \in Txs : Locked(c)) => Serialized
BY DEF Locked, Serialized, Judging, OwnerKey

(* Stamps that were erased make a claim no less permitted.                 *)
LEMMA ErasuresPermit ==
  ASSUME NEW old \in [Rows -> Stamp], NEW new \in [Rows -> Stamp], NEW r \in Rows, NEW t \in Time,
         Permits(old, t, r), new[r] = Never,
         \A s \in Judged(r) : new[s] # Never => new[s] = old[s]
  PROVE  Permits(new, t, r)
<1>1. \A s \in Judged(r) : \A gap : Within(new[s], t, gap) => Within(old[s], t, gap)
  BY DEF Within
<1>2. UnderCap(new, t, OwnerOf[r])
  <2>1. RecentOf(new, t, OwnerOf[r]) \subseteq RecentOf(old, t, OwnerOf[r])
    <3>. SUFFICES ASSUME NEW s \in Rows, OwnerOf[s] = OwnerOf[r], Within(new[s], t, Day)
                  PROVE  Within(old[s], t, Day)
      BY DEF RecentOf
    <3>. QED BY <1>1 DEF Judged
  <2>2. RecentOf(old, t, OwnerOf[r]) \subseteq Rows
    BY DEF RecentOf
  <2>. QED BY <2>1, <2>2, RowsFinite, FS_Subset, FS_CardinalityType, Limits DEF Permits, UnderCap
<1>3. ASSUME r \in Links PROVE NoLinkEpisode(new, t, r)
  <2>. SUFFICES ASSUME NEW s \in Links \ {r}, OwnerOf[s] = OwnerOf[r]
                PROVE  ~Within(new[s], t, LinkEpisode)
    BY DEF NoLinkEpisode
  <2>1. s \in Judged(r)
    BY DEF Judged, Rows
  <2>2. ~Within(old[s], t, LinkEpisode)
    BY <1>3 DEF Permits, NoLinkEpisode
  <2>. QED BY <1>1, <2>1, <2>2
<1>4. ASSUME r \in Refusals PROVE NoRefusalEpisode(new, t, OwnerOf[r])
  <2>. SUFFICES ASSUME NEW s \in Refusals, OwnerOf[s] = OwnerOf[r]
                PROVE  ~Within(new[s], t, RefusalEpisode)
    BY DEF NoRefusalEpisode
  <2>1. s \in Judged(r)
    BY DEF Judged, Rows
  <2>2. ~Within(old[s], t, RefusalEpisode)
    BY <1>4 DEF Permits, NoRefusalEpisode
  <2>. QED BY <1>1, <2>1, <2>2
<1>5. ASSUME r \in Grants PROVE UnderBreaker(new, t)
  <2>1. RecentGrants(new, t) \subseteq RecentGrants(old, t)
    <3>. SUFFICES ASSUME NEW s \in Grants, Within(new[s], t, Hour)
                  PROVE  Within(old[s], t, Hour)
      BY DEF RecentGrants
    <3>1. s \in Judged(r)
      BY <1>5 DEF Judged, Rows
    <3>. QED BY <1>1, <3>1
  <2>2. RecentGrants(old, t) \subseteq Rows
    BY DEF RecentGrants, Rows
  <2>. QED BY <1>5, <2>1, <2>2, RowsFinite, FS_Subset, FS_CardinalityType, Limits DEF Permits, UnderBreaker
<1>. QED BY <1>2, <1>3, <1>4, <1>5 DEF Permits
------------------------------------------------------------------------------
Tx == [pc : {"idle", "owner", "global", "update", "where", "commit"},
       row : Rows \union {NoRow}, began : Time, snap : [Rows -> Stamp]]

LEMMA IdleIsATx == Empty \in [Rows -> Stamp] /\ Idle \in Tx /\ Idle.pc = "idle"
BY ClockReadings DEF Idle, Tx, Empty, Stamp

(* A step replaces one transaction at most; the others keep what they have *)
(* unless they judge and the stamps change.                                *)
LEMMA TypeKept ==
  ASSUME TypeOK, [Next]_vars
  PROVE  TypeOK'
<1>. USE DEF Step
<1>0. tx \in [Txs -> Tx] /\ lock \in [LockKeys -> Txs \union {NoTx}] /\ stamp \in [Rows -> Stamp] /\ now \in Time
  BY DEF TypeOK, Tx
<1>1. ASSUME NEW c \in Txs, NEW p \in {"idle", "owner", "global", "update", "where", "commit"}, Step(c, p)
      PROVE  tx' \in [Txs -> Tx]
  <2>1. [tx[c] EXCEPT !.pc = p] \in Tx
    BY <1>0 DEF Tx
  <2>. QED BY <1>0, <1>1, <2>1
<1>2. ASSUME NEW c \in Txs PROVE Unlocked(c) \in [LockKeys -> Txs \union {NoTx}]
  BY <1>0 DEF Unlocked
<1>3. ASSUME NEW c \in Txs, tx' = [tx EXCEPT ![c] = Idle] PROVE tx' \in [Txs -> Tx]
  BY <1>0, <1>3, IdleIsATx
<1>4. ASSUME NEW c \in Txs, NEW r \in Rows, Begin(c, r) PROVE TypeOK'
  <2>1. [Idle EXCEPT !.pc = "owner", !.row = r, !.began = now] \in Tx
    BY <1>0, IdleIsATx DEF Tx
  <2>2. tx' \in [Txs -> Tx]
    BY <1>0, <1>4, <2>1 DEF Begin
  <2>. QED BY <1>0, <1>4, <2>2 DEF Begin, TypeOK, Tx
<1>5. ASSUME NEW c \in Txs, LockOwner(c) \/ LockGlobal(c) \/ UpdateRow(c) PROVE TypeOK'
  <2>1. tx' \in [Txs -> Tx]
    BY <1>1, <1>5 DEF LockOwner, LockGlobal, UpdateRow
  <2>2. lock' \in [LockKeys -> Txs \union {NoTx}]
    BY <1>0, <1>5 DEF LockOwner, LockGlobal, UpdateRow
  <2>. QED BY <1>0, <1>5, <2>1, <2>2 DEF LockOwner, LockGlobal, UpdateRow, TypeOK, Tx
<1>6. ASSUME NEW c \in Txs, StartUpdate(c) PROVE TypeOK'
  <2>1. tx' = [tx EXCEPT ![c] = [tx[c] EXCEPT !.pc = "where", !.snap = stamp]]
    BY <1>0, <1>6 DEF StartUpdate
  <2>2. [tx[c] EXCEPT !.pc = "where", !.snap = stamp] \in Tx
    BY <1>0 DEF Tx
  <2>3. tx' \in [Txs -> Tx]
    BY <1>0, <2>1, <2>2
  <2>. QED BY <1>0, <1>6, <2>3 DEF StartUpdate, TypeOK, Tx
<1>7. ASSUME NEW c \in Txs, UpdateNothing(c) \/ Abort(c) PROVE TypeOK'
  BY <1>0, <1>2, <1>3, <1>7 DEF UpdateNothing, Abort, TypeOK, Tx
<1>8. ASSUME NEW c \in Txs, Commit(c) PROVE TypeOK'
  <2>1. tx[c].began \in Stamp
    BY <1>0 DEF Tx, Stamp
  <2>2. stamp' \in [Rows -> Stamp]
    BY <1>0, <1>8, <2>1 DEF Commit
  <2>. QED BY <1>0, <1>2, <1>3, <1>8, <2>2 DEF Commit, TypeOK, Tx
<1>9. ASSUME NEW r \in Rows, Erase(r) PROVE TypeOK'
  BY <1>0, <1>9 DEF Erase, TypeOK, Stamp, Tx
<1>10. CASE Tick
  BY <1>0, <1>10 DEF Tick, TypeOK, Tx
<1>11. CASE UNCHANGED vars
  BY <1>11 DEF vars, TypeOK
<1>. QED BY <1>4, <1>5, <1>6, <1>7, <1>8, <1>9, <1>10, <1>11 DEF Next, Progress
------------------------------------------------------------------------------
LEMMA Initially == Init => IInv
<1>. SUFFICES ASSUME Init PROVE IInv
  OBVIOUS
<1>1. TypeOK
  BY IdleIsATx, ClockReadings DEF Init, TypeOK, Tx
<1>2. \A c \in Txs : tx[c].pc = "idle"
  BY IdleIsATx DEF Init
<1>. QED BY <1>1, <1>2 DEF IInv, Sound, Locked, Current, Updated, Judging

(* A transaction that a step leaves alone, its locks and the stamps too.   *)
LEMMA LeftAlone ==
  ASSUME NEW d \in Txs, Sound(d), tx'[d] = tx[d], stamp' = stamp,
         \A k \in LockKeys : lock[k] = d => lock'[k] = d
  PROVE  Sound(d)'
<1>1. tx[d].pc \in {"global", "update", "where", "commit"} => OwnerKey(tx[d].row) \in LockKeys
  BY Keys DEF Sound, Locked
<1>2. Locked(d)'
  BY <1>1, Keys DEF Sound, Locked
<1>3. Current(d)' /\ Updated(d)'
  BY DEF Sound, Current, Updated, Judging
<1>. QED BY <1>2, <1>3 DEF Sound

(* Nobody else's locks are freed or taken.                                 *)
LEMMA LocksKept ==
  ASSUME TypeOK, NEW c \in Txs, NEW d \in Txs, c # d, NEW k \in LockKeys, lock[k] = d
  PROVE  /\ Unlocked(c)[k] = d
         /\ \A l \in LockKeys : Free(l, c) => [lock EXCEPT ![l] = c][k] = d
BY NoValues DEF TypeOK, Unlocked, Free

LEMMA SoundKept ==
  ASSUME IInv, [Next]_vars
  PROVE  \A d \in Txs : Sound(d)'
<1>. SUFFICES ASSUME NEW d \in Txs PROVE Sound(d)'
  OBVIOUS
<1>. USE DEF Step
<1>0. /\ TypeOK /\ Sound(d) /\ tx \in [Txs -> Tx] /\ lock \in [LockKeys -> Txs \union {NoTx}]
      /\ stamp \in [Rows -> Stamp]
  BY DEF IInv, TypeOK, Tx
<1>1. ASSUME NEW c \in Txs, tx' = [tx EXCEPT ![c] = Idle], lock' = Unlocked(c), stamp' = stamp
      PROVE  Sound(d)'
  <2>1. CASE d = c
    <3>1. tx'[d].pc = "idle"
      BY <1>0, <1>1, <2>1, IdleIsATx
    <3>. QED BY <3>1 DEF Sound, Locked, Current, Updated, Judging
  <2>2. CASE d # c
    BY <1>0, <1>1, <2>2, LeftAlone, LocksKept
  <2>. QED BY <2>1, <2>2
<1>2. ASSUME NEW c \in Txs, NEW r \in Rows, Begin(c, r) PROVE Sound(d)'
  <2>1. CASE d = c
    <3>1. tx'[d].pc = "owner" /\ tx'[d].row = r
      BY <1>0, <1>2, <2>1 DEF Begin, Idle
    <3>. QED BY <3>1 DEF Sound, Locked, Current, Updated, Judging
  <2>2. CASE d # c
    BY <1>0, <1>2, <2>2, LeftAlone DEF Begin
  <2>. QED BY <2>1, <2>2
<1>3. ASSUME NEW c \in Txs, LockOwner(c) PROVE Sound(d)'
  <2>1. CASE d = c
    <3>1. /\ tx'[d].row = tx[d].row /\ tx'[d].row \in Rows
          /\ tx'[d].pc = IF tx[d].row \in Grants THEN "global" ELSE "update"
      BY <1>0, <1>3, <2>1 DEF LockOwner, Sound, Locked, Tx
    <3>2. lock'[OwnerKey(tx'[d].row)] = d
      BY <1>0, <1>3, <2>1, <3>1, Keys DEF LockOwner
    <3>. QED BY <3>1, <3>2 DEF Sound, Locked, Current, Updated, Judging
  <2>2. CASE d # c
    BY <1>0, <1>3, <2>2, LeftAlone, LocksKept, Keys DEF LockOwner, Sound, Locked
  <2>. QED BY <2>1, <2>2
<1>4. ASSUME NEW c \in Txs, LockGlobal(c) PROVE Sound(d)'
  <2>1. CASE d = c
    <3>1. tx'[d].row = tx[d].row /\ tx'[d].row \in Rows /\ tx'[d].pc = "update"
      BY <1>0, <1>4, <2>1 DEF LockGlobal, Sound, Locked, Tx
    <3>2. lock'[OwnerKey(tx'[d].row)] = d /\ lock'[GlobalKey] = d
      BY <1>0, <1>4, <2>1, <3>1, Keys DEF LockGlobal, Sound, Locked
    <3>. QED BY <3>1, <3>2 DEF Sound, Locked, Current, Updated, Judging
  <2>2. CASE d # c
    BY <1>0, <1>4, <2>2, LeftAlone, LocksKept, Keys DEF LockGlobal
  <2>. QED BY <2>1, <2>2
<1>5. ASSUME NEW c \in Txs, StartUpdate(c) PROVE Sound(d)'
  <2>1. CASE d = c
    <3>1. tx'[d] = [tx[d] EXCEPT !.pc = "where", !.snap = stamp]
      BY <1>0, <1>5, <2>1 DEF StartUpdate
    <3>2. tx'[d].row = tx[d].row /\ tx'[d].pc = "where" /\ tx'[d].snap = stamp
      BY <1>0, <3>1 DEF Tx
    <3>3. Locked(d)'
      BY <1>0, <1>5, <2>1, <3>2 DEF StartUpdate, Sound, Locked
    <3>4. Current(d)' /\ Updated(d)'
      BY <1>5, <3>2 DEF StartUpdate, Current, Updated
    <3>. QED BY <3>3, <3>4 DEF Sound
  <2>2. CASE d # c
    BY <1>0, <1>5, <2>2, LeftAlone DEF StartUpdate
  <2>. QED BY <2>1, <2>2
<1>6. ASSUME NEW c \in Txs, UpdateRow(c) PROVE Sound(d)'
  <2>1. CASE d = c
    <3>1. tx'[d] = [tx[d] EXCEPT !.pc = "commit"]
      BY <1>0, <1>6, <2>1 DEF UpdateRow
    <3>2. /\ tx'[d].row = tx[d].row /\ tx'[d].pc = "commit" /\ tx'[d].snap = tx[d].snap
          /\ tx'[d].began = tx[d].began /\ tx[d].pc = "where"
      BY <1>0, <1>6, <2>1, <3>1 DEF Tx, UpdateRow
    <3>3. Locked(d)'
      BY <1>0, <1>6, <3>2 DEF UpdateRow, Sound, Locked
    <3>4. Current(d)' /\ Updated(d)'
      BY <1>0, <1>6, <2>1, <3>2 DEF UpdateRow, Sound, Current, Updated, Judging
    <3>. QED BY <3>3, <3>4 DEF Sound
  <2>2. CASE d # c
    BY <1>0, <1>6, <2>2, LeftAlone DEF UpdateRow
  <2>. QED BY <2>1, <2>2
<1>7. ASSUME NEW c \in Txs, UpdateNothing(c) \/ Abort(c) PROVE Sound(d)'
  BY <1>1, <1>7 DEF UpdateNothing, Abort
<1>8. ASSUME NEW c \in Txs, Commit(c) PROVE Sound(d)'
  <2>1. CASE d = c
    <3>1. tx'[d].pc = "idle"
      BY <1>0, <1>8, <2>1, IdleIsATx DEF Commit
    <3>. QED BY <3>1 DEF Sound, Locked, Current, Updated, Judging
  <2>2. CASE d # c
    <3>1. tx'[d] = tx[d] /\ \A k \in LockKeys : lock[k] = d => lock'[k] = d
      BY <1>0, <1>8, <2>2, LocksKept DEF Commit
    <3>2. Locked(d)'
      BY <1>0, <3>1, Keys DEF Sound, Locked
    <3>3. Judging(d) => tx[c].row \in Rows /\ tx[c].row \notin Judged(tx[d].row) /\ tx[c].row # tx[d].row
      BY <1>8, <2>2, LockedOut DEF IInv, Sound, Serialized, Judging, Judged, Commit, Locked
    <3>4. \A s \in Rows : s # tx[c].row => stamp'[s] = stamp[s]
      BY <1>0, <1>8 DEF Commit
    <3>5. Judging(d) => tx[d].row \in Rows /\ Judged(tx[d].row) \subseteq Rows
      BY <1>0 DEF Sound, Locked, Judged, Judging
    <3>6. Current(d)'
      BY <1>0, <3>1, <3>3, <3>4, <3>5 DEF Sound, Current, Judging
    <3>7. Updated(d)'
      BY <1>0, <3>1, <3>3, <3>4, <3>5 DEF Sound, Updated, Judging
    <3>. QED BY <3>2, <3>6, <3>7 DEF Sound
  <2>. QED BY <2>1, <2>2
<1>9. ASSUME NEW r \in Rows, Erase(r) PROVE Sound(d)'
  <2>1. tx' = tx /\ lock' = lock
    BY <1>9 DEF Erase
  <2>2. \A s \in Rows : stamp'[s] = Never \/ stamp'[s] = stamp[s]
    BY <1>0, <1>9 DEF Erase
  <2>3. Locked(d)'
    BY <1>0, <2>1 DEF Sound, Locked
  <2>4. Current(d)'
    BY <1>0, <2>1, <2>2 DEF Sound, Current, Judged, Judging
  <2>5. Updated(d)'
    BY <1>0, <2>1, <2>2 DEF Sound, Updated, Locked
  <2>. QED BY <2>3, <2>4, <2>5 DEF Sound
<1>10. CASE Tick \/ UNCHANGED vars
  <2>1. tx' = tx /\ lock' = lock /\ stamp' = stamp
    BY <1>10 DEF Tick, vars
  <2>. QED BY <1>0, <2>1, LeftAlone
<1>. QED BY <1>2, <1>3, <1>4, <1>5, <1>6, <1>7, <1>8, <1>9, <1>10 DEF Next, Progress

LEMMA Invariance == Spec => []IInv
<1>1. IInv /\ [Next]_vars => IInv'
  BY TypeKept, SoundKept DEF IInv
<1>. QED BY Initially, <1>1, PTL DEF Spec
------------------------------------------------------------------------------
(* Every state of the transactions is of its type.                         *)
THEOREM LockTypeCorrect == Spec => []TypeOK
<1>1. IInv => TypeOK
  BY DEF IInv
<1>. QED BY <1>1, Invariance, PTL

(* Two transactions that judge by their snapshots are never of one owner,  *)
(* nor both of dead grants, though owners' ids may collide in their hash,  *)
(* with each other and with the breaker's key.                             *)
THEOREM JudgedAlone == Spec => []Serialized
<1>1. IInv => Serialized
  BY LockedOut DEF IInv, Sound
<1>. QED BY <1>1, Invariance, PTL

(* The transactions implement the atomic claims: what a commit stamps is   *)
(* permitted by the stamps committed at that moment, not only by those of  *)
(* the snapshot; all else is an erasure, or changes no stamp.              *)
THEOREM TransactionsImplementClaims == Spec => ImplementsClaims
<1>1. Init => ClaimsInit
  BY DEF Init, ClaimsInit, Empty
<1>2. ASSUME IInv, [Next]_vars PROVE [ClaimsNext]_stamp
  <2>1. ASSUME NEW c \in Txs, Commit(c) PROVE ClaimsNext
    <3>1. /\ tx[c] \in Tx /\ stamp \in [Rows -> Stamp] /\ Sound(c) /\ tx[c].pc = "commit"
      BY <1>2, <2>1 DEF IInv, TypeOK, Tx, Commit
    <3>2. /\ tx[c].row \in Rows /\ tx[c].began \in Time /\ tx[c].snap \in [Rows -> Stamp]
          /\ Permits(tx[c].snap, tx[c].began, tx[c].row) /\ stamp[tx[c].row] = Never
          /\ \A s \in Judged(tx[c].row) : stamp[s] # Never => stamp[s] = tx[c].snap[s]
      BY <3>1 DEF Tx, Sound, Locked, Updated, Current, Judging
    <3>3. Permits(stamp, tx[c].began, tx[c].row)
      BY <3>1, <3>2, ErasuresPermit
    <3>. QED BY <2>1, <3>2, <3>3 DEF Commit, ClaimRow, ClaimsNext
  <2>2. ASSUME NEW r \in Rows, Erase(r) PROVE ClaimsNext
    BY <2>2 DEF Erase, EraseRow, ClaimsNext
  <2>3. ASSUME NEW c \in Txs, NEW r \in Rows, Begin(c, r)
        PROVE  stamp' = stamp
    BY <2>3 DEF Begin
  <2>4. ASSUME NEW c \in Txs,
               \/ LockOwner(c) \/ LockGlobal(c) \/ StartUpdate(c)
               \/ UpdateRow(c) \/ UpdateNothing(c) \/ Abort(c)
        PROVE  stamp' = stamp
    BY <2>4 DEF LockOwner, LockGlobal, StartUpdate, UpdateRow, UpdateNothing, Abort
  <2>5. CASE Tick \/ UNCHANGED vars
    BY <2>5 DEF Tick, vars
  <2>. QED BY <1>2, <2>1, <2>2, <2>3, <2>4, <2>5 DEF Next, Progress
<1>. QED BY <1>1, <1>2, Invariance, PTL DEF Spec, ImplementsClaims, ClaimsSpec

(* What is true of atomic claims is true of the transactions: no 24-hour   *)
(* window of an owner holds more than MaxPerDay committed stamps.          *)
THEOREM TransactionsKeepCap == Spec => []CapOnStamps
BY TransactionsImplementClaims, CapHolds, PTL DEF ImplementsClaims

(* Two refused accounts of one owner are stamped an episode apart.         *)
THEOREM TransactionsKeepEpisodes == Spec => []RefusalEpisodesOnStamps
BY TransactionsImplementClaims, RefusalEpisodesHold, PTL DEF ImplementsClaims
==============================================================================
