-------------------------- MODULE OwnerNoticesProofs --------------------------
(***************************************************************************)
(* OwnerNotices for any number of owners, rows, calls and clock readings:  *)
(* type correctness, the refinement of the atomic claims, at most one mail *)
(* per refused account and per episode of a link or of a dead grant, the   *)
(* cap on an owner's mails of a day and the breaker on the grants' mails   *)
(* of an hour, but for what a change of a grant's class excuses, and       *)
(* suppression that is never lifted.                                       *)
(***************************************************************************)
EXTENDS OwnerNotices, FiniteSetTheorems, TLAPS

(* TypeOK does not say that a call that has begun is about a row, nor that *)
(* one that is sending has the time of its claim; its mail needs both.     *)
CallsBusy ==
  \A c \in Calls :
    /\ call[c].pc # "idle" => call[c].row \in Rows
    /\ call[c].pc = "read" => call[c].row \in Links
    /\ call[c].pc = "send" => call[c].stamp \in Time

TypeInv == TypeOK /\ CallsBusy

LEMMA IdleOK == Idle \in CallOK
  BY ClockReadings, NoneIsNothing DEF Idle, CallOK, Stamp

(* Entering a call, with the clock as it is.                               *)
LEMMA EnterOK ==
  ASSUME TypeInv, NEW c \in Calls, NEW pc \in {"read", "claim"}, NEW r \in Rows,
         pc = "read" => r \in Links,
         NEW cc \in Addresses \union {None}, NEW ep \in Nat, Enter(c, pc, r, cc, ep)
  PROVE  call' \in [Calls -> CallOK] /\ CallsBusy'
<1>. DEFINE new == [Idle EXCEPT !.pc = pc, !.row = r, !.cc = cc, !.episode = ep, !.since = now]
<1>1. new \in CallOK /\ new.pc = pc /\ new.row = r
  BY IdleOK, ClockReadings DEF TypeInv, TypeOK, SystemOK, CallOK, Idle
<1>2. call' = [call EXCEPT ![c] = new]
  BY DEF Enter
<1>. HIDE DEF new
<1>. QED BY <1>1, <1>2 DEF TypeInv, TypeOK, SystemOK, CallsBusy

LEMMA ReturnOK ==
  ASSUME TypeInv, NEW c \in Calls, Return(c)
  PROVE  call' \in [Calls -> CallOK] /\ CallsBusy'
<1>1. Idle \in CallOK /\ Idle.pc = "idle"
  BY IdleOK DEF Idle
<1>. QED BY <1>1 DEF TypeInv, TypeOK, SystemOK, CallsBusy, Return

LEMMA GotoOK ==
  ASSUME TypeInv, NEW c \in Calls, call[c].pc # "idle", NEW pc \in {"claim", "release"}, Goto(c, pc)
  PROVE  call' \in [Calls -> CallOK] /\ CallsBusy'
<1>. DEFINE new == [call[c] EXCEPT !.pc = pc]
<1>1. call[c] \in CallOK
  BY DEF TypeInv, TypeOK, SystemOK
<1>2. new \in CallOK /\ new.pc = pc /\ new.row = call[c].row
  BY <1>1 DEF CallOK
<1>3. call' = [call EXCEPT ![c] = new]
  BY DEF Goto
<1>4. call[c].row \in Rows
  BY DEF TypeInv, CallsBusy
<1>. HIDE DEF new
<1>. QED BY <1>2, <1>3, <1>4 DEF TypeInv, TypeOK, SystemOK, CallsBusy

(* A mail is well formed.                                                  *)
LEMMA SentOK ==
  ASSUME TypeInv, NEW c \in Calls, call[c].pc = "send"
  PROVE  /\ Sent(c) => mails' \in Seq(MailOK)
         /\ Mail(c) \in MailOK
<1>1. call[c].row \in Rows /\ call[c].stamp \in Time /\ call[c] \in CallOK /\ mails \in Seq(MailOK)
  BY DEF TypeInv, TypeOK, SystemOK, CallsBusy
<1>2. RecipientOf(call[c].row) \in Addresses
  BY <1>1, AddressBook, OwnersOfRows DEF RecipientOf
<1>3. RecipientsOf(c) \subseteq Addresses
  BY <1>1, <1>2 DEF RecipientsOf, CallOK
<1>4. Mail(c) \in MailOK
  BY <1>1, <1>3 DEF Mail, MailOK, CallOK
<1>. QED BY <1>1, <1>4 DEF Sent

(* What a claim stamps, and what a release erases, keep their types.       *)
LEMMA StampedOK ==
  ASSUME TypeInv, NEW r \in Rows, Claimable(r), Stamped(r)
  PROVE  /\ link' \in [Links -> LinkOK]
         /\ refusal' \in [Refusals -> RefusalOK]
         /\ grant' \in [Grants -> GrantOK]
<1>1. now \in Stamp
  BY DEF TypeInv, TypeOK, SystemOK, Stamp
<1>2. r \in Grants => grant[r].notifiedCount < 1 /\ grant[r].notifiedCount \in 0..1
  BY DEF Claimable, TypeInv, TypeOK, SystemOK, GrantOK
<1>3. r \in Grants => grant[r].notifiedCount + 1 \in 0..1
  BY <1>2
<1>4. link' \in [Links -> LinkOK]
  BY <1>1 DEF Stamped, TypeInv, TypeOK, SystemOK, LinkOK
<1>5. refusal' \in [Refusals -> RefusalOK]
  BY <1>1 DEF Stamped, TypeInv, TypeOK, SystemOK, RefusalOK
<1>6. grant' \in [Grants -> GrantOK]
  <2>1. CASE r \notin Grants
    BY <2>1 DEF Stamped, TypeInv, TypeOK, SystemOK
  <2>2. CASE r \in Grants
    <3>. DEFINE new == [grant[r] EXCEPT !.notifiedAt = now, !.notifiedCount = @ + 1]
    <3>1. new \in GrantOK
      BY <1>1, <1>3, <2>2 DEF TypeInv, TypeOK, SystemOK, GrantOK
    <3>2. grant' = [grant EXCEPT ![r] = new]
      BY <2>2 DEF Stamped
    <3>. QED BY <2>2, <3>1, <3>2 DEF TypeInv, TypeOK, SystemOK
  <2>. QED BY <2>1, <2>2
<1>. QED BY <1>4, <1>5, <1>6

(* TypeOK and CallsBusy hold in every reachable state.                     *)
THEOREM TypesAndCalls == Spec => []TypeInv
<1>1. Init => TypeInv
  <2>. SUFFICES ASSUME Init PROVE TypeInv
    OBVIOUS
  <2>1. now \in Time /\ filed \subseteq (Nat \X Addresses) /\ marking \subseteq Addresses
    BY ClockReadings DEF Init
  <2>2. link \in [Links -> LinkOK]
    BY ClockReadings DEF Init, NoLink, Stamp, LinkOK
  <2>3. refusal \in [Refusals -> RefusalOK]
    BY ClockReadings, Parameters DEF Init, NoRefusal, Stamp, RefusalOK
  <2>4. grant \in [Grants -> GrantOK]
    BY ClockReadings DEF Init, NoFailure, Stamp, GrantOK
  <2>5. call \in [Calls -> CallOK] /\ CallsBusy
    BY IdleOK DEF Init, CallsBusy, Idle
  <2>6. mails \in Seq(MailOK)
    BY DEF Init
  <2>7. unsettled = {} /\ excused = {}
    BY DEF Init
  <2>. QED BY <2>1, <2>2, <2>3, <2>4, <2>5, <2>6, <2>7 DEF TypeInv, TypeOK, SystemOK
<1>2. TypeInv /\ [Next]_vars => TypeInv'
  <2>. SUFFICES ASSUME TypeInv, [Next]_vars PROVE TypeInv'
    OBVIOUS
  <2>. USE DEF ledgers, bounces
  <2>1. ASSUME NEW c \in Calls, NEW r \in Links, Mint(c, r)
        PROVE  SystemOK' /\ CallsBusy'
    <3>1. call' \in [Calls -> CallOK] /\ CallsBusy'
      BY <2>1, EnterOK DEF Mint, Rows
    <3>2. link' \in [Links -> LinkOK]
      <4>1. Least(link[r].mintCount + 1, 2) \in 0..2
        BY DEF TypeInv, TypeOK, SystemOK, LinkOK, Least
      <4>. QED BY <2>1, <4>1 DEF Mint, TypeInv, TypeOK, SystemOK, LinkOK
    <3>. QED BY <2>1, <3>1, <3>2 DEF Mint, TypeInv, TypeOK, SystemOK
  <2>2. ASSUME NEW c \in Calls, NEW r \in Refusals, Refuse(c, r)
        PROVE  SystemOK' /\ CallsBusy'
    <3>1. call' \in [Calls -> CallOK] /\ CallsBusy'
      <4>1. CASE Enter(c, "claim", r, None, 0)
        BY <4>1, EnterOK DEF Rows
      <4>2. CASE UNCHANGED call
        BY <4>2 DEF TypeInv, TypeOK, SystemOK, CallsBusy
      <4>. QED BY <2>2, <4>1, <4>2 DEF Refuse
    <3>2. refusal' \in [Refusals -> RefusalOK]
      <4>. DEFINE old == refusal[r]
                  fresh == old.windowCount = 0 \/ old.lastRefusedAt < now - Day
                  count == IF fresh THEN 1 ELSE Least(old.windowCount + 1, NotifyAfter)
                  new == [old EXCEPT !.windowCount = count,
                                     !.windowStartedAt = IF fresh THEN now ELSE @,
                                     !.lastRefusedAt = now]
      <4>1. old \in RefusalOK /\ now \in Time
        BY DEF TypeInv, TypeOK, SystemOK
      <4>2. count \in 0..NotifyAfter
        BY <4>1, Parameters DEF RefusalOK, Least
      <4>3. new \in RefusalOK
        <5>. HIDE DEF old, count, fresh
        <5>. QED BY <4>1, <4>2 DEF RefusalOK
      <4>4. refusal' = [refusal EXCEPT ![r] = new]
        BY <2>2, <4>1 DEF Refuse, RefusalOK
      <4>. HIDE DEF new
      <4>. QED BY <4>3, <4>4 DEF TypeInv, TypeOK, SystemOK
    <3>. QED BY <2>2, <3>1, <3>2 DEF Refuse, TypeInv, TypeOK, SystemOK
  <2>3. ASSUME NEW c \in Calls, NEW g \in Grants, NEW class \in Classes,
               NEW cc \in Delegates \union {None}, FailGrant(c, g, class, cc)
        PROVE  SystemOK' /\ CallsBusy'
    <3>1. grant' \in [Grants -> GrantOK]
      <4>. DEFINE old == grant[g]
                  stale == old.class # None /\ (old.lastFailedAt < now - GrantEpisode \/ old.class # class)
                  row == [old EXCEPT !.class = class, !.lastFailedAt = now,
                                     !.notifiedCount = IF stale THEN 0 ELSE @,
                                     !.notifiedAt = IF stale THEN Never ELSE @,
                                     !.episode = IF stale THEN @ + 1 ELSE @]
      <4>1. row \in GrantOK
        <5>1. old \in GrantOK /\ now \in Time
          BY DEF TypeInv, TypeOK, SystemOK
        <5>. HIDE DEF old, stale
        <5>2. CASE stale
          <6>1. row = [old EXCEPT !.class = class, !.lastFailedAt = now, !.notifiedCount = 0,
                                  !.notifiedAt = Never, !.episode = old.episode + 1]
            BY <5>1, <5>2 DEF GrantOK
          <6>2. old.episode + 1 \in Nat /\ Never \in Stamp /\ 0 \in 0..1
            BY <5>1 DEF GrantOK, Stamp
          <6>. HIDE DEF row
          <6>. QED BY <5>1, <6>1, <6>2 DEF GrantOK
        <5>3. CASE ~stale
          BY <5>1, <5>3 DEF GrantOK, Stamp
        <5>. QED BY <5>2, <5>3
      <4>2. grant' = [grant EXCEPT ![g] = row]
        BY <2>3 DEF FailGrant
      <4>. HIDE DEF row
      <4>. QED BY <4>1, <4>2 DEF TypeInv, TypeOK, SystemOK
    <3>2. call' \in [Calls -> CallOK] /\ CallsBusy'
      <4>1. CASE \E ep \in Nat : Enter(c, "claim", g, cc, ep)
        BY <4>1, EnterOK, AddressBook DEF Rows
      <4>2. CASE UNCHANGED call
        BY <4>2 DEF TypeInv, TypeOK, SystemOK, CallsBusy
      <4>3. grant'[g].episode \in Nat
        BY <3>1 DEF GrantOK
      <4>4. Enter(c, "claim", g, cc, grant'[g].episode) \/ UNCHANGED call
        BY <2>3 DEF FailGrant, TypeInv, TypeOK, SystemOK
      <4>. QED BY <4>1, <4>2, <4>3, <4>4
    <3>. QED BY <2>3, <3>1, <3>2 DEF FailGrant, TypeInv, TypeOK, SystemOK
  <2>4. ASSUME NEW c \in Calls, ReadLink(c)
        PROVE  SystemOK' /\ CallsBusy'
    <3>1. call' \in [Calls -> CallOK] /\ CallsBusy'
      BY <2>4, GotoOK, ReturnOK DEF ReadLink
    <3>. QED BY <2>4, <3>1 DEF ReadLink, TypeInv, TypeOK, SystemOK
  <2>5. ASSUME NEW c \in Calls, Claim(c)
        PROVE  SystemOK' /\ CallsBusy'
    <3>1. call[c].row \in Rows /\ Claimable(call[c].row) /\ Stamped(call[c].row)
      BY <2>5 DEF Claim, TypeInv, CallsBusy
    <3>2. call' \in [Calls -> CallOK] /\ CallsBusy'
      <4>. DEFINE new == [call[c] EXCEPT !.pc = "send", !.stamp = now]
      <4>1. call[c] \in CallOK /\ now \in Time
        BY DEF TypeInv, TypeOK, SystemOK
      <4>2. new \in CallOK /\ new.pc = "send" /\ new.row = call[c].row /\ new.stamp = now
        BY <4>1 DEF CallOK, Stamp
      <4>3. call' = [call EXCEPT ![c] = new]
        BY <2>5 DEF Claim
      <4>. HIDE DEF new
      <4>. QED BY <3>1, <4>1, <4>2, <4>3 DEF TypeInv, TypeOK, SystemOK, CallsBusy
    <3>. QED BY <2>5, <3>1, <3>2, StampedOK DEF Claim, TypeInv, TypeOK, SystemOK
  <2>6. ASSUME NEW c \in Calls, ClaimRefused(c) \/ Die(c)
        PROVE  SystemOK' /\ CallsBusy'
    BY <2>6, ReturnOK DEF ClaimRefused, Die, TypeInv, TypeOK, SystemOK
  <2>7. ASSUME NEW c \in Calls, SendAccepted(c) \/ SendUnconfirmed(c)
        PROVE  SystemOK' /\ CallsBusy'
    <3>1. call[c].pc = "send" /\ Return(c) /\ (Sent(c) \/ UNCHANGED mails)
      BY <2>7 DEF SendAccepted, SendUnconfirmed
    <3>2. mails' \in Seq(MailOK)
      BY <3>1, SentOK DEF TypeInv, TypeOK, SystemOK
    <3>. QED BY <2>7, <3>1, <3>2, ReturnOK DEF SendAccepted, SendUnconfirmed, TypeInv, TypeOK, SystemOK
  <2>8. ASSUME NEW c \in Calls, SendRefused(c)
        PROVE  SystemOK' /\ CallsBusy'
    BY <2>8, GotoOK DEF SendRefused, TypeInv, TypeOK, SystemOK
  <2>9. ASSUME NEW c \in Calls, Release(c)
        PROVE  SystemOK' /\ CallsBusy'
    <3>1. call' \in [Calls -> CallOK] /\ CallsBusy'
      BY <2>9, ReturnOK DEF Release
    <3>2. link' \in [Links -> LinkOK] /\ refusal' \in [Refusals -> RefusalOK]
      <4>1. link' \in [Links -> LinkOK]
        BY <2>9 DEF Release, TypeInv, TypeOK, SystemOK, Stamp, LinkOK
      <4>2. refusal' \in [Refusals -> RefusalOK]
        BY <2>9 DEF Release, TypeInv, TypeOK, SystemOK, Stamp, RefusalOK
      <4>. QED BY <4>1, <4>2
    <3>3. grant' \in [Grants -> GrantOK]
      <4>. DEFINE r == call[c].row
                  count == IF grant[r].notifiedCount > 0 THEN grant[r].notifiedCount - 1 ELSE 0
                  new == [grant[r] EXCEPT !.notifiedAt = Never, !.notifiedCount = count]
      <4>1. CASE r \in Grants
        <5>1. grant[r] \in GrantOK
          BY <4>1 DEF TypeInv, TypeOK, SystemOK
        <5>2. count \in 0..1
          BY <5>1 DEF GrantOK
        <5>3. new \in GrantOK
          BY <5>1, <5>2 DEF GrantOK, Stamp
        <5>4. grant' = [grant EXCEPT ![r] = new]
          BY <2>9, <4>1, <5>1 DEF Release, GrantOK
        <5>. HIDE DEF new
        <5>. QED BY <5>3, <5>4 DEF TypeInv, TypeOK, SystemOK
      <4>2. CASE r \notin Grants
        BY <2>9, <4>2 DEF Release, TypeInv, TypeOK, SystemOK
      <4>. QED BY <4>1, <4>2
    <3>. QED BY <2>9, <3>1, <3>2, <3>3 DEF Release, TypeInv, TypeOK, SystemOK
  <2>10. ASSUME NEW r \in Links, Open(r)
         PROVE  SystemOK' /\ CallsBusy'
    BY <2>10 DEF Open, TypeInv, TypeOK, SystemOK, LinkOK, CallsBusy
  <2>11. ASSUME NEW i \in 1..Len(mails), NEW a \in Addresses, FileBounce(i, a)
         PROVE  SystemOK' /\ CallsBusy'
    <3>1. i \in Nat
      BY DEF TypeInv, TypeOK, SystemOK
    <3>. QED BY <2>11, <3>1 DEF FileBounce, TypeInv, TypeOK, SystemOK, CallsBusy
  <2>12. ASSUME NEW a \in Addresses, MarkGrants(a) \/ SweepDies(a)
         PROVE  SystemOK' /\ CallsBusy'
    <3>1. \A g \in Grants : [grant[g] EXCEPT !.undeliverable = TRUE] \in GrantOK /\ grant[g] \in GrantOK
      BY DEF TypeInv, TypeOK, SystemOK, GrantOK
    <3>2. grant' \in [Grants -> GrantOK]
      BY <2>12, <3>1 DEF MarkGrants, SweepDies, TypeInv, TypeOK, SystemOK
    <3>. QED BY <2>12, <3>2 DEF MarkGrants, SweepDies, TypeInv, TypeOK, SystemOK, CallsBusy
  <2>13. ASSUME Tick PROVE SystemOK' /\ CallsBusy'
    BY <2>13 DEF Tick, TypeInv, TypeOK, SystemOK, CallsBusy
  <2>14. ASSUME UNCHANGED vars PROVE SystemOK' /\ CallsBusy'
    BY <2>14 DEF vars, TypeInv, TypeOK, SystemOK, CallsBusy
  <2>15. unsettled' \subseteq Grants /\ excused' \subseteq DOMAIN mails'
    <3>1. CASE Excuse
      BY <3>1 DEF Excuse, Turned, TypeInv, TypeOK
    <3>2. CASE UNCHANGED vars
      BY <3>2 DEF vars, TypeInv, TypeOK
    <3>. QED BY <3>1, <3>2 DEF Next
  <2>16. \A g \in Grants : ClassesOf[g] \subseteq Classes
    BY AddressBook
  <2>17. ASSUME NEW c \in Calls, Event(c) PROVE SystemOK' /\ CallsBusy'
    BY <2>1, <2>2, <2>3, <2>16, <2>17 DEF Event
  <2>18. SystemOK' /\ CallsBusy'
    BY <2>4, <2>5, <2>6, <2>7, <2>8, <2>9, <2>10, <2>11, <2>12, <2>13, <2>14, <2>17
    DEF Next, Step, CallStep, Sweep
  <2>. QED BY <2>15, <2>18 DEF TypeInv, TypeOK
<1>. QED BY <1>1, <1>2, PTL DEF Spec

(* Type correctness of the ledgers, the calls and the mails.               *)
THEOREM TypeCorrect == Spec => []TypeOK
  BY TypesAndCalls, PTL DEF TypeInv
------------------------------------------------------------------------------
(* What each step does to the stamps of the three ledgers.                 *)
LEMMA StampedStamps ==
  ASSUME TypeInv, NEW r \in Rows, Stamped(r)
  PROVE  NotifiedAt' = [NotifiedAt EXCEPT ![r] = now]
<1>1. \A l \in Links : link'[l].notifiedAt = IF l = r THEN now ELSE link[l].notifiedAt
  BY DEF Stamped, TypeInv, TypeOK, SystemOK, LinkOK
<1>2. \A f \in Refusals : refusal'[f].notifiedAt = IF f = r THEN now ELSE refusal[f].notifiedAt
  BY DEF Stamped, TypeInv, TypeOK, SystemOK, RefusalOK
<1>3. \A g \in Grants : grant'[g].notifiedAt = IF g = r THEN now ELSE grant[g].notifiedAt
  BY DEF Stamped, TypeInv, TypeOK, SystemOK, GrantOK
<1>4. \A q \in Rows : NotifiedAt'[q] = IF q = r THEN now ELSE NotifiedAt[q]
  BY <1>1, <1>2, <1>3 DEF NotifiedAt, Rows
<1>. QED BY <1>4 DEF NotifiedAt

LEMMA ReleasedStamps ==
  ASSUME TypeInv, NEW c \in Calls, Release(c)
  PROVE  NotifiedAt' = [NotifiedAt EXCEPT ![call[c].row] = Never]
<1>. DEFINE r == call[c].row
<1>1. \A l \in Links : link'[l].notifiedAt = IF l = r THEN Never ELSE link[l].notifiedAt
  BY DEF Release, TypeInv, TypeOK, SystemOK, LinkOK
<1>2. \A f \in Refusals : refusal'[f].notifiedAt = IF f = r THEN Never ELSE refusal[f].notifiedAt
  BY DEF Release, TypeInv, TypeOK, SystemOK, RefusalOK
<1>3. \A g \in Grants : grant'[g].notifiedAt = IF g = r THEN Never ELSE grant[g].notifiedAt
  BY DEF Release, TypeInv, TypeOK, SystemOK, GrantOK
<1>4. \A q \in Rows : NotifiedAt'[q] = IF q = r THEN Never ELSE NotifiedAt[q]
  BY <1>1, <1>2, <1>3 DEF NotifiedAt, Rows
<1>. QED BY <1>4 DEF NotifiedAt

LEMMA FailedStamps ==
  ASSUME TypeInv, NEW c \in Calls, NEW g \in Grants, NEW class, NEW cc, FailGrant(c, g, class, cc)
  PROVE  NotifiedAt' \in {NotifiedAt, [NotifiedAt EXCEPT ![g] = Never]}
<1>. DEFINE old == grant[g]
            stale == old.class # None /\ (old.lastFailedAt < now - GrantEpisode \/ old.class # class)
<1>1. grant'[g].notifiedAt = IF stale THEN Never ELSE old.notifiedAt
  BY DEF FailGrant, TypeInv, TypeOK, SystemOK, GrantOK
<1>2. \A h \in Grants \ {g} : grant'[h] = grant[h]
  BY DEF FailGrant, TypeInv, TypeOK, SystemOK
<1>3. link' = link /\ refusal' = refusal
  BY DEF FailGrant
<1>. HIDE DEF stale
<1>4. CASE stale
  BY <1>1, <1>2, <1>3, <1>4, LedgersDisjoint DEF NotifiedAt, Rows
<1>5. CASE ~stale
  BY <1>1, <1>2, <1>3, <1>5, LedgersDisjoint DEF NotifiedAt, Rows
<1>. QED BY <1>4, <1>5

LEMMA OtherStamps ==
  ASSUME TypeInv,
         \/ \E c \in Calls :
              \/ \E r \in Links : Mint(c, r)
              \/ \E r \in Refusals : Refuse(c, r)
              \/ ReadLink(c) \/ ClaimRefused(c) \/ SendAccepted(c) \/ SendUnconfirmed(c)
              \/ SendRefused(c) \/ Die(c)
         \/ \E r \in Links : Open(r)
         \/ Sweep \/ Tick \/ UNCHANGED vars
  PROVE  NotifiedAt' = NotifiedAt
<1>. USE DEF TypeInv, TypeOK, SystemOK
<1>1. ASSUME NEW c \in Calls, NEW r \in Links, Mint(c, r)
      PROVE  NotifiedAt' = NotifiedAt
  BY <1>1 DEF Mint, NotifiedAt, LinkOK
<1>2. ASSUME NEW c \in Calls, NEW r \in Refusals, Refuse(c, r)
      PROVE  NotifiedAt' = NotifiedAt
  <2>1. \A s \in Refusals : refusal'[s].notifiedAt = refusal[s].notifiedAt
    BY <1>2 DEF Refuse, RefusalOK
  <2>. QED BY <1>2, <2>1 DEF Refuse, NotifiedAt
<1>3. ASSUME NEW r \in Links, Open(r)
      PROVE  NotifiedAt' = NotifiedAt
  BY <1>3 DEF Open, NotifiedAt, LinkOK
<1>4. ASSUME NEW a \in Addresses, MarkGrants(a)
      PROVE  NotifiedAt' = NotifiedAt
  <2>1. \A g \in Grants : grant'[g].notifiedAt = grant[g].notifiedAt
    BY <1>4 DEF MarkGrants, GrantOK
  <2>. QED BY <1>4, <2>1 DEF MarkGrants, NotifiedAt, Rows
<1>5. UNCHANGED ledgers => NotifiedAt' = NotifiedAt
  BY DEF ledgers, NotifiedAt
<1>6. CASE \E c \in Calls : \/ ReadLink(c) \/ ClaimRefused(c) \/ SendAccepted(c) \/ SendUnconfirmed(c)
                           \/ SendRefused(c) \/ Die(c)
  BY <1>5, <1>6 DEF ReadLink, ClaimRefused, SendAccepted, SendUnconfirmed, SendRefused, Die
<1>7. CASE Sweep
  BY <1>4, <1>5, <1>7 DEF Sweep, FileBounce, SweepDies
<1>8. CASE Tick \/ UNCHANGED vars
  BY <1>5, <1>8 DEF Tick, vars, ledgers
<1>. QED BY <1>1, <1>2, <1>3, <1>6, <1>7, <1>8

(* OwnerNotices implements NoticeClaims: its claims are the atomic claims  *)
(* and nothing else stamps a row, so what NoticeClaimsProofs proves of the *)
(* stamps holds of its ledgers.                                            *)
THEOREM ClaimsImplemented == Spec => ImplementsClaims
<1>0. /\ Claims!Rows = Rows /\ Claims!Never = Never
      /\ \A s, t, r : Permits(s, t, r) => Claims!Permits(s, t, r)
  <2>1. Claims!Rows = Rows /\ Claims!Never = Never
    BY DEF Claims!Rows, Rows, Claims!Never, Never
  <2>2. \A s, t, gap : Claims!Within(s, t, gap) <=> Within(s, t, gap)
    BY <2>1 DEF Claims!Within, Within
  <2>3. \A s, t, o : Claims!RecentOf(s, t, o) = RecentOf(s, t, o)
    BY <2>1, <2>2 DEF Claims!RecentOf, RecentOf
  <2>c. \A S : Claims!Cardinality(S) = Cardinality(S)
    BY DEF Claims!Cardinality, Cardinality
  <2>4. \A s, t, o : Claims!UnderCap(s, t, o) <=> UnderCap(s, t, o)
    BY <2>3, <2>c DEF Claims!UnderCap, UnderCap
  <2>5. \A s, t, r : Claims!NoLinkEpisode(s, t, r) <=> NoLinkEpisode(s, t, r)
    BY <2>2 DEF Claims!NoLinkEpisode, NoLinkEpisode
  <2>6. \A s, t, o : Claims!NoRefusalEpisode(s, t, o) <=> NoRefusalEpisode(s, t, o)
    BY <2>2 DEF Claims!NoRefusalEpisode, NoRefusalEpisode
  <2>7. \A s, t : Claims!RecentGrants(s, t) = RecentGrants(s, t)
    BY <2>2 DEF Claims!RecentGrants, RecentGrants
  <2>8. \A s, t : Claims!UnderBreaker(s, t) <=> UnderBreaker(s, t)
    BY <2>7, <2>c DEF Claims!UnderBreaker, UnderBreaker
  <2>. QED BY <2>1, <2>4, <2>5, <2>6, <2>8 DEF Claims!Permits, Permits
<1>1. Init => Claims!ClaimsInit
  <2>. SUFFICES ASSUME Init PROVE NotifiedAt = [r \in Rows |-> Never]
    BY <1>0 DEF Claims!ClaimsInit
  <2>1. \A r \in Links : link[r].notifiedAt = Never
    BY DEF Init, NoLink
  <2>2. \A r \in Refusals : refusal[r].notifiedAt = Never
    BY DEF Init, NoRefusal
  <2>3. \A r \in Grants : grant[r].notifiedAt = Never
    BY DEF Init, NoFailure
  <2>. QED BY <2>1, <2>2, <2>3 DEF NotifiedAt, Rows
<1>2. TypeInv /\ [Next]_vars => [Claims!ClaimsNext]_NotifiedAt
  <2>. SUFFICES ASSUME TypeInv, [Next]_vars
                PROVE  Claims!ClaimsNext \/ UNCHANGED NotifiedAt
    OBVIOUS
  <2>1. ASSUME NEW c \in Calls, Claim(c)
        PROVE  Claims!ClaimsNext
    <3>1. call[c].row \in Rows /\ now \in Time
      BY <2>1 DEF Claim, TypeInv, TypeOK, SystemOK, CallsBusy
    <3>2. Permits(NotifiedAt, now, call[c].row) /\ NotifiedAt' = [NotifiedAt EXCEPT ![call[c].row] = now]
      BY <2>1, <3>1, StampedStamps DEF Claim, Claimable
    <3>3. Claims!ClaimRow(call[c].row, now)
      BY <1>0, <3>2 DEF Claims!ClaimRow
    <3>. QED BY <1>0, <3>1, <3>3 DEF Claims!ClaimsNext
  <2>2. ASSUME NEW r \in Rows, NotifiedAt' = [NotifiedAt EXCEPT ![r] = Never]
        PROVE  Claims!ClaimsNext \/ UNCHANGED NotifiedAt
    <3>1. CASE NotifiedAt[r] = Never
      BY <2>2, <3>1 DEF NotifiedAt
    <3>2. CASE NotifiedAt[r] # Never
      BY <1>0, <2>2, <3>2 DEF Claims!ClaimsNext, Claims!EraseRow
    <3>. QED BY <3>1, <3>2
  <2>3. ASSUME NEW c \in Calls, Release(c)
        PROVE  Claims!ClaimsNext \/ UNCHANGED NotifiedAt
    <3>1. call[c].row \in Rows
      BY <2>3 DEF Release, TypeInv, CallsBusy
    <3>. QED BY <2>2, <2>3, <3>1, ReleasedStamps
  <2>4. ASSUME NEW c \in Calls, NEW g \in Grants, NEW class, NEW cc, FailGrant(c, g, class, cc)
        PROVE  Claims!ClaimsNext \/ UNCHANGED NotifiedAt
    <3>1. g \in Rows
      BY DEF Rows
    <3>. QED BY <2>2, <2>4, <3>1, FailedStamps
  <2>. QED BY <2>1, <2>3, <2>4, OtherStamps DEF Next, Step, Event, CallStep
<1>. QED BY <1>1, <1>2, TypesAndCalls, PTL DEF Spec, ImplementsClaims, Claims!ClaimsSpec
------------------------------------------------------------------------------
(* OneMailPerRow is not inductive: a mail is sent by a call that claimed   *)
(* the row earlier, and a release erases the stamp whoever set it.  Of a   *)
(* link or a refused account, one call at most is past its claim; while it *)
(* is, the row is stamped and not yet mailed; and a mailed row stays       *)
(* stamped, so that it is never claimed again.                             *)
Held(c) == call[c].pc \in {"send", "release"} /\ call[c].row \in Rows \ Grants
HolderAlone ==
  \A c \in Calls : Held(c) =>
    /\ NotifiedAt[call[c].row] = call[c].stamp /\ call[c].stamp # Never
    /\ \A d \in Calls : Held(d) /\ call[d].row = call[c].row => d = c
    /\ \A i \in DOMAIN mails : mails[i].row # call[c].row
MailedStaysStamped ==
  \A i \in DOMAIN mails : mails[i].row \in Rows \ Grants => NotifiedAt[mails[i].row] = mails[i].at
OnceInv == OneMailPerRow /\ HolderAlone /\ MailedStaysStamped

LEMMA MailTimes ==
  ASSUME TypeInv, NEW i \in DOMAIN mails
  PROVE  mails[i] \in MailOK /\ mails[i].at \in Nat /\ mails[i].at # Never
<1>1. mails[i] \in MailOK
  BY DEF TypeInv, TypeOK, SystemOK
<1>2. mails[i].at \in Time
  BY <1>1 DEF MailOK
<1>3. mails[i].at \in Nat
  BY <1>2, ClockReadings
<1>. QED BY <1>1, <1>3 DEF Never

(* A step that sends nothing, claims nothing and erases nothing.           *)
LEMMA QuietStep ==
  ASSUME OnceInv, mails' = mails,
         \A r \in Rows \ Grants : NotifiedAt'[r] = NotifiedAt[r],
         \A d \in Calls : Held(d)' => Held(d) /\ call'[d].row = call[d].row /\ call'[d].stamp = call[d].stamp
  PROVE  OnceInv'
<1>1. OneMailPerRow' /\ MailedStaysStamped'
  BY DEF OnceInv, OneMailPerRow, MailedStaysStamped
<1>2. HolderAlone'
  <2>. SUFFICES ASSUME NEW c \in Calls, Held(c)'
                PROVE  /\ NotifiedAt'[call'[c].row] = call'[c].stamp /\ call'[c].stamp # Never
                       /\ \A d \in Calls : Held(d)' /\ call'[d].row = call'[c].row => d = c
                       /\ \A i \in DOMAIN mails' : mails'[i].row # call'[c].row
    BY DEF HolderAlone
  <2>1. Held(c) /\ call'[c].row = call[c].row /\ call'[c].stamp = call[c].stamp /\ call[c].row \in Rows \ Grants
    BY DEF Held
  <2>. QED BY <2>1 DEF OnceInv, HolderAlone
<1>. QED BY <1>1, <1>2 DEF OnceInv

(* Only a call's own step changes what it holds.                           *)
LEMMA OnlyOwnCall ==
  ASSUME TypeInv, NEW c \in Calls, NEW new, call' = [call EXCEPT ![c] = new]
  PROVE  /\ call'[c] = new
         /\ \A d \in Calls \ {c} : call'[d] = call[d] /\ (Held(d)' <=> Held(d))
  BY DEF TypeInv, TypeOK, SystemOK, Held

LEMMA OnceKept == Spec => []OnceInv
<1>1. Init => OnceInv
  BY DEF Init, OnceInv, OneMailPerRow, HolderAlone, MailedStaysStamped, Held, Idle
<1>2. TypeInv /\ OnceInv /\ [Next]_vars => OnceInv'
  <2>. SUFFICES ASSUME TypeInv, OnceInv, [Next]_vars PROVE OnceInv'
    OBVIOUS
  <2>. USE DEF ledgers, bounces
  <2>a. Idle.pc = "idle"
    BY DEF Idle
  <2>b. ASSUME NEW c \in Calls, NEW new, call' = [call EXCEPT ![c] = new],
               new.pc \notin {"send", "release"}, mails' = mails,
               \A r \in Rows \ Grants : NotifiedAt'[r] = NotifiedAt[r]
        PROVE  OnceInv'
    <3>1. \A d \in Calls : Held(d)' => Held(d) /\ call'[d] = call[d]
      BY <2>b, OnlyOwnCall DEF Held
    <3>. QED BY <2>b, <3>1, QuietStep
  <2>c. ASSUME UNCHANGED <<call, mails>>, \A r \in Rows \ Grants : NotifiedAt'[r] = NotifiedAt[r]
        PROVE  OnceInv'
    <3>1. \A d \in Calls : Held(d)' => Held(d) /\ call'[d] = call[d]
      BY <2>c DEF Held
    <3>. QED BY <2>c, <3>1, QuietStep
  <2>d. ASSUME NEW c \in Calls, NEW pc \in {"read", "claim"}, NEW r, NEW cc, NEW ep, Enter(c, pc, r, cc, ep)
        PROVE  \E new : call' = [call EXCEPT ![c] = new] /\ new.pc \notin {"send", "release"}
    <3>. DEFINE new == [Idle EXCEPT !.pc = pc, !.row = r, !.cc = cc, !.episode = ep, !.since = now]
    <3>1. new.pc = pc
      BY DEF Idle
    <3>2. call' = [call EXCEPT ![c] = new]
      BY <2>d DEF Enter
    <3>. HIDE DEF new
    <3>. QED BY <3>1, <3>2
  <2>1. ASSUME NEW c \in Calls, NEW r \in Links, Mint(c, r)
        PROVE  OnceInv'
    <3>1. NotifiedAt' = NotifiedAt BY <2>1, OtherStamps
    <3>. QED BY <2>1, <2>b, <2>d, <3>1 DEF Mint
  <2>2. ASSUME NEW c \in Calls, NEW r \in Refusals, Refuse(c, r)
        PROVE  OnceInv'
    <3>1. NotifiedAt' = NotifiedAt BY <2>2, OtherStamps
    <3>2. Enter(c, "claim", r, None, 0) \/ UNCHANGED call
      BY <2>2 DEF Refuse
    <3>. QED BY <2>2, <2>b, <2>c, <2>d, <3>1, <3>2 DEF Refuse
  <2>3. ASSUME NEW c \in Calls, NEW g \in Grants, NEW class, NEW cc, FailGrant(c, g, class, cc)
        PROVE  OnceInv'
    <3>1. \A r \in Rows \ Grants : NotifiedAt'[r] = NotifiedAt[r]
      BY <2>3, FailedStamps DEF NotifiedAt
    <3>2. (\E ep : Enter(c, "claim", g, cc, ep)) \/ UNCHANGED call
      BY <2>3 DEF FailGrant
    <3>. QED BY <2>3, <2>b, <2>c, <2>d, <3>1, <3>2 DEF FailGrant
  <2>4. ASSUME NEW c \in Calls, ReadLink(c) \/ ClaimRefused(c) \/ Die(c)
        PROVE  OnceInv'
    <3>1. NotifiedAt' = NotifiedAt BY <2>4, OtherStamps
    <3>2. mails' = mails /\ (Return(c) \/ Goto(c, "claim"))
      BY <2>4 DEF ReadLink, ClaimRefused, Die
    <3>3. CASE Return(c)
      BY <2>a, <2>b, <3>1, <3>2, <3>3 DEF Return
    <3>4. CASE Goto(c, "claim")
      <4>1. [call[c] EXCEPT !.pc = "claim"].pc = "claim"
        BY DEF TypeInv, TypeOK, SystemOK, CallOK
      <4>. QED BY <2>b, <3>1, <3>2, <3>4, <4>1 DEF Goto
    <3>. QED BY <3>2, <3>3, <3>4
  <2>5. ASSUME NEW c \in Calls, Claim(c)
        PROVE  OnceInv'
    <3>. DEFINE r == call[c].row
                new == [call[c] EXCEPT !.pc = "send", !.stamp = now]
    <3>1. r \in Rows /\ NotifiedAt[r] = Never /\ NotifiedAt' = [NotifiedAt EXCEPT ![r] = now]
      BY <2>5, StampedStamps DEF Claim, Claimable, Permits, TypeInv, CallsBusy
    <3>2. now # Never
      BY ClockReadings DEF TypeInv, TypeOK, SystemOK, Never
    <3>3. /\ new.pc = "send" /\ new.row = r /\ new.stamp = now
          /\ call'[c] = new
          /\ \A d \in Calls \ {c} : call'[d] = call[d] /\ (Held(d)' <=> Held(d))
      <4>1. call[c] \in CallOK
        BY DEF TypeInv, TypeOK, SystemOK
      <4>2. new.pc = "send" /\ new.row = r /\ new.stamp = now
        BY <4>1 DEF CallOK
      <4>3. call' = [call EXCEPT ![c] = new]
        BY <2>5 DEF Claim
      <4>. HIDE DEF new
      <4>. QED BY <4>2, <4>3, OnlyOwnCall
    <3>4. /\ \A d \in Calls : Held(d) => call[d].row # r
          /\ \A i \in DOMAIN mails : mails[i].row = r => r \in Grants
      BY <3>1, MailTimes DEF OnceInv, HolderAlone, MailedStaysStamped
    <3>5. \A s \in Rows : NotifiedAt[s] # Never => NotifiedAt'[s] = NotifiedAt[s]
      BY <3>1, <3>2 DEF NotifiedAt
    <3>6. mails' = mails
      BY <2>5 DEF Claim
    <3>7. HolderAlone'
      <4>. SUFFICES ASSUME NEW d \in Calls, Held(d)'
                    PROVE  /\ NotifiedAt'[call'[d].row] = call'[d].stamp /\ call'[d].stamp # Never
                           /\ \A e \in Calls : Held(e)' /\ call'[e].row = call'[d].row => e = d
                           /\ \A i \in DOMAIN mails' : mails'[i].row # call'[d].row
        BY DEF HolderAlone
      <4>. HIDE DEF new
      <4>1. CASE d = c
        <5>1. r \in Rows \ Grants /\ NotifiedAt'[r] = now
          BY <3>1, <3>2, <3>3, <4>1 DEF Held, NotifiedAt
        <5>. QED BY <3>2, <3>3, <3>4, <3>6, <4>1, <5>1 DEF Held
      <4>2. CASE d # c
        <5>1. Held(d) /\ call'[d] = call[d] /\ call[d].row \in Rows /\ call[d].row # r
          BY <3>3, <3>4, <4>2 DEF Held
        <5>. QED BY <3>3, <3>5, <3>6, <4>2, <5>1 DEF OnceInv, HolderAlone
      <4>. QED BY <4>1, <4>2
    <3>8. OneMailPerRow' /\ MailedStaysStamped'
      BY <3>5, <3>6, MailTimes DEF OnceInv, OneMailPerRow, MailedStaysStamped
    <3>. QED BY <3>7, <3>8 DEF OnceInv
  <2>6. ASSUME NEW c \in Calls, call[c].pc = "send", Return(c), Sent(c), NotifiedAt' = NotifiedAt
        PROVE  OnceInv'
    <3>. DEFINE r == call[c].row
                n == Len(mails)
    <3>1. /\ r \in Rows /\ mails \in Seq(MailOK) /\ Mail(c) \in MailOK
          /\ mails' = Append(mails, Mail(c)) /\ Mail(c).row = r /\ Mail(c).at = call[c].stamp
      BY <2>6, SentOK DEF Sent, Mail, TypeInv, TypeOK, SystemOK, CallsBusy
    <3>2. /\ n \in Nat /\ DOMAIN mails = 1..n /\ DOMAIN mails' = 1..(n + 1)
          /\ mails'[n + 1].row = r /\ mails'[n + 1].at = call[c].stamp
          /\ \A i \in 1..n : mails'[i] = mails[i]
      BY <3>1
    <3>3. r \notin Grants =>
            /\ Held(c) /\ NotifiedAt[r] = call[c].stamp
            /\ \A i \in 1..n : mails[i].row # r
            /\ \A d \in Calls \ {c} : Held(d) => call[d].row # r
      BY <2>6, <3>1, <3>2 DEF OnceInv, HolderAlone, Held
    <3>4. ~Held(c)' /\ \A d \in Calls \ {c} : call'[d] = call[d] /\ (Held(d)' <=> Held(d))
      BY <2>6, <2>a, OnlyOwnCall DEF Return, Held
    <3>. HIDE DEF n
    <3>5. OneMailPerRow'
      <4>. SUFFICES ASSUME NEW i \in 1..(n + 1), NEW j \in 1..(n + 1),
                           mails'[i].row = mails'[j].row, mails'[i].row \notin Grants
                    PROVE  i = j
        BY <3>2 DEF OneMailPerRow
      <4>1. CASE i \in 1..n /\ j \in 1..n
        BY <3>2, <4>1 DEF OnceInv, OneMailPerRow
      <4>2. CASE ~(i \in 1..n /\ j \in 1..n)
        BY <3>2, <3>3, <4>2
      <4>. QED BY <4>1, <4>2
    <3>6. MailedStaysStamped'
      <4>. SUFFICES ASSUME NEW i \in 1..(n + 1), mails'[i].row \in Rows \ Grants
                    PROVE  NotifiedAt'[mails'[i].row] = mails'[i].at
        BY <3>2 DEF MailedStaysStamped
      <4>1. CASE i \in 1..n
        BY <2>6, <3>2, <4>1 DEF OnceInv, MailedStaysStamped
      <4>2. CASE i = n + 1
        BY <2>6, <3>2, <3>3, <4>2
      <4>. QED BY <3>2, <4>1, <4>2
    <3>7. HolderAlone'
      <4>. SUFFICES ASSUME NEW d \in Calls \ {c}, Held(d)
                    PROVE  /\ NotifiedAt[call[d].row] = call[d].stamp /\ call[d].stamp # Never
                           /\ \A e \in Calls \ {c} : Held(e) /\ call[e].row = call[d].row => e = d
                           /\ \A i \in 1..(n + 1) : mails'[i].row # call[d].row
        BY <2>6, <3>2, <3>4 DEF HolderAlone
      <4>1. call[d].row \in Rows \ Grants /\ \A i \in 1..n : mails[i].row # call[d].row
        BY <3>2 DEF OnceInv, HolderAlone, Held
      <4>2. call[d].row # r
        BY <3>3, <4>1
      <4>3. \A i \in 1..(n + 1) : mails'[i].row # call[d].row
        BY <3>2, <4>1, <4>2
      <4>. QED BY <4>3 DEF OnceInv, HolderAlone
    <3>. QED BY <3>5, <3>6, <3>7 DEF OnceInv
  <2>7. ASSUME NEW c \in Calls, SendAccepted(c) \/ SendUnconfirmed(c)
        PROVE  OnceInv'
    <3>1. NotifiedAt' = NotifiedAt BY <2>7, OtherStamps
    <3>2. call[c].pc = "send" /\ Return(c) /\ (Sent(c) \/ mails' = mails)
      BY <2>7 DEF SendAccepted, SendUnconfirmed
    <3>3. CASE mails' = mails
      BY <2>a, <2>b, <3>1, <3>2, <3>3 DEF Return
    <3>. QED BY <2>6, <3>1, <3>2, <3>3
  <2>8. ASSUME NEW c \in Calls, SendRefused(c)
        PROVE  OnceInv'
    <3>1. NotifiedAt' = NotifiedAt BY <2>8, OtherStamps
    <3>2. call[c].pc = "send" /\ mails' = mails /\ call' = [call EXCEPT ![c].pc = "release"]
      BY <2>8 DEF SendRefused, Goto
    <3>3. \A d \in Calls : (Held(d)' <=> Held(d)) /\ call'[d].row = call[d].row /\ call'[d].stamp = call[d].stamp
      BY <3>2 DEF Held, TypeInv, TypeOK, SystemOK, CallOK
    <3>. QED BY <3>1, <3>2, <3>3, QuietStep
  <2>9. ASSUME NEW c \in Calls, Release(c)
        PROVE  OnceInv'
    <3>. DEFINE r == call[c].row
    <3>1. r \in Rows /\ call[c].pc = "release" /\ mails' = mails /\ Return(c)
      BY <2>9 DEF Release, TypeInv, CallsBusy
    <3>2. NotifiedAt' = [NotifiedAt EXCEPT ![r] = Never]
      BY <2>9, ReleasedStamps
    <3>3. CASE r \in Grants
      <4>1. \A s \in Rows \ Grants : NotifiedAt'[s] = NotifiedAt[s]
        BY <3>2, <3>3 DEF NotifiedAt
      <4>. QED BY <2>a, <2>b, <3>1, <4>1 DEF Return
    <3>4. CASE r \notin Grants
      <4>1. /\ \A d \in Calls \ {c} : Held(d) => call[d].row # r
            /\ \A i \in DOMAIN mails : mails[i].row # r
        BY <3>1, <3>4 DEF OnceInv, HolderAlone, Held
      <4>2. ~Held(c)' /\ \A d \in Calls \ {c} : call'[d] = call[d] /\ (Held(d)' <=> Held(d))
        BY <3>1, <2>a, OnlyOwnCall DEF Return, Held
      <4>3. \A s \in Rows \ {r} : NotifiedAt'[s] = NotifiedAt[s]
        BY <3>2 DEF NotifiedAt
      <4>4. OneMailPerRow' /\ MailedStaysStamped'
        BY <3>1, <4>1, <4>3 DEF OnceInv, OneMailPerRow, MailedStaysStamped
      <4>5. HolderAlone'
        <5>. SUFFICES ASSUME NEW d \in Calls \ {c}, Held(d)
                      PROVE  /\ NotifiedAt'[call[d].row] = call[d].stamp /\ call[d].stamp # Never
                             /\ \A e \in Calls \ {c} : Held(e) /\ call[e].row = call[d].row => e = d
                             /\ \A i \in DOMAIN mails : mails[i].row # call[d].row
          BY <3>1, <4>2 DEF HolderAlone
        <5>1. call[d].row \in Rows \ {r}
          BY <4>1 DEF Held
        <5>. QED BY <4>3, <5>1 DEF OnceInv, HolderAlone
      <4>. QED BY <4>4, <4>5 DEF OnceInv
    <3>. QED BY <3>3, <3>4
  <2>10. CASE (\E r \in Links : Open(r)) \/ Sweep \/ Tick \/ UNCHANGED vars
    <3>1. NotifiedAt' = NotifiedAt BY <2>10, OtherStamps
    <3>2. UNCHANGED <<call, mails>>
      BY <2>10 DEF Open, Sweep, FileBounce, MarkGrants, SweepDies, Tick, vars
    <3>. QED BY <2>c, <3>1, <3>2
  <2>. QED
    BY <2>1, <2>2, <2>3, <2>4, <2>5, <2>7, <2>8, <2>9, <2>10 DEF Next, Step, Event, CallStep
<1>. QED BY <1>1, <1>2, TypesAndCalls, PTL DEF Spec

(* No link and no refused account is ever mailed about twice.              *)
THEOREM MailedOnce == Spec => []OneMailPerRow
<1>1. OnceInv => OneMailPerRow
  BY DEF OnceInv
<1>. QED BY <1>1, OnceKept, PTL
------------------------------------------------------------------------------
(* What a step does to the calls and to the stamps.                        *)
LEMMA OnlyClaimsSend ==
  ASSUME TypeInv, [Next]_vars, NEW d \in Calls, call'[d].pc = "send"
  PROVE  /\ call'[d].row = call[d].row
         /\ call[d].pc = "send" \/ Claim(d)
<1>. USE DEF ledgers, bounces
<1>0. \A c \in Calls : call[c] \in CallOK
  BY DEF TypeInv, TypeOK, SystemOK
<1>1. ASSUME NEW c \in Calls, Claim(c) PROVE call'[d].row = call[d].row /\ (call[d].pc = "send" \/ Claim(d))
  BY <1>0, <1>1 DEF Claim, TypeInv, TypeOK, SystemOK, CallOK
<1>2. ASSUME NEW c \in Calls, NEW new, call' = [call EXCEPT ![c] = new], new.pc # "send"
      PROVE  call'[d] = call[d]
  BY <1>2 DEF TypeInv, TypeOK, SystemOK
<1>3. ASSUME NEW c \in Calls, NEW pc \in {"read", "claim"}, NEW r, NEW cc, NEW ep, Enter(c, pc, r, cc, ep)
      PROVE  call'[d] = call[d]
  <2>. DEFINE new == [Idle EXCEPT !.pc = pc, !.row = r, !.cc = cc, !.episode = ep, !.since = now]
  <2>1. new.pc = pc
    BY DEF Idle
  <2>2. call' = [call EXCEPT ![c] = new]
    BY <1>3 DEF Enter
  <2>. HIDE DEF new
  <2>. QED BY <1>2, <2>1, <2>2
<1>4. ASSUME NEW c \in Calls, Return(c) PROVE call'[d] = call[d]
  <2>1. Idle.pc # "send"
    BY DEF Idle
  <2>. QED BY <1>2, <1>4, <2>1 DEF Return
<1>5. ASSUME NEW c \in Calls, NEW pc \in {"claim", "release"}, Goto(c, pc) PROVE call'[d] = call[d]
  <2>1. [call[c] EXCEPT !.pc = pc].pc # "send"
    BY <1>0 DEF CallOK
  <2>. QED BY <1>2, <1>5, <2>1 DEF Goto
<1>6. ASSUME NEW c \in Calls, Event(c) PROVE call'[d] = call[d]
  <2>1. \/ \E pc \in {"read", "claim"} : \E r, cc, ep : Enter(c, pc, r, cc, ep)
        \/ UNCHANGED call
    <3>1. ASSUME NEW r \in Links, Mint(c, r) PROVE Enter(c, "read", r, None, 0)
      BY <3>1 DEF Mint
    <3>2. ASSUME NEW r \in Refusals, Refuse(c, r) PROVE Enter(c, "claim", r, None, 0) \/ UNCHANGED call
      BY <3>2 DEF Refuse
    <3>3. ASSUME NEW g \in Grants, NEW class, NEW cc, FailGrant(c, g, class, cc)
          PROVE  (\E ep : Enter(c, "claim", g, cc, ep)) \/ UNCHANGED call
      BY <3>3 DEF FailGrant
    <3>. QED BY <1>6, <3>1, <3>2, <3>3 DEF Event
  <2>. QED BY <1>3, <2>1
<1>7. ASSUME NEW c \in Calls, CallStep(c), ~Claim(c) PROVE call'[d] = call[d]
  BY <1>4, <1>5, <1>7 DEF CallStep, ReadLink, ClaimRefused, SendAccepted, SendUnconfirmed, SendRefused, Release, Die
<1>8. CASE (\E r \in Links : Open(r)) \/ Sweep \/ Tick \/ UNCHANGED vars
  BY <1>8 DEF Open, Sweep, FileBounce, MarkGrants, SweepDies, Tick, vars
<1>. QED BY <1>1, <1>6, <1>7, <1>8 DEF Next, Step

LEMMA StampMoves ==
  ASSUME TypeInv, [Next]_vars
  PROVE  \/ \E c \in Calls : Claim(c)
         \/ \E r \in Rows : NotifiedAt' = [NotifiedAt EXCEPT ![r] = Never]
         \/ NotifiedAt' = NotifiedAt
<1>1. ASSUME NEW c \in Calls, Release(c)
      PROVE  \E r \in Rows : NotifiedAt' = [NotifiedAt EXCEPT ![r] = Never]
  BY <1>1, ReleasedStamps DEF Release, TypeInv, CallsBusy
<1>2. ASSUME NEW c \in Calls, NEW g \in Grants, NEW class, NEW cc, FailGrant(c, g, class, cc)
      PROVE  \/ \E r \in Rows : NotifiedAt' = [NotifiedAt EXCEPT ![r] = Never]
             \/ NotifiedAt' = NotifiedAt
  BY <1>2, FailedStamps DEF Rows
<1>. QED BY <1>1, <1>2, OtherStamps DEF Next, Step, Event, CallStep

LEMMA ClaimStamps ==
  ASSUME TypeInv, NEW c \in Calls, Claim(c)
  PROVE  /\ call[c].row \in Rows /\ now \in Nat
         /\ Permits(NotifiedAt, now, call[c].row)
         /\ NotifiedAt' = [NotifiedAt EXCEPT ![call[c].row] = now]
<1>1. call[c].row \in Rows /\ now \in Nat
  BY ClockReadings DEF Claim, TypeInv, TypeOK, SystemOK, CallsBusy
<1>. QED BY <1>1, StampedStamps DEF Claim, Claimable

LEMMA StampsOK == TypeInv => NotifiedAt \in [Rows -> Stamp] /\ Stamp \subseteq Int
<1>. SUFFICES ASSUME TypeInv PROVE NotifiedAt \in [Rows -> Stamp] /\ Stamp \subseteq Int
  OBVIOUS
<1>1. \A r \in Links : link[r].notifiedAt \in Stamp
  BY DEF TypeInv, TypeOK, SystemOK, LinkOK
<1>2. \A r \in Refusals : refusal[r].notifiedAt \in Stamp
  BY DEF TypeInv, TypeOK, SystemOK, RefusalOK
<1>3. \A r \in Grants : grant[r].notifiedAt \in Stamp
  BY DEF TypeInv, TypeOK, SystemOK, GrantOK
<1>4. Stamp \subseteq Int
  BY ClockReadings DEF Stamp, Never
<1>. QED BY <1>1, <1>2, <1>3, <1>4 DEF NotifiedAt, Rows
------------------------------------------------------------------------------
(* Once an address has bounced and the sends claimed for it before have    *)
(* drained, no call is ever about to write to it again.                    *)
THEOREM Suppressed == Spec => SuppressionIsForever
<1>1. ASSUME TypeInv, [Next]_vars, NEW a \in Addresses, Drained(a) PROVE Drained(a)'
  <2>1. filed \subseteq filed'
    <3>. USE DEF bounces
    <3>1. ASSUME NEW c \in Calls, Event(c) PROVE filed' = filed
      <4>1. \A r \in Links : Mint(c, r) => filed' = filed
        BY DEF Mint
      <4>2. \A r \in Refusals : Refuse(c, r) => filed' = filed
        BY DEF Refuse
      <4>3. \A g, class, cc : FailGrant(c, g, class, cc) => filed' = filed
        BY DEF FailGrant
      <4>. QED BY <3>1, <4>1, <4>2, <4>3 DEF Event
    <3>2. ASSUME NEW c \in Calls, CallStep(c) PROVE filed' = filed
      BY <3>2 DEF CallStep, ReadLink, Claim, ClaimRefused, SendAccepted, SendUnconfirmed, SendRefused, Release, Die
    <3>3. CASE Sweep
      BY <3>3 DEF Sweep, FileBounce, MarkGrants, SweepDies
    <3>4. CASE (\E r \in Links : Open(r)) \/ Tick \/ UNCHANGED vars
      BY <3>4 DEF Open, Tick, vars
    <3>. QED BY <1>1, <3>1, <3>2, <3>3, <3>4 DEF Next, Step
  <2>2. ASSUME NEW d \in Calls, call'[d].pc = "send" PROVE RecipientOf(call'[d].row) # a
    <3>1. call'[d].row = call[d].row /\ (call[d].pc = "send" \/ Claim(d))
      BY <1>1, <2>2, OnlyClaimsSend
    <3>2. CASE Claim(d)
      BY <1>1, <3>1, <3>2 DEF Claim, Claimable, Drained
    <3>. QED BY <1>1, <3>1, <3>2 DEF Drained
  <2>. QED BY <1>1, <2>1, <2>2 DEF Drained, Undeliverable
<1>2. TypeInv /\ [Next]_vars => [\A a \in Addresses : Drained(a) => Drained(a)']_vars
  BY <1>1
<1>. QED BY <1>2, TypesAndCalls, PTL DEF Spec, SuppressionIsForever
------------------------------------------------------------------------------
(* Two links of one owner that stand stamped are an episode apart.  A mail *)
(* about a link carries the stamp its link still has.                      *)
Spaced ==
  \A r, s \in Links :
    /\ r # s /\ OwnerOf[r] = OwnerOf[s]
    /\ NotifiedAt[r] # Never /\ NotifiedAt[s] # Never /\ NotifiedAt[r] <= NotifiedAt[s]
    => NotifiedAt[r] <= NotifiedAt[s] - LinkEpisode

LEMMA SpacedKept == TypeInv /\ Spaced /\ [Next]_vars => Spaced'
<1>. SUFFICES ASSUME TypeInv, Spaced, [Next]_vars PROVE Spaced'
  OBVIOUS
<1>0. NotifiedAt \in [Rows -> Stamp] /\ Stamp \subseteq Int /\ Links \subseteq Rows /\ LinkEpisode \in Nat \ {0}
  BY StampsOK, Intervals DEF Rows
<1>1. ASSUME NEW c \in Calls, Claim(c) PROVE Spaced'
  <2>. DEFINE x == call[c].row
  <2>1. x \in Rows /\ now \in Nat /\ Permits(NotifiedAt, now, x) /\ NotifiedAt' = [NotifiedAt EXCEPT ![x] = now]
    BY <1>1, ClaimStamps
  <2>2. \A r \in Links : NotifiedAt'[r] = IF r = x THEN now ELSE NotifiedAt[r]
    BY <1>0, <2>1
  <2>3. x \in Links => \A s \in Links \ {x} : OwnerOf[s] = OwnerOf[x] =>
                         NotifiedAt[s] = Never \/ NotifiedAt[s] <= now - LinkEpisode
    <3>. SUFFICES ASSUME x \in Links, NEW s \in Links \ {x}, OwnerOf[s] = OwnerOf[x]
                  PROVE  NotifiedAt[s] = Never \/ NotifiedAt[s] <= now - LinkEpisode
      OBVIOUS
    <3>1. ~Within(NotifiedAt[s], now, LinkEpisode)
      BY <2>1 DEF Permits, NoLinkEpisode
    <3>2. NotifiedAt[s] \in Int
      BY <1>0
    <3>. QED BY <1>0, <2>1, <3>1, <3>2 DEF Within
  <2>. HIDE DEF x
  <2>. SUFFICES ASSUME NEW r \in Links, NEW s \in Links, r # s, OwnerOf[r] = OwnerOf[s],
                       NotifiedAt'[r] # Never, NotifiedAt'[s] # Never, NotifiedAt'[r] <= NotifiedAt'[s]
                PROVE  NotifiedAt'[r] <= NotifiedAt'[s] - LinkEpisode
    BY DEF Spaced
  <2>4. NotifiedAt[r] \in Int /\ NotifiedAt[s] \in Int
    BY <1>0
  <2>5. CASE r = x
    BY <1>0, <2>1, <2>2, <2>3, <2>4, <2>5
  <2>6. CASE s = x
    BY <1>0, <2>1, <2>2, <2>3, <2>4, <2>6
  <2>7. CASE r # x /\ s # x
    BY <2>2, <2>7 DEF Spaced
  <2>. QED BY <2>5, <2>6, <2>7
<1>2. ASSUME NEW x \in Rows, NotifiedAt' = [NotifiedAt EXCEPT ![x] = Never] PROVE Spaced'
  <2>1. \A r \in Links : NotifiedAt'[r] = IF r = x THEN Never ELSE NotifiedAt[r]
    BY <1>0, <1>2
  <2>. QED BY <2>1 DEF Spaced
<1>3. CASE NotifiedAt' = NotifiedAt
  BY <1>3 DEF Spaced
<1>. QED BY <1>1, <1>2, <1>3, StampMoves

(* An owner is mailed about at most one link in an episode, whatever calls *)
(* race, fail or die, and whichever of their sends were released.          *)
THEOREM LinkMailsSpaced == Spec => []OneLinkMailPerEpisode
<1>1. Init => Spaced
  <2>1. Init => \A r \in Links : NotifiedAt[r] = Never
    BY DEF Init, NotifiedAt, NoLink, Rows
  <2>. QED BY <2>1 DEF Spaced
<1>2. TypeInv /\ OnceInv /\ Spaced => OneLinkMailPerEpisode
  <2>. SUFFICES ASSUME TypeInv, OnceInv, Spaced, NEW i \in DOMAIN mails, NEW j \in DOMAIN mails,
                       i # j, SameOwner(i, j), mails[i].row \in Links, mails[j].row \in Links,
                       mails[i].at <= mails[j].at
                PROVE  mails[i].at <= mails[j].at - LinkEpisode
    BY DEF OneLinkMailPerEpisode
  <2>1. mails[i].row \in Rows \ Grants /\ mails[j].row \in Rows \ Grants
    BY LedgersDisjoint DEF Rows
  <2>2. mails[i].row # mails[j].row
    BY <2>1 DEF OnceInv, OneMailPerRow
  <2>3. NotifiedAt[mails[i].row] = mails[i].at /\ NotifiedAt[mails[j].row] = mails[j].at
    BY <2>1 DEF OnceInv, MailedStaysStamped
  <2>4. mails[i].at # Never /\ mails[j].at # Never
    BY MailTimes
  <2>. QED BY <2>2, <2>3, <2>4 DEF Spaced, SameOwner
<1>. QED BY <1>1, <1>2, SpacedKept, OnceKept, TypesAndCalls, PTL DEF Spec
------------------------------------------------------------------------------
(* Dead-grant notices.  A new episode erases a row's stamp, so a mailed    *)
(* row may be claimed again, and the rules no longer see the first mail.   *)
(* If an episode outlasts a day and a call (14 days, 24 hours and 60       *)
(* seconds in the code), a reset by age happens only when no call about    *)
(* the row is in flight and every mail about it is a day old.  A reset by  *)
(* a change of class excuses the row's mails, and what is mailed about it  *)
(* until no call goes on: then the row starts afresh.                      *)
LongEpisodes == Day + CallLife <= GrantEpisode + 1

Holds(c, g) == call[c].pc \in {"send", "release"} /\ call[c].row = g

(* While a call is about a row, the episode it began in goes on.           *)
InEpisode(c, g) ==
  About(c, g) =>
    /\ now - call[c].since <= CallLife
    /\ call[c].since <= grant[g].lastFailedAt /\ grant[g].lastFailedAt <= now
    /\ call[c].episode = grant[g].episode

HoldsAlone(c, g) ==
  Holds(c, g) =>
    /\ grant[g].notifiedAt = call[c].stamp /\ call[c].stamp # Never
    /\ call[c].stamp <= now /\ call[c].stamp <= grant[g].lastFailedAt + CallLife
    /\ \A d \in Calls : Holds(d, g) => d = c
    /\ \A i \in Counted : mails[i].row = g =>
         mails[i].episode < grant[g].episode /\ mails[i].at + Day <= call[c].stamp

(* A mail of this episode is stamped; one of an earlier is a day old.      *)
Remembered(i, g) ==
  mails[i].row = g =>
    \/ /\ mails[i].episode = grant[g].episode /\ grant[g].notifiedAt = mails[i].at
       /\ mails[i].at <= now /\ mails[i].at <= grant[g].lastFailedAt + CallLife
    \/ mails[i].episode < grant[g].episode /\ mails[i].at + Day <= now

Apart(i, j) ==
  mails[i].row = mails[j].row =>
    /\ mails[i].episode # mails[j].episode
    /\ mails[i].at + Day <= mails[j].at \/ mails[j].at + Day <= mails[i].at

Orderly(g) ==
  /\ \A c \in Calls : InEpisode(c, g) /\ HoldsAlone(c, g)
  /\ \A i \in Counted : Remembered(i, g)
  /\ \A i, j \in Counted : i # j /\ mails[i].row = g => Apart(i, j)

GrantInv ==
  /\ \A g \in Grants \ unsettled : Orderly(g)
  /\ \A i \in Counted : mails[i].row \notin unsettled

(* Once excused, a mail stays so; what is sent about a row not yet settled *)
(* is excused.                                                             *)
StillCounted == \A i \in Counted' : i \in DOMAIN mails => i \in Counted

LEMMA Counting ==
  ASSUME TypeInv, [Next]_vars
  PROVE  /\ StillCounted /\ Counted \subseteq DOMAIN mails /\ Counted' \subseteq DOMAIN mails'
         /\ mails' # mails => \A i \in Counted' : mails'[i].row \notin unsettled \union Turned
<1>1. CASE Excuse
  BY <1>1 DEF Excuse, Counted, StillCounted
<1>2. CASE UNCHANGED vars
  BY <1>2 DEF vars, Counted, StillCounted
<1>. QED BY <1>1, <1>2 DEF Next

(* A step that neither fails nor claims nor mails about nor releases g.    *)
LEMMA OffGrant ==
  ASSUME NEW g \in Grants,
         Orderly(g), now' = now,
         grant'[g].notifiedAt = grant[g].notifiedAt, grant'[g].lastFailedAt = grant[g].lastFailedAt,
         grant'[g].episode = grant[g].episode,
         \A d \in Calls : About(d, g)' =>
            /\ About(d, g) /\ (Holds(d, g)' => Holds(d, g))
            /\ call'[d].since = call[d].since /\ call'[d].episode = call[d].episode
            /\ call'[d].stamp = call[d].stamp,
         \A i \in Counted' : mails'[i].row = g => i \in Counted /\ mails'[i] = mails[i]
  PROVE  Orderly(g)'
<1>2. ASSUME NEW c \in Calls PROVE InEpisode(c, g)'
  BY DEF Orderly, InEpisode
<1>3. ASSUME NEW c \in Calls PROVE HoldsAlone(c, g)'
  <2>. SUFFICES ASSUME Holds(c, g)'
                PROVE  /\ grant'[g].notifiedAt = call'[c].stamp /\ call'[c].stamp # Never
                       /\ call'[c].stamp <= now' /\ call'[c].stamp <= grant'[g].lastFailedAt + CallLife
                       /\ \A d \in Calls : Holds(d, g)' => d = c
                       /\ \A i \in Counted' : mails'[i].row = g =>
                            mails'[i].episode < grant'[g].episode /\ mails'[i].at + Day <= call'[c].stamp
    BY DEF HoldsAlone
  <2>1. \A d \in Calls : Holds(d, g)' => Holds(d, g) /\ call'[d].stamp = call[d].stamp
    BY DEF Holds, About
  <2>2. HoldsAlone(c, g) /\ Holds(c, g) /\ call'[c].stamp = call[c].stamp
    BY <2>1 DEF Orderly
  <2>. QED BY <2>1, <2>2 DEF HoldsAlone
<1>4. ASSUME NEW i \in Counted' PROVE Remembered(i, g)'
  BY DEF Orderly, Remembered
<1>5. ASSUME NEW i \in Counted', NEW j \in Counted', i # j, mails'[i].row = g PROVE Apart(i, j)'
  BY <1>5 DEF Orderly, Apart
<1>. QED BY <1>2, <1>3, <1>4, <1>5 DEF Orderly

(* Such a step of one call: it returns, or is about something else.        *)
LEMMA OffCall ==
  ASSUME TypeInv, NEW g \in Grants, NEW c \in Calls, NEW new, call' = [call EXCEPT ![c] = new],
         new.pc = "idle" \/ new.row # g
  PROVE  \A d \in Calls : About(d, g)' =>
            /\ About(d, g) /\ (Holds(d, g)' => Holds(d, g))
            /\ call'[d].since = call[d].since /\ call'[d].episode = call[d].episode
            /\ call'[d].stamp = call[d].stamp
<1>1. call'[c] = new /\ \A d \in Calls \ {c} : call'[d] = call[d]
  BY DEF TypeInv, TypeOK, SystemOK
<1>. QED BY <1>1 DEF About, Holds

(* A grant whose last failure is more than an episode old is nobody's, and *)
(* has not been mailed about for a day.                                    *)
LEMMA StaleIsFree ==
  ASSUME TypeInv, LongEpisodes, NEW g \in Grants, Orderly(g), grant[g].lastFailedAt < now - GrantEpisode
  PROVE  /\ \A c \in Calls : ~About(c, g)
         /\ \A i \in Counted : mails[i].row = g => mails[i].at + Day <= now
<1>0. /\ now \in Nat /\ grant[g].lastFailedAt \in Nat /\ GrantEpisode \in Nat /\ CallLife \in Nat
      /\ Day \in Nat \ {0}
  <2>1. grant[g].lastFailedAt \in Time
    BY DEF TypeInv, TypeOK, SystemOK, GrantOK
  <2>. QED BY <2>1, ClockReadings, Parameters, Intervals DEF TypeInv, TypeOK, SystemOK
<1>1. ASSUME NEW c \in Calls, About(c, g) PROVE FALSE
  <2>1. call[c].since \in Nat
    BY ClockReadings DEF TypeInv, TypeOK, SystemOK, CallOK
  <2>2. now - call[c].since <= CallLife /\ call[c].since <= grant[g].lastFailedAt
    BY <1>1 DEF Orderly, InEpisode
  <2>. QED BY <1>0, <2>1, <2>2 DEF LongEpisodes
<1>2. ASSUME NEW i \in Counted, mails[i].row = g PROVE mails[i].at + Day <= now
  <2>1. mails[i].at \in Nat /\ mails[i].at # Never
    BY MailTimes DEF Counted
  <2>2. CASE mails[i].at <= grant[g].lastFailedAt + CallLife
    BY <1>0, <2>1, <2>2 DEF LongEpisodes
  <2>3. CASE mails[i].at + Day <= now
    BY <2>3
  <2>. QED BY <1>2, <2>2, <2>3 DEF Orderly, Remembered
<1>. QED BY <1>1, <1>2

(* A failure begins at most one call, in the episode of the row it wrote.  *)
LEMMA FailEnters ==
  ASSUME TypeInv, NEW g \in Grants, NEW c \in Calls, NEW class, NEW cc, FailGrant(c, g, class, cc)
  PROVE  /\ \A d \in Calls \ {c} : call'[d] = call[d]
         /\ About(c, g)' => call'[c].since = now /\ call'[c].episode = grant'[g].episode /\ ~Holds(c, g)'
<1>0. call[c].pc = "idle"
  BY DEF FailGrant
<1>1. CASE UNCHANGED call
  BY <1>0, <1>1 DEF About
<1>2. ASSUME NEW ep, ep = grant'[g].episode, Enter(c, "claim", g, cc, ep)
      PROVE  /\ \A d \in Calls \ {c} : call'[d] = call[d]
             /\ About(c, g)' => call'[c].since = now /\ call'[c].episode = grant'[g].episode /\ ~Holds(c, g)'
  <2>. DEFINE new == [Idle EXCEPT !.pc = "claim", !.row = g, !.cc = cc, !.episode = ep, !.since = now]
  <2>1. new.pc = "claim" /\ new.since = now /\ new.episode = ep
    BY DEF Idle
  <2>2. call' = [call EXCEPT ![c] = new]
    BY <1>2 DEF Enter
  <2>. HIDE DEF new
  <2>3. call'[c] = new /\ \A d \in Calls \ {c} : call'[d] = call[d]
    BY <2>2 DEF TypeInv, TypeOK, SystemOK
  <2>. QED BY <1>2, <2>1, <2>3 DEF Holds
<1>3. Enter(c, "claim", g, cc, grant'[g].episode) \/ UNCHANGED call
  BY DEF FailGrant, TypeInv, TypeOK, SystemOK
<1>. QED BY <1>1, <1>2, <1>3

LEMMA FailKeeps ==
  ASSUME TypeInv, LongEpisodes, NEW g \in Grants, Orderly(g), g \notin Turned, StillCounted,
         NEW c \in Calls, NEW class, NEW cc, FailGrant(c, g, class, cc)
  PROVE  Orderly(g)'
<1>. DEFINE old == grant[g]
            stale == old.class # None /\ (old.lastFailedAt < now - GrantEpisode \/ old.class # class)
<1>1. /\ grant'[g].lastFailedAt = now
      /\ grant'[g].notifiedAt = IF stale THEN Never ELSE old.notifiedAt
      /\ grant'[g].episode = IF stale THEN old.episode + 1 ELSE old.episode
  BY DEF FailGrant, TypeInv, TypeOK, SystemOK, GrantOK
<1>2. call[c].pc = "idle" /\ mails' = mails /\ now' = now
  BY DEF FailGrant
<1>3. stale => old.lastFailedAt < now - GrantEpisode
  <2>1. grant'[g].class = class
    BY DEF FailGrant, TypeInv, TypeOK, SystemOK, GrantOK
  <2>. QED BY <2>1 DEF Turned
<1>4. /\ \A d \in Calls \ {c} : call'[d] = call[d]
      /\ About(c, g)' => call'[c].since = now /\ call'[c].episode = grant'[g].episode /\ ~Holds(c, g)'
  BY FailEnters
<1>5. now \in Nat /\ CallLife \in Nat /\ old.episode \in Nat /\ old.lastFailedAt \in Nat /\ old.notifiedAt \in Int
  <2>1. old.episode \in Nat /\ old.lastFailedAt \in Time /\ old.notifiedAt \in Stamp
    BY DEF TypeInv, TypeOK, SystemOK, GrantOK
  <2>. QED BY <2>1, ClockReadings, Parameters, StampsOK DEF TypeInv, TypeOK, SystemOK
<1>. HIDE DEF stale, old
<1>6. \A d \in Calls : Holds(d, g)' => Holds(d, g) /\ call'[d] = call[d] /\ ~stale
  <2>1. \A d \in Calls : Holds(d, g) => About(d, g)
    BY DEF Holds, About
  <2>2. \A d \in Calls : Holds(d, g)' => d # c
    BY <1>4 DEF Holds, About
  <2>. QED BY <1>3, <1>4, <2>1, <2>2, StaleIsFree DEF Holds, old
<1>7. Counted' \subseteq Counted
  BY <1>2 DEF StillCounted, Counted
<1>8. ASSUME NEW d \in Calls PROVE InEpisode(d, g)'
  <2>1. CASE d = c
    BY <1>1, <1>2, <1>4, <1>5, <2>1 DEF InEpisode
  <2>2. CASE d # c
    <3>1. About(d, g)' => About(d, g) /\ ~stale
      BY <1>3, <1>4, <2>2, StaleIsFree DEF About, old
    <3>2. call[d].since \in Nat
      BY ClockReadings DEF TypeInv, TypeOK, SystemOK, CallOK
    <3>. QED BY <1>1, <1>2, <1>4, <1>5, <2>2, <3>1, <3>2 DEF Orderly, InEpisode, old
  <2>. QED BY <2>1, <2>2
<1>9. ASSUME NEW d \in Calls PROVE HoldsAlone(d, g)'
  <2>. SUFFICES ASSUME Holds(d, g)' PROVE HoldsAlone(d, g)'
    BY DEF HoldsAlone
  <2>1. Holds(d, g) /\ HoldsAlone(d, g) /\ call'[d] = call[d] /\ ~stale
    BY <1>6 DEF Orderly
  <2>2. call[d].stamp \in Int
    BY StampsOK DEF TypeInv, TypeOK, SystemOK, CallOK
  <2>. QED BY <1>1, <1>2, <1>5, <1>6, <1>7, <2>1, <2>2 DEF HoldsAlone, old
<1>10. ASSUME NEW i \in Counted' PROVE Remembered(i, g)'
  <2>1. mails[i].episode \in Nat /\ mails[i].at \in Nat
    BY <1>7, MailTimes DEF MailOK, Counted
  <2>2. CASE stale
    BY <1>1, <1>2, <1>3, <1>5, <1>7, <2>1, <2>2, StaleIsFree DEF Orderly, Remembered, old
  <2>3. CASE ~stale
    BY <1>1, <1>2, <1>5, <1>7, <2>1, <2>3 DEF Orderly, Remembered, old
  <2>. QED BY <2>2, <2>3
<1>11. ASSUME NEW i \in Counted', NEW j \in Counted', i # j, mails'[i].row = g PROVE Apart(i, j)'
  BY <1>2, <1>7, <1>11 DEF Orderly, Apart
<1>. QED BY <1>8, <1>9, <1>10, <1>11 DEF Orderly

LEMMA ClaimKeeps ==
  ASSUME TypeInv, NEW g \in Grants, Orderly(g), StillCounted, NEW c \in Calls, Claim(c), call[c].row = g
  PROVE  Orderly(g)'
<1>1. grant[g].notifiedAt = Never
  <2>1. NotifiedAt[g] = Never
    BY ClaimStamps DEF Permits
  <2>2. g \in Rows /\ g \notin Links /\ g \notin Refusals
    BY LedgersDisjoint DEF Rows
  <2>. QED BY <2>1, <2>2 DEF NotifiedAt
<1>2. /\ grant'[g].notifiedAt = now /\ grant'[g].lastFailedAt = grant[g].lastFailedAt
      /\ grant'[g].episode = grant[g].episode
  BY DEF Claim, Stamped, TypeInv, TypeOK, SystemOK, GrantOK
<1>3. mails' = mails /\ now' = now /\ call[c].pc = "claim"
  BY DEF Claim
<1>4. /\ call'[c].pc = "send" /\ call'[c].row = g /\ call'[c].stamp = now
      /\ call'[c].since = call[c].since /\ call'[c].episode = call[c].episode
      /\ \A d \in Calls \ {c} : call'[d] = call[d]
  <2>. DEFINE new == [call[c] EXCEPT !.pc = "send", !.stamp = now]
  <2>1. call[c] \in CallOK
    BY DEF TypeInv, TypeOK, SystemOK
  <2>2. /\ new.pc = "send" /\ new.row = g /\ new.stamp = now
        /\ new.since = call[c].since /\ new.episode = call[c].episode
    BY <2>1 DEF CallOK
  <2>3. call' = [call EXCEPT ![c] = new]
    BY DEF Claim
  <2>. HIDE DEF new
  <2>. QED BY <2>2, <2>3 DEF TypeInv, TypeOK, SystemOK
<1>5. now \in Nat /\ now # Never /\ CallLife \in Nat /\ grant[g].lastFailedAt \in Nat /\ call[c].since \in Nat
  <2>1. grant[g].lastFailedAt \in Time /\ call[c].since \in Time /\ now \in Time
    BY DEF TypeInv, TypeOK, SystemOK, GrantOK, CallOK
  <2>2. now \in Nat /\ CallLife \in Nat /\ grant[g].lastFailedAt \in Nat /\ call[c].since \in Nat
    BY <2>1, ClockReadings, Parameters
  <2>. QED BY <2>2 DEF Never
<1>6. About(c, g)
  BY <1>3 DEF About
<1>7. now <= grant[g].lastFailedAt + CallLife /\ Counted' \subseteq Counted
  <2>1. now - call[c].since <= CallLife /\ call[c].since <= grant[g].lastFailedAt
    BY <1>6 DEF Orderly, InEpisode
  <2>2. Counted' \subseteq Counted
    BY <1>3 DEF StillCounted, Counted
  <2>. QED BY <1>5, <2>1, <2>2
<1>8. ASSUME NEW d \in Calls PROVE InEpisode(d, g)'
  <2>1. About(d, g)' => About(d, g) /\ call'[d].since = call[d].since /\ call'[d].episode = call[d].episode
    BY <1>4, <1>6 DEF About
  <2>. QED BY <1>2, <1>3, <2>1 DEF Orderly, InEpisode
<1>9. \A d \in Calls : ~Holds(d, g)
  BY <1>1 DEF Orderly, HoldsAlone
<1>10. \A i \in Counted : mails[i].row = g =>
         mails[i].episode < grant[g].episode /\ mails[i].at + Day <= now
  BY <1>1, MailTimes DEF Orderly, Remembered, Counted
<1>11. ASSUME NEW d \in Calls PROVE HoldsAlone(d, g)'
  <2>1. \A e \in Calls : Holds(e, g)' => e = c
    BY <1>4, <1>9 DEF Holds
  <2>. QED BY <1>2, <1>3, <1>4, <1>5, <1>7, <1>10, <2>1 DEF HoldsAlone
<1>12. ASSUME NEW i \in Counted' PROVE Remembered(i, g)'
  BY <1>2, <1>3, <1>7, <1>10 DEF Remembered
<1>13. ASSUME NEW i \in Counted', NEW j \in Counted', i # j, mails'[i].row = g PROVE Apart(i, j)'
  BY <1>3, <1>7, <1>13 DEF Orderly, Apart
<1>. QED BY <1>8, <1>11, <1>12, <1>13 DEF Orderly

LEMMA SendKeeps ==
  ASSUME TypeInv, NEW g \in Grants, Orderly(g), StillCounted, NEW c \in Calls, call[c].pc = "send", call[c].row = g,
         Sent(c), Return(c), UNCHANGED <<now, grant>>
  PROVE  Orderly(g)'
<1>. DEFINE n == Len(mails)
<1>1. /\ n \in Nat /\ DOMAIN mails = 1..n /\ DOMAIN mails' = 1..(n + 1)
      /\ mails'[n + 1] = Mail(c) /\ \A i \in 1..n : mails'[i] = mails[i]
  <2>1. mails \in Seq(MailOK) /\ Mail(c) \in MailOK /\ mails' = Append(mails, Mail(c))
    BY SentOK DEF Sent, TypeInv, TypeOK, SystemOK
  <2>. QED BY <2>1
<1>2. mails'[n + 1].row = g /\ mails'[n + 1].at = call[c].stamp /\ mails'[n + 1].episode = call[c].episode
  BY <1>1 DEF Mail
<1>3. Holds(c, g) /\ About(c, g)
  BY DEF Holds, About
<1>4. /\ grant[g].notifiedAt = call[c].stamp /\ call[c].episode = grant[g].episode
      /\ \A d \in Calls : Holds(d, g) => d = c
      /\ \A i \in Counted : mails[i].row = g =>
           mails[i].episode < grant[g].episode /\ mails[i].at + Day <= call[c].stamp
      /\ call[c].stamp <= now /\ call[c].stamp <= grant[g].lastFailedAt + CallLife
  BY <1>1, <1>3 DEF Orderly, HoldsAlone, InEpisode
<1>5. call'[c].pc = "idle" /\ \A d \in Calls \ {c} : call'[d] = call[d]
  BY DEF Return, Idle, TypeInv, TypeOK, SystemOK
<1>6. /\ Counted \subseteq 1..n /\ Counted' \subseteq Counted \union {n + 1}
      /\ grant[g].episode \in Nat /\ \A i \in 1..n : mails[i].episode \in Nat
  <2>1. grant[g].episode \in Nat
    BY DEF TypeInv, TypeOK, SystemOK, GrantOK
  <2>2. Counted \subseteq 1..n /\ Counted' \subseteq Counted \union {n + 1}
    BY <1>1 DEF StillCounted, Counted
  <2>. QED BY <1>1, <2>1, <2>2, MailTimes DEF MailOK
<1>7. \A i \in Counted : mails[i].row = g =>
        mails[i].episode # call[c].episode /\ mails[i].at + Day <= call[c].stamp
  BY <1>4, <1>6
<1>. HIDE DEF n
<1>8. ASSUME NEW d \in Calls PROVE InEpisode(d, g)' /\ HoldsAlone(d, g)'
  <2>1. ~Holds(d, g)' /\ (About(d, g)' => About(d, g) /\ call'[d] = call[d])
    BY <1>4, <1>5 DEF Holds, About
  <2>. QED BY <2>1 DEF Orderly, InEpisode, HoldsAlone
<1>9. ASSUME NEW i \in Counted' PROVE Remembered(i, g)'
  <2>1. CASE i \in Counted
    BY <1>1, <1>6, <2>1 DEF Orderly, Remembered
  <2>2. CASE i = n + 1
    BY <1>2, <1>4, <2>2 DEF Remembered
  <2>. QED BY <1>6, <2>1, <2>2
<1>10. ASSUME NEW i \in Counted', NEW j \in Counted', i # j, mails'[i].row = g PROVE Apart(i, j)'
  <2>1. CASE i \in Counted /\ j \in Counted
    BY <1>1, <1>6, <1>10, <2>1 DEF Orderly, Apart
  <2>2. CASE i = n + 1 /\ j \in Counted
    <3>1. mails[j].row = g => mails[j].episode # call[c].episode /\ mails[j].at + Day <= call[c].stamp
      BY <1>7, <2>2
    <3>. QED BY <1>1, <1>2, <1>6, <2>2, <3>1 DEF Apart
  <2>3. CASE j = n + 1 /\ i \in Counted
    <3>1. mails[i].row = g => mails[i].episode # call[c].episode /\ mails[i].at + Day <= call[c].stamp
      BY <1>7, <2>3
    <3>. QED BY <1>1, <1>2, <1>6, <2>3, <3>1 DEF Apart
  <2>. QED BY <1>6, <1>10, <2>1, <2>2, <2>3
<1>. QED BY <1>8, <1>9, <1>10 DEF Orderly

LEMMA ReleaseKeeps ==
  ASSUME TypeInv, NEW g \in Grants, Orderly(g), StillCounted, NEW c \in Calls, Release(c), call[c].row = g
  PROVE  Orderly(g)'
<1>1. /\ grant'[g].notifiedAt = Never /\ grant'[g].lastFailedAt = grant[g].lastFailedAt
      /\ grant'[g].episode = grant[g].episode /\ mails' = mails /\ now' = now
  BY DEF Release, TypeInv, TypeOK, SystemOK, GrantOK
<1>2. Holds(c, g)
  BY DEF Release, Holds
<1>3. /\ \A d \in Calls : Holds(d, g) => d = c
      /\ \A i \in Counted : mails[i].row = g =>
           mails[i].episode < grant[g].episode /\ mails[i].at + Day <= now
  <2>1. call[c].stamp <= now /\ call[c].stamp \in Int /\ now \in Nat /\ Day \in Nat
    <3>1. call[c].stamp \in Stamp /\ now \in Time
      BY DEF TypeInv, TypeOK, SystemOK, CallOK
    <3>. QED BY <1>2, <3>1, ClockReadings, StampsOK, Intervals DEF Orderly, HoldsAlone
  <2>2. ASSUME NEW i \in Counted, mails[i].row = g
        PROVE  mails[i].episode < grant[g].episode /\ mails[i].at + Day <= now
    <3>1. mails[i].at \in Nat
      BY MailTimes DEF Counted
    <3>. QED BY <1>2, <2>1, <2>2, <3>1 DEF Orderly, HoldsAlone
  <2>. QED BY <1>2, <2>2 DEF Orderly, HoldsAlone
<1>4. call'[c].pc = "idle" /\ \A d \in Calls \ {c} : call'[d] = call[d]
  BY DEF Release, Return, Idle, TypeInv, TypeOK, SystemOK
<1>5. Counted' \subseteq Counted
  BY <1>1 DEF StillCounted, Counted
<1>6. ASSUME NEW d \in Calls PROVE InEpisode(d, g)' /\ HoldsAlone(d, g)'
  <2>1. ~Holds(d, g)' /\ (About(d, g)' => About(d, g) /\ call'[d] = call[d])
    BY <1>3, <1>4 DEF Holds, About
  <2>. QED BY <1>1, <2>1 DEF Orderly, InEpisode, HoldsAlone
<1>7. ASSUME NEW i \in Counted' PROVE Remembered(i, g)'
  BY <1>1, <1>3, <1>5 DEF Remembered
<1>8. ASSUME NEW i \in Counted', NEW j \in Counted', i # j, mails'[i].row = g PROVE Apart(i, j)'
  BY <1>1, <1>5, <1>8 DEF Orderly, Apart
<1>. QED BY <1>6, <1>7, <1>8 DEF Orderly

LEMMA TickKeeps ==
  ASSUME TypeInv, NEW g \in Grants, Orderly(g), StillCounted, Tick
  PROVE  Orderly(g)'
<1>1. /\ UNCHANGED <<grant, call, mails>> /\ now' = now + 1 /\ now \in Nat
      /\ \A c \in Calls : call[c].pc # "idle" => now' - call[c].since <= CallLife
  <2>1. now \in Nat
    BY ClockReadings DEF TypeInv, TypeOK, SystemOK
  <2>2. now' = now + 1 /\ UNCHANGED <<grant, call, mails>>
    BY DEF Tick, ledgers
  <2>3. \A c \in Calls : call[c].pc # "idle" => now + 1 - call[c].since <= CallLife
    BY DEF Tick
  <2>4. \A c \in Calls : call[c].since \in Nat
    BY ClockReadings DEF TypeInv, TypeOK, SystemOK, CallOK
  <2>. QED BY <2>1, <2>2, <2>3, <2>4
<1>2. /\ Counted' \subseteq Counted /\ Day \in Nat /\ CallLife \in Nat
      /\ grant[g].lastFailedAt \in Nat /\ \A c \in Calls : call[c].stamp \in Int
  <2>1. Counted' \subseteq Counted
    BY <1>1 DEF StillCounted, Counted
  <2>2. grant[g].lastFailedAt \in Time /\ \A c \in Calls : call[c].stamp \in Stamp
    BY DEF TypeInv, TypeOK, SystemOK, GrantOK, CallOK
  <2>. QED BY <2>1, <2>2, ClockReadings, Parameters, Intervals, StampsOK
<1>3. ASSUME NEW d \in Calls PROVE InEpisode(d, g)' /\ HoldsAlone(d, g)'
  <2>1. InEpisode(d, g)'
    BY <1>1, <1>2 DEF Orderly, InEpisode, About
  <2>2. HoldsAlone(d, g)'
    BY <1>1, <1>2 DEF Orderly, HoldsAlone, Holds
  <2>. QED BY <2>1, <2>2
<1>4. ASSUME NEW i \in Counted' PROVE Remembered(i, g)'
  <2>1. mails[i].at \in Nat
    BY <1>2, MailTimes DEF Counted
  <2>. QED BY <1>1, <1>2, <2>1 DEF Orderly, Remembered
<1>5. ASSUME NEW i \in Counted', NEW j \in Counted', i # j, mails'[i].row = g PROVE Apart(i, j)'
  BY <1>1, <1>2, <1>5 DEF Orderly, Apart
<1>. QED BY <1>3, <1>4, <1>5 DEF Orderly

LEMMA OrderlyKept ==
  ASSUME TypeInv, LongEpisodes, [Next]_vars, NEW g \in Grants, Orderly(g), g \notin Turned
  PROVE  Orderly(g)'
<1>. USE DEF ledgers, bounces
<1>0. g \notin Links /\ g \notin Refusals /\ Idle.pc = "idle" /\ StillCounted /\ Counted' \subseteq DOMAIN mails'
  BY LedgersDisjoint, Counting DEF Idle
<1>. DEFINE Same == /\ now' = now /\ grant'[g].notifiedAt = grant[g].notifiedAt
                    /\ grant'[g].lastFailedAt = grant[g].lastFailedAt /\ grant'[g].episode = grant[g].episode
            MailsOff == \A i \in Counted' : mails'[i].row = g => i \in Counted /\ mails'[i] = mails[i]
<1>a. ASSUME NEW c \in Calls, NEW new, call' = [call EXCEPT ![c] = new], new.pc = "idle" \/ new.row # g,
             Same, MailsOff
      PROVE  Orderly(g)'
  <2>1. \A d \in Calls : About(d, g)' =>
            /\ About(d, g) /\ (Holds(d, g)' => Holds(d, g))
            /\ call'[d].since = call[d].since /\ call'[d].episode = call[d].episode
            /\ call'[d].stamp = call[d].stamp
    BY <1>a, OffCall
  <2>. QED BY <1>0, <1>a, <2>1, OffGrant
<1>b. ASSUME NEW c \in Calls, Return(c), Same, MailsOff PROVE Orderly(g)'
  BY <1>0, <1>a, <1>b DEF Return
<1>c. ASSUME NEW c \in Calls, NEW pc \in {"read", "claim"}, NEW r, r # g, NEW cc, NEW ep, Enter(c, pc, r, cc, ep),
             Same, MailsOff
      PROVE  Orderly(g)'
  <2>. DEFINE new == [Idle EXCEPT !.pc = pc, !.row = r, !.cc = cc, !.episode = ep, !.since = now]
  <2>1. new.row = r
    BY DEF Idle
  <2>2. call' = [call EXCEPT ![c] = new]
    BY <1>c DEF Enter
  <2>. HIDE DEF new, Same, MailsOff
  <2>. QED BY <1>a, <1>c, <2>1, <2>2
<1>d. ASSUME UNCHANGED call, Same, MailsOff PROVE Orderly(g)'
  BY <1>0, <1>d, OffGrant DEF About, Holds
<1>m. UNCHANGED mails => MailsOff
  BY <1>0 DEF StillCounted, Counted
<1>e. UNCHANGED <<now, grant, mails>> => Same /\ MailsOff
  BY <1>m
<1>1. ASSUME NEW c \in Calls, NEW r \in Links, Mint(c, r) PROVE Orderly(g)'
  <2>1. UNCHANGED <<now, grant, mails>> /\ Enter(c, "read", r, None, 0)
    BY <1>1 DEF Mint
  <2>. HIDE DEF Same, MailsOff
  <2>. QED BY <1>0, <1>c, <1>e, <2>1
<1>2. ASSUME NEW c \in Calls, NEW r \in Refusals, Refuse(c, r) PROVE Orderly(g)'
  <2>1. UNCHANGED <<now, grant, mails>> /\ (Enter(c, "claim", r, None, 0) \/ UNCHANGED call)
    BY <1>2 DEF Refuse
  <2>. HIDE DEF Same, MailsOff
  <2>. QED BY <1>0, <1>c, <1>d, <1>e, <2>1
<1>3. ASSUME NEW c \in Calls, NEW h \in Grants, NEW class, NEW cc, FailGrant(c, h, class, cc)
      PROVE  Orderly(g)'
  <2>1. CASE h = g
    BY <1>0, <1>3, <2>1, FailKeeps
  <2>2. CASE h # g
    <3>1. grant'[g] = grant[g]
      BY <1>3, <2>2 DEF FailGrant, TypeInv, TypeOK, SystemOK
    <3>2. UNCHANGED <<now, mails>> /\ ((\E ep : Enter(c, "claim", h, cc, ep)) \/ UNCHANGED call)
      BY <1>3 DEF FailGrant
    <3>3. Same /\ MailsOff
      BY <1>m, <3>1, <3>2
    <3>. HIDE DEF Same, MailsOff
    <3>. QED BY <1>c, <1>d, <2>2, <3>2, <3>3
  <2>. QED BY <2>1, <2>2
<1>4. ASSUME NEW c \in Calls, ReadLink(c) PROVE Orderly(g)'
  <2>1. UNCHANGED <<now, grant, mails>> /\ call[c].row \in Links /\ (Return(c) \/ Goto(c, "claim"))
    BY <1>4 DEF ReadLink, TypeInv, CallsBusy
  <2>2. CASE Goto(c, "claim")
    <3>1. [call[c] EXCEPT !.pc = "claim"].row = call[c].row
      BY DEF TypeInv, TypeOK, SystemOK, CallOK
    <3>2. call' = [call EXCEPT ![c] = [call[c] EXCEPT !.pc = "claim"]]
      BY <2>2 DEF Goto
    <3>. HIDE DEF Same, MailsOff
    <3>. QED BY <1>0, <1>a, <1>e, <2>1, <3>1, <3>2
  <2>. HIDE DEF Same, MailsOff
  <2>. QED BY <1>b, <1>e, <2>1, <2>2
<1>5. ASSUME NEW c \in Calls, ClaimRefused(c) \/ Die(c) PROVE Orderly(g)'
  <2>1. UNCHANGED <<now, grant, mails>> /\ Return(c)
    BY <1>5 DEF ClaimRefused, Die
  <2>. HIDE DEF Same, MailsOff
  <2>. QED BY <1>b, <1>e, <2>1
<1>6. ASSUME NEW c \in Calls, Claim(c) PROVE Orderly(g)'
  <2>1. CASE call[c].row = g
    BY <1>0, <1>6, <2>1, ClaimKeeps
  <2>2. CASE call[c].row # g
    <3>. DEFINE new == [call[c] EXCEPT !.pc = "send", !.stamp = now]
    <3>1. new.row = call[c].row
      BY DEF TypeInv, TypeOK, SystemOK, CallOK
    <3>2. call' = [call EXCEPT ![c] = new] /\ UNCHANGED <<now, mails>>
      BY <1>6 DEF Claim
    <3>3. grant'[g] = grant[g]
      BY <1>6, <2>2 DEF Claim, Stamped, TypeInv, TypeOK, SystemOK
    <3>4. Same /\ MailsOff
      BY <1>m, <3>2, <3>3
    <3>. HIDE DEF new, Same, MailsOff
    <3>. QED BY <1>a, <2>2, <3>1, <3>2, <3>4
  <2>. QED BY <2>1, <2>2
<1>7. ASSUME NEW c \in Calls, SendAccepted(c) \/ SendUnconfirmed(c) PROVE Orderly(g)'
  <2>1. UNCHANGED <<now, grant>> /\ Return(c) /\ call[c].pc = "send" /\ (Sent(c) \/ UNCHANGED mails)
    BY <1>7 DEF SendAccepted, SendUnconfirmed
  <2>2. CASE UNCHANGED mails
    <3>. HIDE DEF Same, MailsOff
    <3>. QED BY <1>b, <1>e, <2>1, <2>2
  <2>3. CASE Sent(c) /\ call[c].row = g
    BY <1>0, <2>1, <2>3, SendKeeps
  <2>4. CASE Sent(c) /\ call[c].row # g
    <3>1. mails \in Seq(MailOK) /\ Mail(c) \in MailOK /\ mails' = Append(mails, Mail(c)) /\ Mail(c).row = call[c].row
      BY <2>1, <2>4, SentOK DEF Sent, Mail, TypeInv, TypeOK, SystemOK
    <3>2. /\ Len(mails) \in Nat /\ DOMAIN mails = 1..Len(mails) /\ DOMAIN mails' = 1..(Len(mails) + 1)
          /\ mails'[Len(mails) + 1] = Mail(c) /\ \A i \in 1..Len(mails) : mails'[i] = mails[i]
      BY <3>1
    <3>3. MailsOff
      BY <1>0, <2>4, <3>1, <3>2 DEF StillCounted
    <3>4. Same
      BY <2>1
    <3>. HIDE DEF Same, MailsOff
    <3>. QED BY <1>b, <2>1, <3>3, <3>4
  <2>. QED BY <2>1, <2>2, <2>3, <2>4
<1>8. ASSUME NEW c \in Calls, SendRefused(c) PROVE Orderly(g)'
  <2>1. UNCHANGED <<now, grant, mails>> /\ call[c].pc = "send" /\ call' = [call EXCEPT ![c].pc = "release"]
    BY <1>8 DEF SendRefused, Goto
  <2>2. \A d \in Calls : About(d, g)' =>
            /\ About(d, g) /\ (Holds(d, g)' => Holds(d, g))
            /\ call'[d].since = call[d].since /\ call'[d].episode = call[d].episode
            /\ call'[d].stamp = call[d].stamp
    BY <2>1 DEF About, Holds, TypeInv, TypeOK, SystemOK, CallOK
  <2>3. Same /\ MailsOff
    BY <1>e, <2>1
  <2>. QED BY <1>0, <2>2, <2>3, OffGrant
<1>9. ASSUME NEW c \in Calls, Release(c) PROVE Orderly(g)'
  <2>1. CASE call[c].row = g
    BY <1>0, <1>9, <2>1, ReleaseKeeps
  <2>2. CASE call[c].row # g
    <3>1. grant'[g] = grant[g]
      BY <1>9, <2>2 DEF Release, TypeInv, TypeOK, SystemOK
    <3>2. Return(c) /\ UNCHANGED <<now, mails>>
      BY <1>9 DEF Release
    <3>3. Same /\ MailsOff
      BY <1>m, <3>1, <3>2
    <3>. HIDE DEF Same, MailsOff
    <3>. QED BY <1>b, <3>2, <3>3
  <2>. QED BY <2>1, <2>2
<1>10. CASE Sweep
  <2>1. UNCHANGED <<now, call, mails>>
    BY <1>10 DEF Sweep, FileBounce, MarkGrants, SweepDies
  <2>2. UNCHANGED grant \/ \E a \in Addresses : MarkGrants(a)
    BY <1>10 DEF Sweep, FileBounce, SweepDies
  <2>3. Same
    BY <2>1, <2>2 DEF MarkGrants, TypeInv, TypeOK, SystemOK, GrantOK
  <2>4. MailsOff
    BY <1>m, <2>1
  <2>. QED BY <1>d, <2>1, <2>3, <2>4
<1>11. CASE (\E r \in Links : Open(r)) \/ UNCHANGED vars
  <2>1. UNCHANGED <<now, call, grant, mails>>
    BY <1>11 DEF Open, vars
  <2>. QED BY <1>d, <1>e, <2>1
<1>12. CASE Tick
  BY <1>0, <1>12, TickKeeps
<1>. QED
  BY <1>1, <1>2, <1>3, <1>4, <1>5, <1>6, <1>7, <1>8, <1>9, <1>10, <1>11, <1>12
  DEF Next, Step, Event, CallStep

(* Every other call that is about a row after a step was so before it.     *)
LEMMA Entered ==
  ASSUME TypeInv, [Next]_vars, NEW g \in Grants, NEW d \in Calls, ~About(d, g), About(d, g)'
  PROVE  \E c \in Calls : \E class, cc : FailGrant(c, g, class, cc)
<1>. SUFFICES ASSUME \A c \in Calls : \A class, cc : ~FailGrant(c, g, class, cc) PROVE FALSE
  OBVIOUS
<1>0. g \notin Links /\ g \notin Refusals /\ Idle.pc = "idle"
  BY LedgersDisjoint DEF Idle
<1>a. ASSUME NEW c \in Calls, NEW new, call' = [call EXCEPT ![c] = new], new.pc = "idle" \/ new.row # g
      PROVE  FALSE
  BY <1>a, OffCall
<1>b. ASSUME NEW c \in Calls, NEW pc \in {"read", "claim"}, NEW r, r # g, NEW cc, NEW ep, Enter(c, pc, r, cc, ep)
      PROVE  FALSE
  <2>. DEFINE new == [Idle EXCEPT !.pc = pc, !.row = r, !.cc = cc, !.episode = ep, !.since = now]
  <2>1. new.row = r
    BY DEF Idle
  <2>2. call' = [call EXCEPT ![c] = new]
    BY <1>b DEF Enter
  <2>. HIDE DEF new
  <2>. QED BY <1>a, <1>b, <2>1, <2>2
<1>c. ASSUME UNCHANGED call PROVE FALSE
  BY <1>c DEF About
<1>1. ASSUME NEW c \in Calls, Event(c) PROVE FALSE
  <2>1. \A r \in Links : ~Mint(c, r)
    BY <1>0, <1>b DEF Mint
  <2>2. \A r \in Refusals : ~Refuse(c, r)
    BY <1>0, <1>b, <1>c DEF Refuse
  <2>3. ASSUME NEW h \in Grants, NEW class, NEW cc, FailGrant(c, h, class, cc) PROVE FALSE
    <3>1. h # g
      BY <2>3
    <3>2. (\E ep : Enter(c, "claim", h, cc, ep)) \/ UNCHANGED call
      BY <2>3 DEF FailGrant
    <3>. QED BY <1>b, <1>c, <3>1, <3>2
  <2>. QED BY <1>1, <2>1, <2>2, <2>3 DEF Event
<1>2. ASSUME NEW c \in Calls, CallStep(c) PROVE FALSE
  <2>1. call[c].pc # "idle" /\ call[c] \in CallOK
    BY <1>2 DEF CallStep, ReadLink, Claim, ClaimRefused, SendAccepted, SendUnconfirmed, SendRefused,
                Release, Die, TypeInv, TypeOK, SystemOK
  <2>2. ASSUME NEW new, call' = [call EXCEPT ![c] = new], new.pc = "idle" \/ new.row = call[c].row
        PROVE  FALSE
    <3>1. CASE call[c].row = g
      <4>1. About(c, g)
        BY <2>1, <3>1 DEF About
      <4>2. d # c /\ call'[d] = call[d]
        BY <2>2, <4>1 DEF TypeInv, TypeOK, SystemOK
      <4>. QED BY <4>2 DEF About
    <3>2. CASE call[c].row # g
      BY <1>a, <2>2, <3>2
    <3>. QED BY <3>1, <3>2
  <2>3. ~Return(c)
    BY <1>0, <2>2 DEF Return
  <2>4. ASSUME NEW pc, Goto(c, pc) PROVE FALSE
    <3>1. [call[c] EXCEPT !.pc = pc].row = call[c].row
      BY <2>1 DEF CallOK
    <3>2. call' = [call EXCEPT ![c] = [call[c] EXCEPT !.pc = pc]]
      BY <2>4 DEF Goto
    <3>. QED BY <2>2, <3>1, <3>2
  <2>5. ~Claim(c)
    <3>. SUFFICES ASSUME Claim(c) PROVE FALSE
      OBVIOUS
    <3>. DEFINE new == [call[c] EXCEPT !.pc = "send", !.stamp = now]
    <3>1. new.row = call[c].row
      BY <2>1 DEF CallOK
    <3>2. call' = [call EXCEPT ![c] = new]
      BY DEF Claim
    <3>. HIDE DEF new
    <3>. QED BY <2>2, <3>1, <3>2
  <2>. QED BY <1>2, <2>3, <2>4, <2>5
       DEF CallStep, ReadLink, ClaimRefused, SendAccepted, SendUnconfirmed, SendRefused, Release, Die
<1>3. CASE (\E r \in Links : Open(r)) \/ Sweep \/ Tick \/ UNCHANGED vars
  BY <1>c, <1>3 DEF Open, Sweep, FileBounce, MarkGrants, SweepDies, Tick, vars
<1>. QED BY <1>1, <1>2, <1>3 DEF Next, Step

(* A step over which no call about g goes on, and after which no mail      *)
(* about it counts, leaves it as a row nothing has been done about yet.    *)
LEMMA Settles ==
  ASSUME TypeInv, [Next]_vars, NEW g \in Grants, \A i \in Counted' : mails'[i].row # g,
         \A c \in Calls : ~(About(c, g) /\ About(c, g)')
  PROVE  Orderly(g)'
<1>1. ASSUME NEW d \in Calls, About(d, g)'
      PROVE  ~Holds(d, g)' /\ InEpisode(d, g)'
  <2>0. PICK c \in Calls : \E class, cc : FailGrant(c, g, class, cc)
    BY <1>1, Entered
  <2>1. PICK class, cc : FailGrant(c, g, class, cc)
    BY <2>0
  <2>2. d = c
    BY <1>1, <2>1, FailEnters DEF About
  <2>3. grant'[g].lastFailedAt = now /\ now' = now /\ now \in Nat /\ CallLife \in Nat
    BY <2>1, ClockReadings, Parameters DEF FailGrant, TypeInv, TypeOK, SystemOK, GrantOK
  <2>4. call'[d].since = now /\ call'[d].episode = grant'[g].episode /\ ~Holds(d, g)'
    BY <1>1, <2>1, <2>2, FailEnters
  <2>. QED BY <2>3, <2>4 DEF InEpisode
<1>2. ASSUME NEW d \in Calls PROVE InEpisode(d, g)' /\ HoldsAlone(d, g)'
  <2>1. Holds(d, g)' => About(d, g)'
    BY DEF Holds, About
  <2>. QED BY <1>1, <2>1 DEF InEpisode, HoldsAlone
<1>. QED BY <1>2 DEF Orderly, Remembered

LEMMA GrantKept == TypeInv /\ GrantInv /\ LongEpisodes /\ [Next]_vars => GrantInv'
<1>. SUFFICES ASSUME TypeInv, GrantInv, LongEpisodes, [Next]_vars PROVE GrantInv'
  OBVIOUS
<1>1. CASE Excuse
  <2>1. \A i \in Counted' : mails'[i].row \notin unsettled \union Turned
    BY <1>1 DEF Excuse, Counted
  <2>2. \A i \in Counted' : mails'[i].row \notin unsettled'
    BY <1>1, <2>1 DEF Excuse
  <2>3. ASSUME NEW g \in Grants \ unsettled' PROVE Orderly(g)'
    <3>1. CASE g \in unsettled \union Turned
      <4>1. \A c \in Calls : ~(About(c, g) /\ About(c, g)')
        BY <1>1, <3>1 DEF Excuse
      <4>. QED BY <2>1, <3>1, <4>1, Settles
    <3>2. CASE g \notin unsettled \union Turned
      BY <3>2, OrderlyKept DEF GrantInv
    <3>. QED BY <3>1, <3>2
  <2>. QED BY <2>2, <2>3 DEF GrantInv
<1>2. CASE UNCHANGED vars
  <2>1. UNCHANGED <<unsettled, mails, grant>> /\ Counted' = Counted
    BY <1>2 DEF vars, Counted
  <2>2. Turned = {}
    BY <2>1 DEF Turned
  <2>. QED BY <2>1, <2>2, OrderlyKept DEF GrantInv
<1>. QED BY <1>1, <1>2 DEF Next

LEMMA GrantsOrderly == ASSUME LongEpisodes PROVE Spec => []GrantInv
<1>1. Init => GrantInv
  <2>1. Init => \A c \in Calls : call[c].pc = "idle"
    BY DEF Init, Idle
  <2>2. Init => Counted = {}
    BY DEF Init, Counted
  <2>. QED BY <2>1, <2>2 DEF GrantInv, Orderly, InEpisode, HoldsAlone, Holds, About
<1>2. TypeInv /\ GrantInv /\ [Next]_vars => GrantInv'
  BY GrantKept
<1>. QED BY <1>1, <1>2, TypesAndCalls, PTL DEF Spec

(* If episodes are long, an owner is mailed about a grant once in an       *)
(* episode, however many calls fail for it at once, race for the claim, or *)
(* fail to send; mails excused by a change of class do not count.          *)
THEOREM GrantMailedOnce == ASSUME LongEpisodes PROVE Spec => []OneGrantMailPerEpisode
<1>1. GrantInv => OneGrantMailPerEpisode
  BY MailTimes DEF GrantInv, Orderly, Apart, OneGrantMailPerEpisode, Counted, MailOK
<1>. QED BY <1>1, GrantsOrderly, PTL
------------------------------------------------------------------------------
(* The limits on mails.  A claim counts stamps; but a stamp may be erased  *)
(* after its mail was sent.  Stood(r, w, gap): a stamp of r, or a mail     *)
(* about it, is of the interval gap that ends at w.  Of the interval that  *)
(* ends now every mail is still stamped, so a claim counts all that stood. *)
Stood(r, w, gap) ==
  \/ Within(NotifiedAt[r], w, gap) /\ NotifiedAt[r] <= w
  \/ \E i \in Counted : mails[i].row = r /\ Within(mails[i].at, w, gap) /\ mails[i].at <= w

DayRows(o, w) == {r \in Rows : OwnerOf[r] = o /\ Stood(r, w, Day)}
HourRows(w) == {g \in Grants : Stood(g, w, Hour)}

LimitsInv ==
  /\ \A o \in Owners, w \in Nat : Cardinality(DayRows(o, w)) <= MaxPerDay
  /\ \A w \in Nat : Cardinality(HourRows(w)) <= GlobalHourlyMax

LEMMA OneRowMore ==
  ASSUME NEW S \in SUBSET Rows, NEW T \in SUBSET Rows, NEW r, NEW n \in Nat,
         Cardinality(S) < n, T \subseteq S \union {r}
  PROVE  Cardinality(T) <= n
<1>1. IsFiniteSet(S) /\ Cardinality(S) \in Nat
  BY RowsFinite, FS_Subset, FS_CardinalityType
<1>2. IsFiniteSet(S \union {r}) /\ Cardinality(S \union {r}) <= Cardinality(S) + 1
  <2>1. CASE r \in S
    <3>1. S \union {r} = S BY <2>1
    <3>. QED BY <1>1, <3>1
  <2>2. CASE r \notin S
    <3>1. IsFiniteSet(S \union {r}) /\ Cardinality(S \union {r}) = Cardinality(S) + 1
      BY <1>1, <2>2, FS_AddElement
    <3>. QED BY <1>1, <3>1
  <2>. QED BY <2>1, <2>2
<1>. QED BY <1>1, <1>2, FS_Subset, FS_CardinalityType

LEMMA FewerRows ==
  ASSUME NEW S \in SUBSET Rows, NEW T \in SUBSET S, NEW n \in Nat, Cardinality(S) <= n
  PROVE  Cardinality(T) <= n
<1>1. IsFiniteSet(S) /\ IsFiniteSet(T) /\ Cardinality(T) <= Cardinality(S)
  BY RowsFinite, FS_Subset
<1>. QED BY <1>1, FS_CardinalityType

(* A mail of the last day is about a row that still has its stamp.         *)
LEMMA MailStillStamped ==
  ASSUME TypeInv, OnceInv, GrantInv, NEW i \in Counted
  PROVE  /\ mails[i].row \in Rows
         /\ NotifiedAt[mails[i].row] = mails[i].at \/ mails[i].at + Day <= now
<1>1. mails[i].row \in Rows /\ mails[i].row \notin unsettled /\ i \in DOMAIN mails
  BY MailTimes DEF GrantInv, Counted, MailOK
<1>2. CASE mails[i].row \in Grants
  <2>1. NotifiedAt[mails[i].row] = grant[mails[i].row].notifiedAt
    BY <1>1, <1>2, LedgersDisjoint DEF NotifiedAt
  <2>. QED BY <1>1, <1>2, <2>1 DEF GrantInv, Orderly, Remembered
<1>3. CASE mails[i].row \notin Grants
  BY <1>1, <1>3 DEF OnceInv, MailedStaysStamped
<1>. QED BY <1>1, <1>2, <1>3

(* A step that claims nothing adds nothing to an interval: a mail is sent  *)
(* with the time at which its row was stamped.                             *)
LEMMA StoodBefore ==
  ASSUME TypeInv, OnceInv, GrantInv, [Next]_vars, \A c \in Calls : ~Claim(c),
         NEW r \in Rows, NEW w \in Nat, NEW gap \in Nat, Stood(r, w, gap)'
  PROVE  Stood(r, w, gap)
<1>1. NotifiedAt'[r] # Never => NotifiedAt'[r] = NotifiedAt[r]
  BY StampMoves DEF NotifiedAt
<1>2. CASE Within(NotifiedAt'[r], w, gap) /\ NotifiedAt'[r] <= w
  BY <1>1, <1>2 DEF Stood, Within
<1>3. CASE \E i \in Counted' : mails'[i].row = r /\ Within(mails'[i].at, w, gap) /\ mails'[i].at <= w
  <2>1. \/ mails' = mails
        \/ \E c \in Calls : call[c].pc = "send" /\ Sent(c)
    <3>. USE DEF ledgers, bounces
    <3>1. ASSUME NEW c \in Calls, Event(c) PROVE mails' = mails
      <4>1. \A q \in Links : Mint(c, q) => mails' = mails
        BY DEF Mint
      <4>2. \A q \in Refusals : Refuse(c, q) => mails' = mails
        BY DEF Refuse
      <4>3. \A g, class, cc : FailGrant(c, g, class, cc) => mails' = mails
        BY DEF FailGrant
      <4>. QED BY <3>1, <4>1, <4>2, <4>3 DEF Event
    <3>2. ASSUME NEW c \in Calls, CallStep(c)
          PROVE  mails' = mails \/ (call[c].pc = "send" /\ Sent(c))
      BY <3>2 DEF CallStep, ReadLink, Claim, ClaimRefused, SendAccepted, SendUnconfirmed, SendRefused, Release, Die
    <3>3. CASE (\E q \in Links : Open(q)) \/ Sweep \/ Tick \/ UNCHANGED vars
      BY <3>3 DEF Open, Sweep, FileBounce, MarkGrants, SweepDies, Tick, vars
    <3>. QED BY <3>1, <3>2, <3>3 DEF Next, Step
  <2>c. /\ StillCounted /\ Counted' \subseteq DOMAIN mails'
        /\ mails' # mails => \A i \in Counted' : mails'[i].row \notin unsettled
    BY Counting
  <2>2. CASE mails' = mails
    BY <1>3, <2>c, <2>2 DEF Stood, StillCounted
  <2>3. ASSUME NEW c \in Calls, call[c].pc = "send", Sent(c) PROVE Stood(r, w, gap)
    <3>1. mails \in Seq(MailOK) /\ Mail(c) \in MailOK /\ mails' = Append(mails, Mail(c))
      BY <2>3, SentOK DEF Sent, TypeInv, TypeOK, SystemOK
    <3>2. Mail(c).row = call[c].row /\ Mail(c).at = call[c].stamp /\ call[c].row \in Rows
      BY <2>3 DEF Mail, TypeInv, CallsBusy
    <3>3. /\ Len(mails) \in Nat /\ DOMAIN mails = 1..Len(mails) /\ DOMAIN mails' = 1..(Len(mails) + 1)
          /\ mails'[Len(mails) + 1] = Mail(c) /\ \A i \in 1..Len(mails) : mails'[i] = mails[i]
      BY <3>1
    <3>5. PICK i \in Counted' : mails'[i].row = r /\ Within(mails'[i].at, w, gap) /\ mails'[i].at <= w
      BY <1>3
    <3>6. CASE i \in DOMAIN mails
      BY <2>c, <3>3, <3>5, <3>6 DEF Stood, StillCounted
    <3>7. CASE i = Len(mails) + 1
      <4>0. call[c].row \notin unsettled
        BY <2>c, <3>2, <3>3, <3>5, <3>7
      <4>1. NotifiedAt[call[c].row] = call[c].stamp
        <5>1. CASE call[c].row \in Grants
          <6>1. NotifiedAt[call[c].row] = grant[call[c].row].notifiedAt
            BY <3>2, <5>1, LedgersDisjoint DEF NotifiedAt
          <6>. QED BY <2>3, <4>0, <5>1, <6>1 DEF GrantInv, Orderly, HoldsAlone, Holds
        <5>2. CASE call[c].row \notin Grants
          BY <2>3, <3>2, <5>2 DEF OnceInv, HolderAlone, Held
        <5>. QED BY <5>1, <5>2
      <4>. QED BY <3>2, <3>3, <3>5, <3>7, <4>1 DEF Stood
    <3>. QED BY <2>c, <3>3, <3>6, <3>7
  <2>. QED BY <2>1, <2>2, <2>3
<1>. QED BY <1>2, <1>3 DEF Stood

(* What a claim of x at the present time adds to an interval that ends at  *)
(* w: x, if w is not in the past; and all else that stood in it is within  *)
(* the interval that ends now.                                             *)
LEMMA StoodClaimed ==
  ASSUME TypeInv, OnceInv, GrantInv, [Next]_vars, NEW c \in Calls, Claim(c),
         NEW r \in Rows, NEW w \in Nat, NEW gap \in Nat \ {0}, gap <= Day, Stood(r, w, gap)'
  PROVE  /\ (r = call[c].row /\ now <= w) \/ Stood(r, w, gap)
         /\ now <= w /\ r # call[c].row => Within(NotifiedAt[r], now, gap)
<1>1. /\ call[c].row \in Rows /\ now \in Nat /\ NotifiedAt \in [Rows -> Stamp] /\ Stamp \subseteq Int
      /\ NotifiedAt' = [NotifiedAt EXCEPT ![call[c].row] = now] /\ mails' = mails
      /\ Counted' \subseteq Counted
  BY ClaimStamps, StampsOK, Counting DEF Claim, StillCounted
<1>2. NotifiedAt'[r] = IF r = call[c].row THEN now ELSE NotifiedAt[r]
  BY <1>1
<1>3. NotifiedAt[r] \in Int /\ Day \in Nat
  BY <1>1, Intervals
<1>4. CASE Within(NotifiedAt'[r], w, gap) /\ NotifiedAt'[r] <= w
  <2>1. CASE r = call[c].row
    BY <1>2, <1>4, <2>1
  <2>2. CASE r # call[c].row
    BY <1>1, <1>2, <1>3, <1>4, <2>2 DEF Stood, Within
  <2>. QED BY <2>1, <2>2
<1>5. ASSUME NEW i \in Counted, mails[i].row = r, Within(mails[i].at, w, gap), mails[i].at <= w
      PROVE  Stood(r, w, gap) /\ (now <= w => Within(NotifiedAt[r], now, gap))
  <2>1. mails[i].at \in Nat /\ mails[i].at # Never
    BY MailTimes DEF Counted
  <2>2. NotifiedAt[r] = mails[i].at \/ mails[i].at + Day <= now
    BY <1>5, MailStillStamped
  <2>3. now <= w => Within(NotifiedAt[r], now, gap)
    BY <1>1, <1>3, <1>5, <2>1, <2>2 DEF Within
  <2>. QED BY <1>5, <2>3 DEF Stood
<1>. QED BY <1>1, <1>4, <1>5 DEF Stood

LEMMA LimitsKept ==
  ASSUME Hour <= Day, TypeInv, OnceInv, GrantInv, LimitsInv, [Next]_vars
  PROVE  LimitsInv'
<1>0. Day \in Nat \ {0} /\ Hour \in Nat \ {0} /\ MaxPerDay \in Nat /\ GlobalHourlyMax \in Nat
  BY Intervals, Limits
<1>1. ASSUME NEW o \in Owners, NEW w \in Nat PROVE Cardinality(DayRows(o, w)') <= MaxPerDay
  <2>0. /\ DayRows(o, w) \in SUBSET Rows /\ DayRows(o, w)' \in SUBSET Rows
        /\ Cardinality(DayRows(o, w)) <= MaxPerDay
    BY DEF DayRows, LimitsInv
  <2>1. CASE DayRows(o, w)' \subseteq DayRows(o, w)
    BY <1>0, <2>0, <2>1, FewerRows
  <2>2. CASE \A c \in Calls : ~Claim(c)
    BY <1>0, <2>1, <2>2, StoodBefore DEF DayRows
  <2>3. ASSUME NEW c \in Calls, Claim(c) PROVE Cardinality(DayRows(o, w)') <= MaxPerDay
    <3>1. \A r \in Rows : Stood(r, w, Day)' =>
            /\ (r = call[c].row /\ now <= w) \/ Stood(r, w, Day)
            /\ now <= w /\ r # call[c].row => Within(NotifiedAt[r], now, Day)
      BY <1>0, <2>3, StoodClaimed
    <3>2. CASE now <= w /\ OwnerOf[call[c].row] = o
      <4>1. Cardinality(RecentOf(NotifiedAt, now, o)) < MaxPerDay
        BY <2>3, <3>2, ClaimStamps DEF Permits, UnderCap
      <4>2. RecentOf(NotifiedAt, now, o) \in SUBSET Rows
        BY DEF RecentOf
      <4>3. DayRows(o, w)' \subseteq RecentOf(NotifiedAt, now, o) \union {call[c].row}
        BY <3>1, <3>2 DEF DayRows, RecentOf
      <4>. QED BY <1>0, <2>0, <4>1, <4>2, <4>3, OneRowMore
    <3>3. CASE ~(now <= w /\ OwnerOf[call[c].row] = o)
      BY <2>1, <3>1, <3>3 DEF DayRows
    <3>. QED BY <3>2, <3>3
  <2>. QED BY <2>2, <2>3
<1>2. ASSUME NEW w \in Nat PROVE Cardinality(HourRows(w)') <= GlobalHourlyMax
  <2>0. /\ HourRows(w) \in SUBSET Rows /\ HourRows(w)' \in SUBSET Rows /\ Grants \subseteq Rows
        /\ Cardinality(HourRows(w)) <= GlobalHourlyMax
    BY DEF HourRows, LimitsInv, Rows
  <2>1. CASE HourRows(w)' \subseteq HourRows(w)
    BY <1>0, <2>0, <2>1, FewerRows
  <2>2. CASE \A c \in Calls : ~Claim(c)
    BY <1>0, <2>0, <2>1, <2>2, StoodBefore DEF HourRows
  <2>3. ASSUME NEW c \in Calls, Claim(c) PROVE Cardinality(HourRows(w)') <= GlobalHourlyMax
    <3>1. \A r \in Rows : Stood(r, w, Hour)' =>
            /\ (r = call[c].row /\ now <= w) \/ Stood(r, w, Hour)
            /\ now <= w /\ r # call[c].row => Within(NotifiedAt[r], now, Hour)
      BY <1>0, <2>3, StoodClaimed
    <3>2. CASE now <= w /\ call[c].row \in Grants
      <4>1. Cardinality(RecentGrants(NotifiedAt, now)) < GlobalHourlyMax
        BY <2>3, <3>2, ClaimStamps DEF Permits, UnderBreaker
      <4>2. RecentGrants(NotifiedAt, now) \in SUBSET Rows
        BY <2>0 DEF RecentGrants
      <4>3. HourRows(w)' \subseteq RecentGrants(NotifiedAt, now) \union {call[c].row}
        BY <2>0, <3>1, <3>2 DEF HourRows, RecentGrants
      <4>. QED BY <1>0, <2>0, <4>1, <4>2, <4>3, OneRowMore
    <3>3. CASE ~(now <= w /\ call[c].row \in Grants)
      BY <2>0, <2>1, <3>1, <3>3 DEF HourRows
    <3>. QED BY <3>2, <3>3
  <2>. QED BY <2>2, <2>3
<1>. QED BY <1>1, <1>2 DEF LimitsInv

LEMMA LimitsHeld == ASSUME LongEpisodes, Hour <= Day PROVE Spec => []LimitsInv
<1>1. Init => LimitsInv
  <2>. SUFFICES ASSUME Init PROVE LimitsInv
    OBVIOUS
  <2>1. \A r \in Rows : NotifiedAt[r] = Never
    BY DEF Init, NotifiedAt, NoLink, NoRefusal, NoFailure, Rows
  <2>2. \A r \in Rows, w, gap \in Nat : ~Stood(r, w, gap)
    BY <2>1 DEF Init, Stood, Within, Counted
  <2>3. ASSUME NEW o \in Owners, NEW w \in Nat PROVE Cardinality(DayRows(o, w)) <= MaxPerDay
    <3>1. DayRows(o, w) = {}
      BY <2>2, Intervals DEF DayRows
    <3>. QED BY <3>1, FS_EmptySet, Limits
  <2>4. ASSUME NEW w \in Nat PROVE Cardinality(HourRows(w)) <= GlobalHourlyMax
    <3>1. HourRows(w) = {}
      BY <2>2, Intervals DEF HourRows, Rows
    <3>. QED BY <3>1, FS_EmptySet, Limits
  <2>. QED BY <2>3, <2>4 DEF LimitsInv
<1>2. TypeInv /\ OnceInv /\ GrantInv /\ LimitsInv /\ [Next]_vars => LimitsInv'
  BY LimitsKept
<1>. QED BY <1>1, <1>2, TypesAndCalls, OnceKept, GrantsOrderly, PTL DEF Spec

(* Two mails about one row are further apart than any interval, so the     *)
(* mails of an interval are no more than the rows that stood in it.        *)
LEMMA MailsByRow ==
  ASSUME TypeInv, OnceInv, GrantInv, NEW t \in Nat, NEW gap \in Nat, gap <= Day,
         NEW I \in SUBSET Counted, NEW R \in SUBSET Rows,
         \A i \in I : mails[i].row \in R /\ Within(mails[i].at, t, gap) /\ mails[i].at <= t
  PROVE  /\ Cardinality(I) \in Nat /\ Cardinality(R) \in Nat
         /\ Cardinality(I) <= Cardinality(R)
<1>. DEFINE f == [i \in I |-> mails[i].row]
<1>1. \A i, j \in I : f[i] = f[j] => i = j
  <2>. SUFFICES ASSUME NEW i \in I, NEW j \in I, mails[i].row = mails[j].row, i # j PROVE FALSE
    OBVIOUS
  <2>1. mails[i].at \in Nat /\ mails[j].at \in Nat /\ Day \in Nat /\ mails[i].row \in Rows
    BY MailTimes, Intervals DEF MailOK, Counted
  <2>2. CASE mails[i].row \notin Grants
    BY <2>2 DEF OnceInv, OneMailPerRow, Counted
  <2>3. CASE mails[i].row \in Grants
    <3>1. mails[i].at + Day <= mails[j].at \/ mails[j].at + Day <= mails[i].at
      BY <2>3 DEF GrantInv, Orderly, Apart
    <3>. QED BY <2>1, <3>1 DEF Within
  <2>. QED BY <2>2, <2>3
<1>2. f \in Injection(I, R)
  BY <1>1 DEF Injection, IsInjective
<1>3. IsFiniteSet(R)
  BY RowsFinite, FS_Subset
<1>. HIDE DEF f
<1>4. IsFiniteSet(I) /\ Cardinality(I) <= Cardinality(R)
  BY <1>2, <1>3, FS_Injection
<1>. QED BY <1>3, <1>4, FS_CardinalityType

(* No owner is sent more than MaxPerDay mails in any 24 hours, over all    *)
(* three triggers, but for those excused.                                  *)
THEOREM DailyCapKept == ASSUME LongEpisodes, Hour <= Day PROVE Spec => []DailyCap
<1>1. TypeInv /\ OnceInv /\ GrantInv /\ LimitsInv => DailyCap
  <2>. SUFFICES ASSUME TypeInv, OnceInv, GrantInv, LimitsInv, NEW o \in Owners, NEW t \in 0..now
                PROVE  Cardinality(MailsOf(Counted, o, t)) <= MaxPerDay
    BY DEF DailyCap
  <2>1. t \in Nat /\ Day \in Nat
    BY ClockReadings, Intervals DEF TypeInv, TypeOK, SystemOK
  <2>2. \A i \in MailsOf(Counted, o, t) :
          mails[i].row \in DayRows(o, t) /\ Within(mails[i].at, t, Day) /\ mails[i].at <= t
    BY MailStillStamped DEF MailsOf, DayRows, Stood
  <2>3. MailsOf(Counted, o, t) \in SUBSET Counted /\ DayRows(o, t) \in SUBSET Rows
    BY DEF MailsOf, DayRows
  <2>4. /\ Cardinality(MailsOf(Counted, o, t)) \in Nat /\ Cardinality(DayRows(o, t)) \in Nat
        /\ Cardinality(MailsOf(Counted, o, t)) <= Cardinality(DayRows(o, t))
    BY <2>1, <2>2, <2>3, MailsByRow
  <2>5. Cardinality(DayRows(o, t)) <= MaxPerDay
    BY <2>1 DEF LimitsInv
  <2>. QED BY <2>4, <2>5, Limits
<1>. QED BY <1>1, LimitsHeld, GrantsOrderly, OnceKept, TypesAndCalls, PTL

(* In any hour at most GlobalHourlyMax dead-grant notices are sent, to all *)
(* owners together, but for those excused.                                 *)
THEOREM BreakerKept == ASSUME LongEpisodes, Hour <= Day PROVE Spec => []Breaker
<1>1. TypeInv /\ OnceInv /\ GrantInv /\ LimitsInv => Breaker
  <2>. SUFFICES ASSUME TypeInv, OnceInv, GrantInv, LimitsInv, NEW t \in 0..now
                PROVE  Cardinality(GrantMails(t)) <= GlobalHourlyMax
    BY DEF Breaker
  <2>1. t \in Nat /\ Hour \in Nat
    BY ClockReadings, Intervals DEF TypeInv, TypeOK, SystemOK
  <2>2. \A i \in GrantMails(t) : mails[i].row \in HourRows(t) /\ Within(mails[i].at, t, Hour) /\ mails[i].at <= t
    BY DEF GrantMails, HourRows, Stood
  <2>3. GrantMails(t) \in SUBSET Counted /\ HourRows(t) \in SUBSET Rows
    BY DEF GrantMails, HourRows, Rows
  <2>4. /\ Cardinality(GrantMails(t)) \in Nat /\ Cardinality(HourRows(t)) \in Nat
        /\ Cardinality(GrantMails(t)) <= Cardinality(HourRows(t))
    BY <2>1, <2>2, <2>3, MailsByRow
  <2>5. Cardinality(HourRows(t)) <= GlobalHourlyMax
    BY <2>1 DEF LimitsInv
  <2>. QED BY <2>4, <2>5, Limits
<1>. QED BY <1>1, LimitsHeld, GrantsOrderly, OnceKept, TypesAndCalls, PTL
===============================================================================
