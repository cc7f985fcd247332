------------------------- MODULE WebhookOutboxProofs -------------------------
(***************************************************************************)
(* WebhookOutbox for any number of subscriptions, deliveries, drainers and *)
(* deaths and any ladder: type correctness, one holder per delivery, and   *)
(* the promise made to the partner.                                        *)
(***************************************************************************)
EXTENDS WebhookOutbox, TLAPS

(* A row that is not settled has a try left.                               *)
TriesLeft ==
  \A x \in Deliveries :
    row[x].status \in {"none", "pending", "delivering"} => row[x].attempts < MaxAttempts

(* The group a drainer is working on is what it still holds of one         *)
(* subscription; it is not empty until its rows fail one by one, and when  *)
(* it is about to be marked delivered the partner has acknowledged it.     *)
Groups ==
  \A d \in Drainers :
    /\ drainer[d].pc \in {"post", "inactive", "deliver", "fail"} =>
         drainer[d].group \subseteq {x \in drainer[d].held : SubOf(x) = drainer[d].sub}
    /\ drainer[d].pc \in {"post", "inactive", "deliver"} => drainer[d].group # {}
    /\ drainer[d].pc = "deliver" => drainer[d].group \subseteq acked
    /\ drainer[d].pc \notin {"idle", "group"} => drainer[d].sub \in Subs

IInv == TypeOK /\ HeldByOne /\ TriesLeft /\ Groups

RowOK == [status : {"none", "pending", "delivering", "delivered", "dead"},
          attempts : 0..MaxAttempts, due : BOOLEAN]
SubscriptionOK == [status : {"active", "suspended", "cancelled"}, failures : Nat]
DrainerOK ==
  [pc : {"idle", "group", "post", "inactive", "deliver", "clear", "fail", "strike", "suspend"},
   held : SUBSET Deliveries, sub : Subs \union {None}, group : SUBSET Deliveries,
   wentDead : BOOLEAN]

LEMMA Types ==
  TypeOK <=> /\ row \in [Deliveries -> RowOK] /\ sub \in [Subs -> SubscriptionOK]
             /\ drainer \in [Drainers -> DrainerOK]
             /\ acked \subseteq Deliveries /\ lost \subseteq Deliveries /\ deaths \in 0..MaxDeaths
  BY DEF TypeOK, RowOK, SubscriptionOK, DrainerOK

LEMMA AsleepOK ==
  ASSUME NEW X \in SUBSET Deliveries
  PROVE  /\ Asleep \in DrainerOK /\ Asleep.pc = "idle" /\ Asleep.held = {}
         /\ [Asleep EXCEPT !.pc = "group", !.held = X] \in DrainerOK
         /\ [Asleep EXCEPT !.pc = "group", !.held = X].pc = "group"
         /\ [Asleep EXCEPT !.pc = "group", !.held = X].held = X
  BY DEF Asleep, DrainerOK

(* One drainer moves, to a place between groups or within one; what it     *)
(* holds afterwards it held before, or it was nobody's.                    *)
LEMMA Moved ==
  ASSUME IInv, NEW d \in Drainers, NEW new \in DrainerOK, drainer' = [drainer EXCEPT ![d] = new],
         \A x \in new.held : row'[x].status = "delivering" /\ (x \in drainer[d].held \/ row[x].status = "pending"),
         \A e \in Drainers \ {d} : \A x \in drainer[e].held : row'[x].status = "delivering",
         acked \subseteq acked',
         /\ new.pc \in {"post", "inactive", "deliver", "fail"} => new.group \subseteq {x \in new.held : SubOf(x) = new.sub}
         /\ new.pc \in {"post", "inactive", "deliver"} => new.group # {}
         /\ new.pc = "deliver" => new.group \subseteq acked'
         /\ new.pc \notin {"idle", "group"} => new.sub \in Subs
  PROVE  drainer' \in [Drainers -> DrainerOK] /\ HeldByOne' /\ Groups'
<1>1. drainer \in [Drainers -> DrainerOK]
  BY Types DEF IInv
<1>2. drainer' \in [Drainers -> DrainerOK] /\ drainer'[d] = new /\ \A e \in Drainers \ {d} : drainer'[e] = drainer[e]
  BY <1>1
<1>3. \A e \in Drainers \ {d} : new.held \intersect drainer[e].held = {}
  BY DEF IInv, HeldByOne
<1>4. HeldByOne'
  BY <1>2, <1>3 DEF IInv, HeldByOne
<1>5. Groups'
  BY <1>2 DEF IInv, Groups
<1>. QED BY <1>2, <1>4, <1>5

LEMMA NextGroupMoves ==
  ASSUME IInv, NEW d \in Drainers, NextGroup(d),
         \A x \in Rest(d) : row'[x].status = "delivering",
         \A e \in Drainers \ {d} : \A x \in drainer[e].held : row'[x].status = "delivering",
         acked' = acked
  PROVE  drainer' \in [Drainers -> DrainerOK] /\ HeldByOne' /\ Groups'
<1>1. drainer[d].held \subseteq Deliveries
  BY Types DEF IInv, DrainerOK
<1>2. Rest(d) \in SUBSET Deliveries /\ Rest(d) \subseteq drainer[d].held
  BY <1>1 DEF Rest
<1>3. CASE Rest(d) = {}
  <2>1. drainer' = [drainer EXCEPT ![d] = Asleep]
    BY <1>3 DEF NextGroup
  <2>. QED BY <2>1, AsleepOK, Moved
<1>4. CASE Rest(d) # {}
  <2>. DEFINE new == [Asleep EXCEPT !.pc = "group", !.held = Rest(d)]
  <2>1. drainer' = [drainer EXCEPT ![d] = new]
    BY <1>4 DEF NextGroup
  <2>2. new \in DrainerOK /\ new.pc = "group" /\ new.held = Rest(d)
    BY <1>2, AsleepOK
  <2>. HIDE DEF new
  <2>. QED BY <1>2, <2>1, <2>2, Moved
<1>. QED BY <1>3, <1>4

LEMMA InitOK == Init => IInv
<1>. SUFFICES ASSUME Init PROVE IInv
  OBVIOUS
<1>1. NoRow \in RowOK /\ NoRow.status = "none" /\ NoRow.attempts = 0
  BY OutboxParameters DEF NoRow, RowOK
<1>2. TypeOK
  <2>1. sub \in [Subs -> SubscriptionOK]
    BY DEF Init, SubscriptionOK
  <2>2. row \in [Deliveries -> RowOK] /\ drainer \in [Drainers -> DrainerOK]
    BY <1>1, AsleepOK DEF Init
  <2>3. deaths \in 0..MaxDeaths
    BY OutboxParameters DEF Init
  <2>. QED BY <2>1, <2>2, <2>3, Types DEF Init
<1>3. HeldByOne /\ Groups
  BY AsleepOK DEF Init, HeldByOne, Groups
<1>4. TriesLeft
  BY <1>1, OutboxParameters DEF Init, TriesLeft
<1>. QED BY <1>2, <1>3, <1>4 DEF IInv

(* The queue and the subscriptions, apart from the drainers.               *)
LEMMA EnqueueOK == ASSUME IInv, NEW x \in Deliveries, Enqueue(x) PROVE IInv'
<1>. DEFINE new == [NoRow EXCEPT !.status = "pending", !.due = TRUE]
<1>0. NoRow \in RowOK /\ NoRow.attempts = 0
  BY OutboxParameters DEF NoRow, RowOK
<1>1. new \in RowOK /\ new.status = "pending" /\ new.attempts = 0
  BY <1>0 DEF RowOK
<1>2. row' = [row EXCEPT ![x] = new] /\ row[x].status = "none" /\ UNCHANGED <<sub, drainer, acked, lost, deaths>>
  BY DEF Enqueue
<1>. HIDE DEF new
<1>3. row' \in [Deliveries -> RowOK] /\ row'[x] = new /\ \A y \in Deliveries \ {x} : row'[y] = row[y]
  BY <1>1, <1>2, Types DEF IInv
<1>4. TypeOK'
  BY <1>2, <1>3, Types DEF IInv, TypeOK, RowOK, SubscriptionOK, DrainerOK
<1>5. \A d \in Drainers : drainer[d].held \subseteq Deliveries /\ x \notin drainer[d].held
  BY <1>2, Types DEF IInv, HeldByOne, DrainerOK
<1>6. HeldByOne' /\ Groups'
  BY <1>2, <1>3, <1>5 DEF IInv, HeldByOne, Groups
<1>7. TriesLeft'
  BY <1>1, <1>3, OutboxParameters DEF IInv, TriesLeft
<1>. QED BY <1>4, <1>6, <1>7 DEF IInv

LEMMA BackoffElapsesOK == ASSUME IInv, NEW x \in Deliveries, BackoffElapses(x) PROVE IInv'
<1>1. row \in [Deliveries -> RowOK] /\ row' = [row EXCEPT ![x].due = TRUE] /\ UNCHANGED <<sub, drainer, acked, lost, deaths>>
  BY Types DEF IInv, BackoffElapses
<1>2. row' \in [Deliveries -> RowOK]
  BY <1>1 DEF RowOK
<1>3. \A y \in Deliveries : row'[y].status = row[y].status /\ row'[y].attempts = row[y].attempts
  BY <1>1 DEF RowOK
<1>4. TypeOK'
  BY <1>1, <1>2 DEF IInv, TypeOK, RowOK
<1>5. \A d \in Drainers : drainer[d].held \subseteq Deliveries
  BY Types DEF IInv, DrainerOK
<1>6. HeldByOne' /\ Groups' /\ TriesLeft'
  BY <1>1, <1>3, <1>5 DEF IInv, HeldByOne, Groups, TriesLeft
<1>. QED BY <1>4, <1>6 DEF IInv

LEMMA SubscriptionsOK ==
  ASSUME IInv, NEW s \in Subs, Cancel(s) \/ Revive(s)
  PROVE  IInv'
<1>1. UNCHANGED <<row, drainer, acked, lost, deaths>> /\ sub' \in [Subs -> SubscriptionOK]
  BY Types DEF IInv, Cancel, Revive, SubscriptionOK
<1>2. TypeOK'
  BY <1>1 DEF IInv, TypeOK, SubscriptionOK
<1>3. HeldByOne' /\ Groups' /\ TriesLeft'
  BY <1>1 DEF IInv, HeldByOne, Groups, TriesLeft
<1>. QED BY <1>2, <1>3 DEF IInv

(* Rows that are written get a status and keep their tries.                *)
LEMMA Written ==
  ASSUME IInv, NEW X \in SUBSET Deliveries, NEW status \in {"delivering", "delivered", "dead"},
         Write(X, status)
  PROVE  /\ row' \in [Deliveries -> RowOK]
         /\ \A x \in X : row'[x].status = status /\ row'[x].attempts = row[x].attempts
         /\ \A x \in Deliveries \ X : row'[x] = row[x]
<1>1. row \in [Deliveries -> RowOK]
  BY Types DEF IInv
<1>2. \A x \in Deliveries : [row[x] EXCEPT !.status = status] \in RowOK
  BY <1>1 DEF RowOK
<1>3. \A x \in Deliveries : /\ [row[x] EXCEPT !.status = status].status = status
                           /\ [row[x] EXCEPT !.status = status].attempts = row[x].attempts
  BY <1>1 DEF RowOK
<1>. QED BY <1>1, <1>2, <1>3 DEF Write

LEMMA ClaimOK ==
  ASSUME IInv, NEW d \in Drainers, NEW S \in SUBSET Subs, ClaimDueRows(d, S)
  PROVE  IInv'
<1>1. PICK X \in SUBSET Due(S) :
        /\ row' = [x \in Deliveries |-> IF x \in X THEN [row[x] EXCEPT !.status = "delivering"] ELSE row[x]]
        /\ drainer' = [drainer EXCEPT ![d] = [Asleep EXCEPT !.pc = "group", !.held = X]]
  BY DEF ClaimDueRows
<1>2. X \in SUBSET Deliveries /\ \A x \in X : row[x].status = "pending"
  BY DEF Due
<1>3. Write(X, "delivering")
  BY <1>1 DEF Write
<1>4. /\ row' \in [Deliveries -> RowOK]
      /\ \A x \in X : row'[x].status = "delivering" /\ row'[x].attempts = row[x].attempts
      /\ \A x \in Deliveries \ X : row'[x] = row[x]
  BY <1>2, <1>3, Written
<1>5. \A e \in Drainers : drainer[e].held \subseteq Deliveries /\ \A x \in drainer[e].held : row[x].status = "delivering"
  BY Types DEF IInv, HeldByOne, DrainerOK
<1>6. \A e \in Drainers : \A x \in drainer[e].held : row'[x].status = "delivering"
  BY <1>2, <1>4, <1>5
<1>7. UNCHANGED <<sub, acked, lost, deaths>>
  BY DEF ClaimDueRows
<1>. DEFINE new == [Asleep EXCEPT !.pc = "group", !.held = X]
<1>8. new \in DrainerOK /\ new.pc = "group" /\ new.held = X
  BY <1>2, AsleepOK
<1>9. drainer' = [drainer EXCEPT ![d] = new]
  BY <1>1
<1>. HIDE DEF new
<1>10. drainer' \in [Drainers -> DrainerOK] /\ HeldByOne' /\ Groups'
  <2>1. \A x \in new.held : row'[x].status = "delivering" /\ (x \in drainer[d].held \/ row[x].status = "pending")
    BY <1>2, <1>4, <1>8
  <2>2. \A e \in Drainers \ {d} : \A x \in drainer[e].held : row'[x].status = "delivering"
    BY <1>6
  <2>3. acked \subseteq acked'
    BY <1>7
  <2>. QED BY <1>8, <1>9, <2>1, <2>2, <2>3, Moved
<1>11. TypeOK'
  BY <1>4, <1>7, <1>10, Types DEF IInv, TypeOK, RowOK, SubscriptionOK, DrainerOK
<1>12. TriesLeft'
  BY <1>2, <1>4 DEF IInv, TriesLeft
<1>. QED BY <1>10, <1>11, <1>12 DEF IInv

LEMMA TakeGroupOK == ASSUME IInv, NEW d \in Drainers, TakeGroup(d) PROVE IInv'
<1>. USE DEF IInv
<1>1. drainer \in [Drainers -> DrainerOK] /\ UNCHANGED <<row, sub, acked, lost, deaths>>
  BY Types DEF TakeGroup
<1>2. PICK s \in {SubOf(x) : x \in drainer[d].held} : drainer' = [drainer EXCEPT
         ![d].sub = s,
         ![d].group = {x \in drainer[d].held : SubOf(x) = s},
         ![d].wentDead = FALSE,
         ![d].pc = IF sub[s].status = "active" /\ s \in Hooked THEN "post" ELSE "inactive"]
  BY DEF TakeGroup
<1>0. PICK y \in drainer[d].held : SubOf(y) = s
  OBVIOUS
<1>3. y \in Deliveries /\ s \in Subs
  BY <1>0, <1>1, DeliveriesOfSubs DEF DrainerOK, SubOf
<1>. DEFINE pc == IF sub[s].status = "active" /\ s \in Hooked THEN "post" ELSE "inactive"
            group == {x \in drainer[d].held : SubOf(x) = s}
            new == [drainer[d] EXCEPT !.sub = s, !.group = group, !.wentDead = FALSE, !.pc = pc]
<1>4. pc \in {"post", "inactive"} /\ group \in SUBSET Deliveries /\ group # {}
  BY <1>0, <1>1 DEF DrainerOK
<1>5. drainer' = [drainer EXCEPT ![d] = new]
  BY <1>2
<1>6. group \subseteq {x \in drainer[d].held : SubOf(x) = s}
  OBVIOUS
<1>. HIDE DEF pc, group
<1>7. /\ new \in DrainerOK /\ new.held = drainer[d].held
      /\ new.pc = pc /\ new.group = group /\ new.sub = s
  BY <1>1, <1>3, <1>4 DEF DrainerOK
<1>. HIDE DEF new
<1>8. \A e \in Drainers : \A x \in drainer[e].held : row'[x].status = "delivering"
  BY <1>1 DEF HeldByOne
<1>9. drainer' \in [Drainers -> DrainerOK] /\ HeldByOne' /\ Groups'
  <2>1. \A x \in new.held : row'[x].status = "delivering" /\ (x \in drainer[d].held \/ row[x].status = "pending")
    BY <1>7, <1>8
  <2>2. new.group \subseteq {x \in new.held : SubOf(x) = new.sub} /\ acked \subseteq acked'
    BY <1>1, <1>6, <1>7
  <2>. QED BY <1>3, <1>4, <1>5, <1>7, <1>8, <2>1, <2>2, Moved
<1>10. TypeOK' /\ TriesLeft'
  BY <1>1, <1>9, Types DEF TypeOK, DrainerOK, TriesLeft
<1>. QED BY <1>9, <1>10

LEMMA Facts ==
  ASSUME IInv
  PROVE  /\ row \in [Deliveries -> RowOK] /\ sub \in [Subs -> SubscriptionOK]
         /\ drainer \in [Drainers -> DrainerOK]
         /\ acked \subseteq Deliveries /\ lost \subseteq Deliveries /\ deaths \in 0..MaxDeaths
         /\ \A e \in Drainers : /\ drainer[e].held \subseteq Deliveries /\ drainer[e].group \subseteq Deliveries
                               /\ \A x \in drainer[e].held : row[x].status = "delivering"
  BY Types DEF IInv, HeldByOne, DrainerOK

(* The post and its answer: the drainer moves, no row does.                *)
LEMMA PostOK == ASSUME IInv, NEW d \in Drainers, PostAcked(d) \/ PostFailed(d) PROVE IInv'
<1>. DEFINE pc == IF PostAcked(d) THEN "deliver" ELSE "fail"
            new == [drainer[d] EXCEPT !.pc = pc]
<1>1. /\ drainer[d].pc = "post" /\ drainer' = [drainer EXCEPT ![d] = new]
      /\ UNCHANGED <<row, sub, lost, deaths>>
      /\ acked' = IF PostAcked(d) THEN acked \union drainer[d].group ELSE acked
  BY DEF PostAcked, PostFailed
<1>2. pc \in {"deliver", "fail"} /\ (pc = "deliver" => drainer[d].group \subseteq acked') /\ acked \subseteq acked'
  BY <1>1
<1>3. acked' \subseteq Deliveries
  BY <1>1, Facts
<1>. HIDE DEF pc
<1>4. /\ new \in DrainerOK /\ new.pc = pc /\ new.held = drainer[d].held
      /\ new.sub = drainer[d].sub /\ new.group = drainer[d].group
  BY <1>2, Facts DEF DrainerOK
<1>. HIDE DEF new
<1>5. /\ drainer[d].group \subseteq {x \in drainer[d].held : SubOf(x) = drainer[d].sub}
      /\ drainer[d].group # {} /\ drainer[d].sub \in Subs
  BY <1>1 DEF IInv, Groups
<1>6. \A e \in Drainers : \A x \in drainer[e].held : row'[x].status = "delivering"
  BY <1>1, Facts
<1>7. drainer' \in [Drainers -> DrainerOK] /\ HeldByOne' /\ Groups'
  <2>1. \A x \in new.held : row'[x].status = "delivering" /\ (x \in drainer[d].held \/ row[x].status = "pending")
    BY <1>4, <1>6
  <2>2. new.group \subseteq {x \in new.held : SubOf(x) = new.sub}
    BY <1>4, <1>5
  <2>. QED BY <1>1, <1>2, <1>4, <1>5, <1>6, <2>1, <2>2, Moved
<1>8. TypeOK' /\ TriesLeft'
  BY <1>1, <1>3, <1>7, Facts DEF IInv, TypeOK, RowOK, SubscriptionOK, DrainerOK, TriesLeft
<1>. QED BY <1>7, <1>8 DEF IInv

(* A group that is written back, dead or delivered.                        *)
LEMMA GroupWritten ==
  ASSUME IInv, NEW d \in Drainers, NEW status \in {"delivered", "dead"},
         drainer[d].pc \in {"inactive", "deliver"}, Write(drainer[d].group, status)
  PROVE  /\ row' \in [Deliveries -> RowOK] /\ TriesLeft'
         /\ \A x \in drainer[d].held \ drainer[d].group : row'[x].status = "delivering"
         /\ \A e \in Drainers \ {d} : \A x \in drainer[e].held : row'[x].status = "delivering"
<1>1. drainer[d].group \subseteq drainer[d].held
  BY DEF IInv, Groups
<1>2. /\ row' \in [Deliveries -> RowOK]
      /\ \A x \in drainer[d].group : row'[x].status = status
      /\ \A x \in Deliveries \ drainer[d].group : row'[x] = row[x]
  BY Facts, Written
<1>3. \A e \in Drainers \ {d} : drainer[e].held \intersect drainer[d].group = {}
  BY <1>1 DEF IInv, HeldByOne
<1>4. TriesLeft'
  BY <1>2 DEF IInv, TriesLeft
<1>. QED BY <1>2, <1>3, <1>4, Facts

LEMMA DeadLetterOK == ASSUME IInv, NEW d \in Drainers, DeadLetter(d) PROVE IInv'
<1>1. drainer[d].pc = "inactive" /\ Write(drainer[d].group, "dead") /\ NextGroup(d) /\ UNCHANGED <<sub, acked, lost, deaths>>
  BY DEF DeadLetter
<1>2. /\ row' \in [Deliveries -> RowOK] /\ TriesLeft'
      /\ \A x \in drainer[d].held \ drainer[d].group : row'[x].status = "delivering"
      /\ \A e \in Drainers \ {d} : \A x \in drainer[e].held : row'[x].status = "delivering"
  BY <1>1, GroupWritten
<1>3. \A x \in Rest(d) : row'[x].status = "delivering"
  <2>1. drainer[d].group \subseteq {x \in Deliveries : SubOf(x) = drainer[d].sub}
    BY <1>1, Facts DEF IInv, Groups
  <2>. QED BY <1>2, <2>1 DEF Rest
<1>4. drainer' \in [Drainers -> DrainerOK] /\ HeldByOne' /\ Groups'
  BY <1>1, <1>2, <1>3, NextGroupMoves
<1>5. TypeOK'
  BY <1>1, <1>2, <1>4, Types DEF IInv, TypeOK, RowOK, DrainerOK
<1>. QED BY <1>2, <1>4, <1>5 DEF IInv

LEMMA MarkDeliveredOK == ASSUME IInv, NEW d \in Drainers, MarkDelivered(d) PROVE IInv'
<1>. DEFINE new == [drainer[d] EXCEPT !.pc = "clear", !.held = @ \ drainer[d].group]
<1>1. /\ drainer[d].pc = "deliver" /\ Write(drainer[d].group, "delivered")
      /\ drainer' = [drainer EXCEPT ![d] = new] /\ UNCHANGED <<sub, acked, lost, deaths>>
  BY DEF MarkDelivered
<1>2. /\ row' \in [Deliveries -> RowOK] /\ TriesLeft'
      /\ \A x \in drainer[d].held \ drainer[d].group : row'[x].status = "delivering"
      /\ \A e \in Drainers \ {d} : \A x \in drainer[e].held : row'[x].status = "delivering"
  BY <1>1, GroupWritten
<1>3. /\ new \in DrainerOK /\ new.pc = "clear" /\ new.held = drainer[d].held \ drainer[d].group
      /\ new.sub = drainer[d].sub
  BY Facts DEF DrainerOK
<1>. HIDE DEF new
<1>4. drainer' \in [Drainers -> DrainerOK] /\ HeldByOne' /\ Groups'
  <2>1. \A x \in new.held : row'[x].status = "delivering" /\ (x \in drainer[d].held \/ row[x].status = "pending")
    BY <1>2, <1>3
  <2>2. new.sub \in Subs
    BY <1>1, <1>3 DEF IInv, Groups
  <2>. QED BY <1>1, <1>2, <1>3, <2>1, <2>2, Moved
<1>5. TypeOK'
  BY <1>1, <1>2, <1>4, Types DEF IInv, TypeOK, RowOK, DrainerOK
<1>. QED BY <1>2, <1>4, <1>5 DEF IInv

(* Steps that touch a subscription or nothing, and go on to the next group *)
(* or to another step of the same one.                                     *)
LEMMA GoesOn ==
  ASSUME IInv, NEW d \in Drainers, NextGroup(d), UNCHANGED <<row, acked, lost, deaths>>,
         sub' \in [Subs -> SubscriptionOK]
  PROVE  IInv'
<1>1. Rest(d) \subseteq drainer[d].held
  BY DEF Rest
<1>2. \A e \in Drainers : \A x \in drainer[e].held : row'[x].status = "delivering"
  BY Facts
<1>3. drainer' \in [Drainers -> DrainerOK] /\ HeldByOne' /\ Groups'
  BY <1>1, <1>2, NextGroupMoves
<1>4. TypeOK' /\ TriesLeft'
  BY <1>3, Types DEF IInv, TypeOK, SubscriptionOK, DrainerOK, TriesLeft
<1>. QED BY <1>3, <1>4 DEF IInv

LEMMA StaysOn ==
  ASSUME IInv, NEW d \in Drainers, NEW pc \in {"strike", "suspend"}, drainer' = [drainer EXCEPT ![d].pc = pc],
         drainer[d].pc \in {"fail", "strike"}, UNCHANGED <<row, acked, lost, deaths>>,
         sub' \in [Subs -> SubscriptionOK]
  PROVE  IInv'
<1>. DEFINE new == [drainer[d] EXCEPT !.pc = pc]
<1>1. drainer' = [drainer EXCEPT ![d] = new]
  OBVIOUS
<1>2. new \in DrainerOK /\ new.pc = pc /\ new.held = drainer[d].held /\ new.sub = drainer[d].sub
  BY Facts DEF DrainerOK
<1>. HIDE DEF new
<1>3. \A e \in Drainers : \A x \in drainer[e].held : row'[x].status = "delivering"
  BY Facts
<1>4. drainer[d].sub \in Subs
  BY DEF IInv, Groups
<1>5. drainer' \in [Drainers -> DrainerOK] /\ HeldByOne' /\ Groups'
  <2>1. \A x \in new.held : row'[x].status = "delivering" /\ (x \in drainer[d].held \/ row[x].status = "pending")
    BY <1>2, <1>3
  <2>2. acked \subseteq acked' /\ new.sub \in Subs
    BY <1>2, <1>4
  <2>. QED BY <1>1, <1>2, <1>3, <2>1, <2>2, Moved
<1>6. TypeOK' /\ TriesLeft'
  BY <1>5, Types DEF IInv, TypeOK, SubscriptionOK, DrainerOK, TriesLeft
<1>. QED BY <1>5, <1>6 DEF IInv

LEMMA SettledOK ==
  ASSUME IInv, NEW d \in Drainers, ClearFailures(d) \/ GroupFailed(d) \/ Strike(d) \/ Suspend(d)
  PROVE  IInv'
<1>1. CASE ClearFailures(d)
  <2>1. sub' \in [Subs -> SubscriptionOK]
    BY <1>1, Facts DEF ClearFailures, SubscriptionOK
  <2>. QED BY <1>1, <2>1, GoesOn DEF ClearFailures
<1>2. CASE GroupFailed(d)
  <2>1. sub' \in [Subs -> SubscriptionOK]
    BY <1>2, Facts DEF GroupFailed
  <2>. QED BY <1>2, <2>1, GoesOn, StaysOn DEF GroupFailed
<1>3. CASE Strike(d)
  <2>0. drainer[d].sub \in Subs
    BY <1>3 DEF Strike, IInv, Groups
  <2>1. sub' \in [Subs -> SubscriptionOK]
    BY <1>3, <2>0, Facts DEF Strike, SubscriptionOK
  <2>. QED BY <1>3, <2>1, GoesOn, StaysOn DEF Strike
<1>4. CASE Suspend(d)
  <2>1. sub' \in [Subs -> SubscriptionOK]
    BY <1>4, Facts DEF Suspend, SubscriptionOK
  <2>. QED BY <1>4, <2>1, GoesOn DEF Suspend
<1>. QED BY <1>1, <1>2, <1>3, <1>4

(* A failed row has a try left: the last one kills it.                     *)
LEMMA FailRowOK == ASSUME IInv, NEW d \in Drainers, NEW x \in drainer[d].group, FailRow(d, x) PROVE IInv'
<1>. DEFINE attempts == row[x].attempts + 1
            dies == attempts >= MaxAttempts
            failed == [status |-> IF dies THEN "dead" ELSE "pending", attempts |-> attempts, due |-> FALSE]
            new == [drainer[d] EXCEPT !.group = @ \ {x}, !.held = @ \ {x}, !.wentDead = @ \/ dies]
<1>1. /\ drainer[d].pc = "fail" /\ row' = [row EXCEPT ![x] = failed]
      /\ drainer' = [drainer EXCEPT ![d] = new] /\ UNCHANGED <<sub, acked, lost, deaths>>
  BY DEF FailRow
<1>2. /\ x \in Deliveries /\ x \in drainer[d].held /\ drainer[d].sub \in Subs
      /\ drainer[d].group \subseteq {y \in drainer[d].held : SubOf(y) = drainer[d].sub}
  BY <1>1, Facts DEF IInv, Groups
<1>3. row[x].status = "delivering" /\ row[x].attempts \in 0..MaxAttempts /\ row[x].attempts < MaxAttempts
  BY <1>2, Facts DEF IInv, TriesLeft, RowOK
<1>4. attempts \in 0..MaxAttempts /\ (~dies => attempts < MaxAttempts)
  BY <1>3, OutboxParameters
<1>5. failed \in RowOK /\ (failed.status = "pending" => failed.attempts < MaxAttempts) /\ failed.status \in {"pending", "dead"}
  BY <1>4 DEF RowOK
<1>6. (drainer[d].wentDead \/ dies) \in BOOLEAN
  OBVIOUS
<1>. HIDE DEF dies, failed
<1>7. /\ new \in DrainerOK /\ new.pc = "fail" /\ new.held = drainer[d].held \ {x}
      /\ new.group = drainer[d].group \ {x} /\ new.sub = drainer[d].sub
  BY <1>1, <1>6, Facts DEF DrainerOK
<1>. HIDE DEF new
<1>8. row' \in [Deliveries -> RowOK] /\ row'[x] = failed /\ \A y \in Deliveries \ {x} : row'[y] = row[y]
  BY <1>1, <1>2, <1>5, Facts
<1>9. drainer' \in [Drainers -> DrainerOK] /\ HeldByOne' /\ Groups'
  <2>1. \A y \in new.held : row'[y].status = "delivering" /\ (y \in drainer[d].held \/ row[y].status = "pending")
    BY <1>7, <1>8, Facts
  <2>2. \A e \in Drainers \ {d} : x \notin drainer[e].held
    BY <1>2 DEF IInv, HeldByOne
  <2>3. \A e \in Drainers \ {d} : \A y \in drainer[e].held : row'[y].status = "delivering"
    BY <1>8, <2>2, Facts
  <2>4. new.group \subseteq {y \in new.held : SubOf(y) = new.sub}
    BY <1>2, <1>7
  <2>. QED BY <1>1, <1>2, <1>7, <2>1, <2>3, <2>4, Moved
<1>10. TriesLeft'
  BY <1>5, <1>8 DEF IInv, TriesLeft
<1>11. TypeOK'
  BY <1>1, <1>8, <1>9, Types DEF IInv, TypeOK, RowOK, DrainerOK
<1>. QED BY <1>9, <1>10, <1>11 DEF IInv

LEMMA DieOK == ASSUME IInv, NEW d \in Drainers, Die(d) PROVE IInv'
<1>1. drainer' = [drainer EXCEPT ![d] = Asleep] /\ UNCHANGED <<row, sub, acked>>
  BY DEF Die
<1>2. \A e \in Drainers : \A x \in drainer[e].held : row'[x].status = "delivering"
  BY <1>1, Facts
<1>3. drainer' \in [Drainers -> DrainerOK] /\ HeldByOne' /\ Groups'
  BY <1>1, <1>2, AsleepOK, Moved
<1>4. lost' \subseteq Deliveries /\ deaths' \in 0..MaxDeaths
  BY Facts, OutboxParameters DEF Die
<1>5. TypeOK' /\ TriesLeft'
  BY <1>1, <1>3, <1>4, Types DEF IInv, TypeOK, DrainerOK, TriesLeft
<1>. QED BY <1>3, <1>5 DEF IInv

LEMMA Inductive == Spec => []IInv
<1>1. IInv /\ [Next]_vars => IInv'
  <2>. SUFFICES ASSUME IInv, [Next]_vars PROVE IInv'
    OBVIOUS
  <2>1. ASSUME NEW d \in Drainers, Cron(d) \/ Inline(d) \/ DrainStep(d) \/ Die(d) PROVE IInv'
    <3>1. CASE Cron(d) BY <3>1, ClaimOK DEF Cron
    <3>2. CASE Inline(d) BY <3>2, ClaimOK DEF Inline
    <3>3. CASE DrainStep(d)
      BY <3>3, TakeGroupOK, DeadLetterOK, PostOK, MarkDeliveredOK, SettledOK, FailRowOK DEF DrainStep
    <3>. QED BY <2>1, <3>1, <3>2, <3>3, DieOK
  <2>2. CASE UNCHANGED vars
    BY <2>2 DEF vars, IInv, TypeOK, HeldByOne, TriesLeft, Groups
  <2>. QED BY <2>1, <2>2, EnqueueOK, BackoffElapsesOK, SubscriptionsOK DEF Next
<1>. QED BY <1>1, InitOK, PTL DEF Spec

(* The types of the outbox's tables, for any ladder: no row ever counts    *)
(* more failures than the ladder has rungs.                                *)
THEOREM OutboxTypeCorrect == Spec => []TypeOK
<1>1. IInv => TypeOK
  BY DEF IInv
<1>. QED BY <1>1, Inductive, PTL

(* Overlapping drains never hold one delivery twice, however many of them  *)
(* there are, and what one holds is marked delivering.                     *)
THEOREM OneHolder == Spec => []HeldByOne
<1>1. IInv => HeldByOne
  BY DEF IInv
<1>. QED BY <1>1, Inductive, PTL
------------------------------------------------------------------------------
(* The refinement: what a step does to the rows, as the partner sees them. *)
Owes(status) == status \in {"pending", "delivering"}

LEMMA SameState ==
  ASSUME \A x \in Deliveries : row'[x].status = row[x].status \/ (Owes(row'[x].status) /\ Owes(row[x].status))
  PROVE  OutboxState' = OutboxState
  BY DEF OutboxState, Owes

LEMMA GivenUp ==
  ASSUME NEW X \in SUBSET Deliveries, X # {}, NEW status \in {"delivered", "dead"},
         \A x \in X : Owes(row[x].status) /\ row'[x].status = status,
         \A x \in Deliveries \ X : row'[x].status = row[x].status,
         status = "delivered" => X \subseteq acked, acked' = acked
  PROVE  Promise!PromiseNext
<1>1. \A x \in X : OutboxState[x] = "owed"
  BY DEF OutboxState, Owes
<1>2. OutboxState' = [x \in Deliveries |-> IF x \in X THEN status ELSE OutboxState[x]]
  BY DEF OutboxState, Owes
<1>3. CASE status = "delivered"
  BY <1>1, <1>2, <1>3 DEF Promise!PromiseNext, Promise!Deliver
<1>4. CASE status = "dead"
  BY <1>1, <1>2, <1>4 DEF Promise!PromiseNext, Promise!GiveUp
<1>. QED BY <1>3, <1>4

LEMMA PromiseStep ==
  ASSUME IInv, [Next]_vars
  PROVE  Promise!PromiseNext \/ UNCHANGED <<OutboxState, acked>>
<1>1. ASSUME NEW x \in Deliveries, Enqueue(x) PROVE Promise!PromiseNext
  <2>1. /\ \A y \in Deliveries : row'[y].status = IF y = x THEN "pending" ELSE row[y].status
        /\ row[x].status = "none" /\ acked' = acked
    BY <1>1, Facts DEF Enqueue, NoRow
  <2>2. OutboxState[x] = "none" /\ OutboxState' = [OutboxState EXCEPT ![x] = "owed"]
    BY <2>1 DEF OutboxState
  <2>. QED BY <2>1, <2>2 DEF Promise!PromiseNext, Promise!Owe
<1>2. ASSUME NEW x \in Deliveries, BackoffElapses(x) PROVE UNCHANGED <<OutboxState, acked>>
  <2>1. \A y \in Deliveries : row'[y].status = row[y].status
    BY <1>2, Facts DEF BackoffElapses, RowOK
  <2>. QED BY <1>2, <2>1, SameState DEF BackoffElapses
<1>3. ASSUME NEW d \in Drainers, NEW S \in SUBSET Subs, ClaimDueRows(d, S) PROVE UNCHANGED <<OutboxState, acked>>
  <2>1. PICK X \in SUBSET Due(S) :
          row' = [x \in Deliveries |-> IF x \in X THEN [row[x] EXCEPT !.status = "delivering"] ELSE row[x]]
    BY <1>3 DEF ClaimDueRows
  <2>2. X \in SUBSET Deliveries /\ \A x \in X : row[x].status = "pending"
    BY DEF Due
  <2>3. /\ \A x \in X : row'[x].status = "delivering"
        /\ \A x \in Deliveries \ X : row'[x] = row[x]
    BY <2>1, <2>2, Written DEF Write
  <2>. QED BY <1>3, <2>2, <2>3, SameState DEF ClaimDueRows, Owes
<1>4. ASSUME NEW d \in Drainers, DeadLetter(d) \/ MarkDelivered(d) PROVE Promise!PromiseNext
  <2>1. PICK status \in {"delivered", "dead"} :
          /\ Write(drainer[d].group, status) /\ acked' = acked
          /\ drainer[d].pc = IF status = "dead" THEN "inactive" ELSE "deliver"
    BY <1>4 DEF DeadLetter, MarkDelivered
  <2>2. /\ drainer[d].group \subseteq drainer[d].held /\ drainer[d].group # {}
        /\ status = "delivered" => drainer[d].group \subseteq acked
    BY <2>1 DEF IInv, Groups
  <2>3. drainer[d].group \in SUBSET Deliveries /\ \A x \in drainer[d].group : row[x].status = "delivering"
    BY <2>2, Facts
  <2>4. /\ \A x \in drainer[d].group : row'[x].status = status
        /\ \A x \in Deliveries \ drainer[d].group : row'[x] = row[x]
    BY <2>1, <2>3, Written
  <2>. QED BY <2>1, <2>2, <2>3, <2>4, GivenUp DEF Owes
<1>5. ASSUME NEW d \in Drainers, PostAcked(d) PROVE Promise!PromiseNext
  <2>1. /\ drainer[d].group \in SUBSET Deliveries /\ drainer[d].group # {}
        /\ \A x \in drainer[d].group : row[x].status = "delivering"
    BY <1>5, Facts DEF PostAcked, IInv, Groups
  <2>2. \A x \in drainer[d].group : OutboxState[x] = "owed"
    BY <2>1 DEF OutboxState
  <2>3. OutboxState' = OutboxState /\ acked' = acked \union drainer[d].group
    BY <1>5, SameState DEF PostAcked
  <2>. QED BY <2>1, <2>2, <2>3 DEF Promise!PromiseNext, Promise!Acknowledge
<1>6. ASSUME NEW d \in Drainers, NEW x \in drainer[d].group, FailRow(d, x)
      PROVE  Promise!PromiseNext \/ UNCHANGED <<OutboxState, acked>>
  <2>1. x \in Deliveries /\ row[x].status = "delivering"
    BY <1>6, Facts DEF FailRow, IInv, Groups
  <2>2. /\ row'[x].status \in {"dead", "pending"}
        /\ \A y \in Deliveries \ {x} : row'[y].status = row[y].status
        /\ acked' = acked
    BY <1>6, <2>1, Facts DEF FailRow
  <2>3. CASE row'[x].status = "pending"
    BY <2>1, <2>2, <2>3, SameState DEF Owes
  <2>4. CASE row'[x].status = "dead"
    BY <2>1, <2>2, <2>4, GivenUp DEF Owes
  <2>. QED BY <2>2, <2>3, <2>4
<1>7. UNCHANGED <<row, acked>> => UNCHANGED <<OutboxState, acked>>
  BY SameState
<1>8. ASSUME NEW d \in Drainers,
             \/ TakeGroup(d) \/ PostFailed(d) \/ ClearFailures(d) \/ GroupFailed(d) \/ Strike(d) \/ Suspend(d) \/ Die(d)
      PROVE  UNCHANGED <<OutboxState, acked>>
  BY <1>7, <1>8 DEF TakeGroup, PostFailed, ClearFailures, GroupFailed, Strike, Suspend, Die
<1>9. ASSUME NEW s \in Subs, Cancel(s) \/ Revive(s) PROVE UNCHANGED <<OutboxState, acked>>
  BY <1>7, <1>9 DEF Cancel, Revive
<1>10. CASE UNCHANGED vars
  BY <1>7, <1>10 DEF vars
<1>11. ASSUME NEW d \in Drainers, Cron(d) \/ Inline(d) PROVE UNCHANGED <<OutboxState, acked>>
  BY <1>3, <1>11 DEF Cron, Inline
<1>. QED BY <1>1, <1>2, <1>4, <1>5, <1>6, <1>8, <1>9, <1>10, <1>11 DEF Next, DrainStep

(* The outbox keeps the promise of DeliveryPromise, for any number of      *)
(* partners, deliveries and overlapping drains and any deaths: a delivery  *)
(* is settled as delivered only after a 2xx, and is never reopened.        *)
THEOREM PromiseKept == Spec => KeepsPromise
<1>1. Init => Promise!PromiseInit
  BY DEF Init, Promise!PromiseInit, OutboxState, NoRow
<1>2. IInv /\ [Next]_vars => [Promise!PromiseNext]_(Promise!promise)
  BY PromiseStep DEF Promise!promise
<1>. QED BY <1>1, <1>2, Inductive, PTL DEF Spec, KeepsPromise, Promise!PromiseSpec
=============================================================================
