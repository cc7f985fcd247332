---------------------------- MODULE WebhookOutbox ----------------------------
(***************************************************************************)
(* The webhook outbox and its drainer (src/src/lib/notifications/          *)
(* deliver.ts).  webhook_deliveries is the queue; a drainer is an          *)
(* invocation of deliverPending, from the cron (every subscription) or     *)
(* inline from the Pub/Sub receiver (one subscription).  It claims due     *)
(* rows, and for each subscription posts one ping and writes the outcome   *)
(* back.  Any number of drainers overlap, every step below is one database *)
(* statement or one HTTP request, and a drainer can be killed, or thrown   *)
(* out of its loop by a database error, between any two.                   *)
(***************************************************************************)
EXTENDS Integers, FiniteSets

CONSTANTS
  Subs,          \* notification_subscriptions
  Hooked,        \* those whose partner has a webhook url and secret
  Deliveries,    \* subscription and message, for what may be enqueued
  Drainers,      \* concurrent invocations of deliverPending
  MaxAttempts,   \* MAX_ATTEMPTS
  DeadStrikes,   \* DEAD_STRIKES
  ClaimLimit,    \* claimDueRows' limit
  MaxDeaths,     \* how many invocations die (a bound for TLC)
  None

ASSUME OutboxParameters ==
  {MaxAttempts, DeadStrikes, ClaimLimit} \subseteq Nat \ {0} /\ MaxDeaths \in Nat
ASSUME NoSub == None \notin Subs /\ Hooked \subseteq Subs
(* delivery_subscription_message_unique: a row is a pair.                  *)
ASSUME DeliveriesOfSubs == \A x \in Deliveries : x[1] \in Subs

SubOf(x) == x[1]

VARIABLES
  row,       \* webhook_deliveries
  sub,       \* notification_subscriptions: status, consecutive_failures
  drainer,   \* invocations in flight
  acked,     \* deliveries the partner answered with a 2xx
  lost,      \* deliveries an invocation held when it died
  deaths

vars == <<row, sub, drainer, acked, lost, deaths>>

NoRow == [status |-> "none", attempts |-> 0, due |-> FALSE]
Asleep == [pc |-> "idle", held |-> {}, sub |-> None, group |-> {}, wentDead |-> FALSE]

Init ==
  /\ row = [x \in Deliveries |-> NoRow]
  /\ sub = [s \in Subs |-> [status |-> "active", failures |-> 0]]
  /\ drainer = [d \in Drainers |-> Asleep]
  /\ acked = {} /\ lost = {}
  /\ deaths = 0

(* The outcome of a whole group, or of one row, written back.              *)
Write(X, status) ==
  row' = [x \in Deliveries |-> IF x \in X THEN [row[x] EXCEPT !.status = status] ELSE row[x]]
------------------------------------------------------------------------------
(* processGmailNotification inserts a row, due at once, for a subscription *)
(* that was active when it began; a replay of the message inserts nothing. *)
Enqueue(x) ==
  /\ row[x].status = "none"
  /\ row' = [row EXCEPT ![x] = [NoRow EXCEPT !.status = "pending", !.due = TRUE]]
  /\ UNCHANGED <<sub, drainer, acked, lost, deaths>>

(* next_attempt_at passes.                                                 *)
BackoffElapses(x) ==
  /\ row[x].status = "pending" /\ ~row[x].due
  /\ row' = [row EXCEPT ![x].due = TRUE]
  /\ UNCHANGED <<sub, drainer, acked, lost, deaths>>

(* The connection is blocked (cancelSubscriptionsForConnection).           *)
Cancel(s) ==
  /\ sub[s].status # "cancelled"
  /\ sub' = [sub EXCEPT ![s].status = "cancelled"]
  /\ UNCHANGED <<row, drainer, acked, lost, deaths>>

(* Fault: a new consent puts dead rows back into the queue. *)
ReviveRequeues(s) ==
  /\ sub[s].status # "active"
  /\ sub' = [sub EXCEPT ![s] = [status |-> "active", failures |-> 0]]
  /\ row' = [x \in Deliveries |->
               IF SubOf(x) = s /\ row[x].status = "dead"
               THEN [row[x] EXCEPT !.status = "pending"] ELSE row[x]]
  /\ UNCHANGED <<drainer, acked, lost, deaths>>

(* The owner consents again (ensureSubscription's upsert).                 *)
Revive(s) ==
  /\ sub[s].status # "active"
  /\ sub' = [sub EXCEPT ![s] = [status |-> "active", failures |-> 0]]
  /\ UNCHANGED <<row, drainer, acked, lost, deaths>>
------------------------------------------------------------------------------
Due(S) == {x \in Deliveries : SubOf(x) \in S /\ row[x].status = "pending" /\ row[x].due}

(* Fault: the due rows are read, not claimed. *)
ReadDueRows(d, S) ==
  /\ drainer[d].pc = "idle"
  /\ \E X \in SUBSET Due(S) :
       /\ X # {} /\ Cardinality(X) <= ClaimLimit
       /\ drainer' = [drainer EXCEPT ![d] = [Asleep EXCEPT !.pc = "group", !.held = X]]
  /\ UNCHANGED <<row, sub, acked, lost, deaths>>

(* UPDATE ... SET status = 'delivering' WHERE id IN (due) AND status =     *)
(* 'pending' RETURNING: fewer rows than are due when another drainer took  *)
(* some of them, or the limit leaves some.                                 *)
ClaimDueRows(d, S) ==
  /\ drainer[d].pc = "idle"
  /\ \E X \in SUBSET Due(S) :
       /\ X # {} /\ Cardinality(X) <= ClaimLimit
       /\ row' = [x \in Deliveries |->
                    IF x \in X THEN [row[x] EXCEPT !.status = "delivering"] ELSE row[x]]
       /\ drainer' = [drainer EXCEPT ![d] = [Asleep EXCEPT !.pc = "group", !.held = X]]
  /\ UNCHANGED <<sub, acked, lost, deaths>>

(* The next subscription's rows, and the read of its context.              *)
TakeGroup(d) ==
  /\ drainer[d].pc = "group"
  /\ \E s \in {SubOf(x) : x \in drainer[d].held} :
       drainer' = [drainer EXCEPT
         ![d].sub = s,
         ![d].group = {x \in drainer[d].held : SubOf(x) = s},
         ![d].wentDead = FALSE,
         ![d].pc = IF sub[s].status = "active" /\ s \in Hooked THEN "post" ELSE "inactive"]
  /\ UNCHANGED <<row, sub, acked, lost, deaths>>

(* Out of the loop's body with the group settled: on to the next one.      *)
Rest(d) == drainer[d].held \ {x \in Deliveries : SubOf(x) = drainer[d].sub}
NextGroup(d) ==
  drainer' = [drainer EXCEPT ![d] =
    IF Rest(d) = {} THEN Asleep ELSE [Asleep EXCEPT !.pc = "group", !.held = Rest(d)]]

DeadLetter(d) ==
  /\ drainer[d].pc = "inactive"
  /\ Write(drainer[d].group, "dead")
  /\ NextGroup(d)
  /\ UNCHANGED <<sub, acked, lost, deaths>>

(* postPing: a 2xx; or an error, where a time-out leaves open whether the  *)
(* partner took the ping.                                                  *)
PostAcked(d) ==
  /\ drainer[d].pc = "post"
  /\ acked' = acked \union drainer[d].group
  /\ drainer' = [drainer EXCEPT ![d].pc = "deliver"]
  /\ UNCHANGED <<row, sub, lost, deaths>>

PostFailed(d) ==
  /\ drainer[d].pc = "post"
  /\ drainer' = [drainer EXCEPT ![d].pc = "fail"]
  /\ UNCHANGED <<row, sub, acked, lost, deaths>>

MarkDelivered(d) ==
  /\ drainer[d].pc = "deliver"
  /\ Write(drainer[d].group, "delivered")
  /\ drainer' = [drainer EXCEPT ![d].pc = "clear", ![d].held = @ \ drainer[d].group]
  /\ UNCHANGED <<sub, acked, lost, deaths>>

ClearFailures(d) ==
  /\ drainer[d].pc = "clear"
  /\ sub' = [sub EXCEPT ![drainer[d].sub].failures = 0]
  /\ NextGroup(d)
  /\ UNCHANGED <<row, acked, lost, deaths>>

(* Two faults: one try too many, and a failed row left in 'delivering'. *)
FailRowLate(d, x) ==
  LET attempts == row[x].attempts + 1
      dies == attempts > MaxAttempts
  IN /\ drainer[d].pc = "fail" /\ x \in drainer[d].group
     /\ row' = [row EXCEPT ![x] = [status |-> IF dies THEN "dead" ELSE "pending",
                                   attempts |-> attempts, due |-> FALSE]]
     /\ drainer' = [drainer EXCEPT ![d].group = @ \ {x}, ![d].held = @ \ {x},
                                   ![d].wentDead = @ \/ dies]
     /\ UNCHANGED <<sub, acked, lost, deaths>>

FailRowStays(d, x) ==
  /\ drainer[d].pc = "fail" /\ x \in drainer[d].group
  /\ drainer' = [drainer EXCEPT ![d].group = @ \ {x}, ![d].held = @ \ {x}]
  /\ UNCHANGED <<row, sub, acked, lost, deaths>>

(* Failure: the rows of the group one by one, to the next rung or dead.    *)
FailRow(d, x) ==
  LET attempts == row[x].attempts + 1
      dies == attempts >= MaxAttempts
  IN /\ drainer[d].pc = "fail" /\ x \in drainer[d].group
     /\ row' = [row EXCEPT ![x] = [status |-> IF dies THEN "dead" ELSE "pending",
                                   attempts |-> attempts, due |-> FALSE]]
     /\ drainer' = [drainer EXCEPT ![d].group = @ \ {x}, ![d].held = @ \ {x},
                                   ![d].wentDead = @ \/ dies]
     /\ UNCHANGED <<sub, acked, lost, deaths>>

GroupFailed(d) ==
  /\ drainer[d].pc = "fail" /\ drainer[d].group = {}
  /\ IF drainer[d].wentDead
     THEN drainer' = [drainer EXCEPT ![d].pc = "strike"]
     ELSE NextGroup(d)
  /\ UNCHANGED <<row, sub, acked, lost, deaths>>

(* consecutive_failures + 1 RETURNING, then a second UPDATE that suspends. *)
Strike(d) ==
  LET s == drainer[d].sub IN
  /\ drainer[d].pc = "strike"
  /\ sub' = [sub EXCEPT ![s].failures = @ + 1]
  /\ IF sub[s].failures + 1 >= DeadStrikes
     THEN drainer' = [drainer EXCEPT ![d].pc = "suspend"]
     ELSE NextGroup(d)
  /\ UNCHANGED <<row, acked, lost, deaths>>

Suspend(d) ==
  /\ drainer[d].pc = "suspend"
  /\ sub' = [sub EXCEPT ![drainer[d].sub].status = "suspended"]
  /\ NextGroup(d)
  /\ UNCHANGED <<row, acked, lost, deaths>>

Die(d) ==
  /\ drainer[d].pc # "idle"
  /\ deaths < MaxDeaths
  /\ deaths' = deaths + 1
  /\ lost' = lost \union drainer[d].held
  /\ drainer' = [drainer EXCEPT ![d] = Asleep]
  /\ UNCHANGED <<row, sub, acked>>
------------------------------------------------------------------------------
DrainStep(d) ==
  \/ TakeGroup(d) \/ DeadLetter(d)
  \/ PostAcked(d) \/ PostFailed(d)
  \/ MarkDelivered(d) \/ ClearFailures(d)
  \/ \E x \in drainer[d].group : FailRow(d, x)
  \/ GroupFailed(d) \/ Strike(d) \/ Suspend(d)

Cron(d) == ClaimDueRows(d, Subs)
Inline(d) == \E s \in Subs : ClaimDueRows(d, {s})

Next ==
  \/ \E d \in Drainers : Cron(d) \/ Inline(d) \/ DrainStep(d) \/ Die(d)
  \/ \E x \in Deliveries : Enqueue(x) \/ BackoffElapses(x)
  \/ \E s \in Subs : Cancel(s) \/ Revive(s)

Spec == Init /\ [][Next]_vars

(* The cron keeps firing, an invocation keeps running, time passes.        *)
Fairness ==
  /\ \A d \in Drainers : WF_vars(Cron(d)) /\ WF_vars(DrainStep(d))
  /\ \A x \in Deliveries : WF_vars(BackoffElapses(x))

FairSpec == Spec /\ Fairness
------------------------------------------------------------------------------
TypeOK ==
  /\ row \in [Deliveries -> [status : {"none", "pending", "delivering", "delivered", "dead"},
                             attempts : 0..MaxAttempts, due : BOOLEAN]]
  /\ sub \in [Subs -> [status : {"active", "suspended", "cancelled"}, failures : Nat]]
  /\ drainer \in [Drainers ->
       [pc : {"idle", "group", "post", "inactive", "deliver", "clear", "fail", "strike", "suspend"},
        held : SUBSET Deliveries, sub : Subs \union {None}, group : SUBSET Deliveries,
        wentDead : BOOLEAN]]
  /\ acked \subseteq Deliveries /\ lost \subseteq Deliveries
  /\ deaths \in 0..MaxDeaths

(* "Claiming uses UPDATE ... RETURNING so overlapping cron ticks never     *)
(* double-send" (deliver.ts:9): no two drainers hold a row, and what one   *)
(* holds is marked delivering.                                             *)
HeldByOne ==
  /\ \A d, e \in Drainers : d # e => drainer[d].held \intersect drainer[e].held = {}
  /\ \A d \in Drainers : \A x \in drainer[d].held : row[x].status = "delivering"

(* The outbox keeps the promise made to the partner; refinement mapping:   *)
(* pending and delivering rows are owed.                                   *)
OutboxState ==
  [x \in Deliveries |-> IF row[x].status \in {"pending", "delivering"} THEN "owed" ELSE row[x].status]
Promise == INSTANCE DeliveryPromise WITH state <- OutboxState
KeepsPromise == Promise!PromiseSpec

(* Every enqueued delivery is delivered or dead in the end, across the     *)
(* ladder, cancellations, revivals and overlapping drains, unless an       *)
(* invocation died holding it (deliver.ts:86-167): a death strands what it *)
(* held and nothing else.                                                  *)
OnlyLostStay ==
  \A x \in Deliveries : Promise!Owed(x) ~> (Promise!Settled(x) \/ x \in lost)

(* "Semantics: at-least-once" (deliver.ts:5), without that exception.      *)
EverySettles == Promise!EveryDeliverySettles
==============================================================================
