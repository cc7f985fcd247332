----------------------------- MODULE GmailCursor -----------------------------
(***************************************************************************)
(* New mail in one mailbox becomes outbox rows (src/src/lib/notifications/ *)
(* process.ts, subscriptions.ts and the renew-watches cron).  Each         *)
(* subscription keeps a cursor into the mailbox's Gmail history.  Gmail    *)
(* publishes a history id when mail arrives in a watched mailbox; Pub/Sub  *)
(* delivers it at least once and in any order; a handler reads the         *)
(* subscriptions, diffs the history from each cursor, enqueues the         *)
(* messages the key may read and advances the cursor.  A partner's consent *)
(* binds its connection to a new key and subscribes it; blocking the       *)
(* connection revokes the key and cancels; attaching it to a profile binds *)
(* it again and subscribes nothing; the drainer suspends.  Consents,       *)
(* renewals and cancellations arm and stop the watch, which all            *)
(* subscriptions of the mailbox share.  The history id of a message is the *)
(* message.                                                                *)
(***************************************************************************)
EXTENDS Integers, FiniteSets

CONSTANTS
  Subs,            \* subscriptions on the mailbox, one per connection
  Handlers,        \* concurrent runs of processGmailNotification
  Jobs,            \* concurrent consents, attachments, renewals and cancellations
  Readable,        \* the messages the read rules let through
  Established,     \* subscriptions that start active, with a cursor, watched
  MaxKeys,         \* bound on the keys (consents and profiles) of the connections, together
  MaxHistory,      \* bound on the messages that arrive
  MaxFaults        \* bound on failures, deaths, suspensions, gaps in the history, watches near their end

NoCursor == -1
Message == 1..MaxHistory
Cursor == Message \union {0, NoCursor}
Key == 1..MaxKeys

ASSUME CursorParameters ==
  /\ {MaxHistory, MaxFaults} \subseteq Nat /\ MaxKeys \in Nat \ {0}
  /\ Readable \subseteq Message /\ Established \subseteq Subs

VARIABLES
  history,     \* the mailbox's current history id
  watched,     \* Gmail publishes notifications for the mailbox
  sub,         \* notification_subscriptions
  bound,       \* proxy_key_id of each (approved) connection; 0: none, it is blocked
  key,         \* proxy_keys of each connection; dead: revoked or expired
  enqueued,    \* webhook_deliveries of each subscription
  given,       \* messages the code gives up: unreadable metadata, history gaps
  start,       \* the first cursor each subscription had
  notes,       \* history ids published
  unacked,     \* those Pub/Sub has not been told 200 for
  handler, job, faults

vars == <<history, watched, sub, bound, key, enqueued, given, start, notes, unacked,
          handler, job, faults>>
mailbox == <<history, watched>>
pubsub == <<notes, unacked>>
access == <<bound, key>>
ghosts == <<given, start>>

NoSub == [status |-> "none", cursor |-> NoCursor, watch |-> "due"]
Quiet == [pc |-> "idle", note |-> 0, todo |-> {}, snap |-> [s \in Subs |-> NoCursor],
          keyed |-> [s \in Subs |-> 0], sub |-> {}, ids |-> {}, new |-> 0]
NoJob == [pc |-> "idle", todo |-> {}, snap |-> [s \in Subs |-> NoCursor], got |-> 0, key |-> 0]

Init ==
  /\ history = 0
  /\ watched = (Established # {})
  /\ sub = [s \in Subs |-> IF s \in Established
                           THEN [status |-> "active", cursor |-> 0, watch |-> "good"] ELSE NoSub]
  /\ bound = [s \in Subs |-> IF s \in Established THEN 1 ELSE 0]
  /\ key = [s \in Subs |-> [k \in Key |-> IF s \in Established /\ k = 1 THEN "live" ELSE "none"]]
  /\ enqueued = [s \in Subs |-> {}]
  /\ given = [s \in Subs |-> {}]
  /\ start = [s \in Subs |-> IF s \in Established THEN 0 ELSE NoCursor]
  /\ notes = {} /\ unacked = {}
  /\ handler = [h \in Handlers |-> Quiet]
  /\ job = [j \in Jobs |-> NoJob]
  /\ faults = 0

Active(s) == sub[s].status = "active"
Live(s, k) == k # 0 /\ key[s][k] = "live"
Cursors == [s \in Subs |-> sub[s].cursor]
Greatest(a, b) == IF a > b THEN a ELSE b
Between(a, b) == {m \in Message : a < m /\ m <= b}

Fault == faults < MaxFaults /\ faults' = faults + 1

SetCursor(s, c) ==
  /\ sub' = [sub EXCEPT ![s].cursor = c]
  /\ start' = [start EXCEPT ![s] = IF @ = NoCursor THEN c ELSE @]
------------------------------------------------------------------------------
(* Gmail and the outside.                                                  *)

Publish(n) == notes' = notes \union {n} /\ unacked' = unacked \union {n}

Arrive ==
  /\ history < MaxHistory
  /\ history' = history + 1
  /\ IF watched THEN Publish(history + 1) ELSE UNCHANGED pubsub
  /\ UNCHANGED <<watched, sub, access, enqueued, ghosts, handler, job, faults>>

(* A watch is near its end, and ends if nobody has renewed it.             *)
ExpiryNears(s) ==
  /\ sub[s].watch = "good" /\ Fault
  /\ sub' = [sub EXCEPT ![s].watch = "due"]
  /\ UNCHANGED <<mailbox, access, enqueued, ghosts, pubsub, handler, job>>

WatchEnds ==
  /\ watched
  /\ \A s \in Subs : sub[s].watch # "good"
  /\ \A j \in Jobs : job[j].pc # "write"
  /\ watched' = FALSE
  /\ UNCHANGED <<history, sub, access, enqueued, ghosts, pubsub, handler, job, faults>>

(* A key expires, or is revoked from the dashboard.                        *)
KeyDies(s, k) ==
  /\ Live(s, k) /\ Fault
  /\ key' = [key EXCEPT ![s][k] = "dead"]
  /\ UNCHANGED <<mailbox, sub, bound, enqueued, ghosts, pubsub, handler, job>>

(* The drainer's last strike (WebhookOutbox has the steps before it): the  *)
(* subscription is suspended, whatever its status is by then.              *)
Suspend(s) ==
  /\ sub[s].status # "none" /\ Fault
  /\ sub' = [sub EXCEPT ![s].status = "suspended"]
  /\ UNCHANGED <<mailbox, access, enqueued, ghosts, pubsub, handler, job>>
------------------------------------------------------------------------------
(* processGmailNotification.                                               *)

(* The SELECT of the active subscriptions, with their cursors and their    *)
(* connections: the cursor and the key used below are those read here.     *)
Receive(h, n) ==
  /\ handler[h].pc = "idle" /\ n \in notes
  /\ handler' = [handler EXCEPT ![h] =
       [Quiet EXCEPT !.pc = "loop", !.note = n, !.todo = {s \in Subs : Active(s)}, !.snap = Cursors,
              !.keyed = bound]]
  /\ UNCHANGED <<mailbox, sub, access, enqueued, ghosts, pubsub, job, faults>>

Done(h, s) == handler' = [handler EXCEPT ![h].pc = "loop", ![h].todo = @ \ {s},
                                         ![h].sub = {}, ![h].ids = {}, ![h].new = 0]

(* A blocked connection or a dead key: skipped, the cursor stays.  The     *)
(* key's row is read here.                                                 *)
Keyed(h, s) == Live(s, handler[h].keyed[s])
SkipSub(h, s) ==
  /\ handler[h].pc = "loop" /\ s \in handler[h].todo
  /\ ~Keyed(h, s)
  /\ Done(h, s)
  /\ UNCHANGED <<mailbox, sub, access, enqueued, ghosts, pubsub, job, faults>>

(* No cursor was read: adopt the notification's.                           *)
AdoptCursor(h, s) ==
  /\ handler[h].pc = "loop" /\ s \in handler[h].todo
  /\ Keyed(h, s)
  /\ handler[h].snap[s] = NoCursor
  /\ SetCursor(s, handler[h].note)
  /\ Done(h, s)
  /\ UNCHANGED <<mailbox, access, enqueued, given, pubsub, job, faults>>

(* Fault: the key is not looked at. *)
DiffUnchecked(h, s) ==
  /\ handler[h].pc = "loop" /\ s \in handler[h].todo
  /\ handler[h].snap[s] # NoCursor
  /\ handler' = [handler EXCEPT ![h].pc = "enqueue", ![h].sub = {s},
                                ![h].ids = Between(handler[h].snap[s], history),
                                ![h].new = history]
  /\ UNCHANGED <<mailbox, sub, access, enqueued, ghosts, pubsub, job, faults>>

Diff(h, s) ==
  /\ handler[h].pc = "loop" /\ s \in handler[h].todo
  /\ Keyed(h, s)
  /\ handler[h].snap[s] # NoCursor
  /\ handler' = [handler EXCEPT ![h].pc = "enqueue", ![h].sub = {s},
                                ![h].ids = Between(handler[h].snap[s], history),
                                ![h].new = history]
  /\ UNCHANGED <<mailbox, sub, access, enqueued, ghosts, pubsub, job, faults>>

(* A 404: the history at the cursor is gone; resync to the notification.   *)
Resync(h, s) ==
  /\ Fault
  /\ handler[h].pc = "loop" /\ s \in handler[h].todo
  /\ Keyed(h, s)
  /\ handler[h].snap[s] # NoCursor /\ handler[h].snap[s] < history
  /\ SetCursor(s, handler[h].note)
  /\ given' = [given EXCEPT ![s] = @ \union Between(handler[h].snap[s], handler[h].note)]
  /\ Done(h, s)
  /\ UNCHANGED <<mailbox, access, enqueued, pubsub, job>>

(* One message: enqueued once if the rules let it through, filtered        *)
(* otherwise.                                                              *)
Consider(h, s, m) ==
  /\ handler[h].pc = "enqueue" /\ s \in handler[h].sub /\ m \in handler[h].ids
  /\ enqueued' = IF m \in Readable THEN [enqueued EXCEPT ![s] = @ \union {m}] ELSE enqueued
  /\ handler' = [handler EXCEPT ![h].ids = @ \ {m}]
  /\ UNCHANGED <<mailbox, sub, access, ghosts, pubsub, job, faults>>

(* The metadata cannot be fetched: not announced, and not tried again.     *)
GiveUp(h, s, m) ==
  /\ handler[h].pc = "enqueue" /\ s \in handler[h].sub /\ m \in handler[h].ids
  /\ Fault
  /\ given' = [given EXCEPT ![s] = @ \union {m}]
  /\ handler' = [handler EXCEPT ![h].ids = @ \ {m}]
  /\ UNCHANGED <<mailbox, sub, access, enqueued, start, pubsub, job>>

(* GREATEST(last_history_id, newHistoryId).                                *)
Advance(h, s) ==
  /\ handler[h].pc = "enqueue" /\ s \in handler[h].sub /\ handler[h].ids = {}
  /\ SetCursor(s, Greatest(sub[s].cursor, handler[h].new))
  /\ Done(h, s)
  /\ UNCHANGED <<mailbox, access, enqueued, given, pubsub, job, faults>>

(* 200: Pub/Sub is done with the notification.                             *)
Ack(h) ==
  /\ handler[h].pc = "loop" /\ handler[h].todo = {}
  /\ unacked' = unacked \ {handler[h].note}
  /\ handler' = [handler EXCEPT ![h] = Quiet]
  /\ UNCHANGED <<mailbox, sub, access, enqueued, ghosts, notes, job, faults>>

(* Fault: Pub/Sub is told 200 whatever happened. *)
HandlerFailsAcked(h) ==
  /\ handler[h].pc # "idle" /\ Fault
  /\ unacked' = unacked \ {handler[h].note}
  /\ handler' = [handler EXCEPT ![h] = Quiet]
  /\ UNCHANGED <<mailbox, sub, access, enqueued, ghosts, notes, job>>

(* A Gmail or database error (500), or the invocation is killed: Pub/Sub   *)
(* delivers the notification again.                                        *)
HandlerFails(h) ==
  /\ handler[h].pc # "idle" /\ Fault
  /\ handler' = [handler EXCEPT ![h] = Quiet]
  /\ UNCHANGED <<mailbox, sub, access, enqueued, ghosts, pubsub, job>>
------------------------------------------------------------------------------
(* The owner approves on the partner's consent page                        *)
(* (provisionPartnerConnection): a new key, and last the connection that   *)
(* points at it, its old key left as it was.                               *)
Unused(s) == {k \in Key : key[s][k] = "none"}
Made == {p \in Subs \X Key : key[p[1]][p[2]] # "none"}
NewKey(s, k) ==
  /\ Cardinality(Made) < MaxKeys
  /\ k \in Unused(s) /\ \A l \in Unused(s) : k <= l
  /\ key' = [key EXCEPT ![s][k] = "live"]
Provision(j, s) ==
  /\ job[j].pc = "idle"
  /\ \E k \in Key : NewKey(s, k) /\ bound' = [bound EXCEPT ![s] = k]
  /\ job' = [job EXCEPT ![j] = [NoJob EXCEPT !.pc = "subscribe", !.todo = {s}]]
  /\ UNCHANGED <<mailbox, sub, enqueued, ghosts, pubsub, handler, faults>>

(* ensureSubscription: the upsert, whose RETURNING gives the cursor, then  *)
(* the watch, then the write of cursor and expiry.                         *)
Subscribe(j, s) ==
  /\ job[j].pc = "subscribe" /\ s \in job[j].todo
  /\ sub' = [sub EXCEPT ![s].status = "active"]
  /\ job' = [job EXCEPT ![j] = [NoJob EXCEPT !.pc = "arm", !.todo = {s}, !.snap = Cursors]]
  /\ UNCHANGED <<mailbox, access, enqueued, ghosts, pubsub, handler, faults>>

(* The renew-watches cron: the active subscriptions whose watch is missing *)
(* or near its end, read once, armed once.                                 *)
ToRenew == {s \in Subs : Active(s) /\ sub[s].watch # "good"}
Renew(j) ==
  /\ job[j].pc = "idle" /\ ToRenew # {}
  /\ job' = [job EXCEPT ![j] = [NoJob EXCEPT !.pc = "arm", !.todo = ToRenew, !.snap = Cursors]]
  /\ UNCHANGED <<mailbox, sub, access, enqueued, ghosts, pubsub, handler, faults>>

(* Gmail publishes a notification when a watch is armed.                   *)
ArmWatch(j) ==
  /\ job[j].pc = "arm"
  /\ watched' = TRUE
  /\ IF history > 0 THEN Publish(history) ELSE UNCHANGED pubsub
  /\ job' = [job EXCEPT ![j].pc = "write", ![j].got = history]
  /\ UNCHANGED <<history, sub, access, enqueued, ghosts, handler, faults>>

(* Fault: the watch's history id replaces the cursor. *)
WriteArmedGot(j, s) ==
  /\ job[j].pc = "write" /\ s \in job[j].todo
  /\ sub' = [sub EXCEPT ![s].cursor = job[j].got, ![s].watch = "good"]
  /\ start' = [start EXCEPT ![s] = IF @ = NoCursor THEN job[j].got ELSE @]
  /\ job' = [job EXCEPT ![j] = IF job[j].todo = {s} THEN NoJob ELSE [job[j] EXCEPT !.todo = @ \ {s}]]
  /\ UNCHANGED <<mailbox, access, enqueued, given, pubsub, handler, faults>>

(* lastHistoryId: snap ?? got, whatever the row holds by now.              *)
WriteArmed(j, s) ==
  LET c == IF job[j].snap[s] # NoCursor THEN job[j].snap[s] ELSE job[j].got IN
  /\ job[j].pc = "write" /\ s \in job[j].todo
  /\ sub' = [sub EXCEPT ![s].cursor = c, ![s].watch = "good"]
  /\ start' = [start EXCEPT ![s] = IF @ = NoCursor THEN c ELSE @]
  /\ job' = [job EXCEPT ![j] = IF job[j].todo = {s} THEN NoJob ELSE [job[j] EXCEPT !.todo = @ \ {s}]]
  /\ UNCHANGED <<mailbox, access, enqueued, given, pubsub, handler, faults>>

(* The owner blocks the connection (api/connections): it is read, unbound, *)
(* the key that was read is revoked, and the subscriptions are cancelled.  *)
Connected(s) == \E k \in Key : key[s][k] # "none"
ReadConnection(j, s) ==
  /\ job[j].pc = "idle" /\ Connected(s)
  /\ job' = [job EXCEPT ![j] = [NoJob EXCEPT !.pc = "block", !.todo = {s}, !.key = bound[s]]]
  /\ UNCHANGED <<mailbox, sub, access, enqueued, ghosts, pubsub, handler, faults>>

Block(j, s) ==
  /\ job[j].pc = "block" /\ s \in job[j].todo
  /\ bound' = [bound EXCEPT ![s] = 0]
  /\ job' = [job EXCEPT ![j].pc = IF job[j].key = 0 THEN "cancel" ELSE "revoke"]
  /\ UNCHANGED <<mailbox, sub, key, enqueued, ghosts, pubsub, handler, faults>>

Revoke(j, s) ==
  /\ job[j].pc = "revoke" /\ s \in job[j].todo
  /\ key' = [key EXCEPT ![s][job[j].key] = "dead"]
  /\ job' = [job EXCEPT ![j].pc = "cancel"]
  /\ UNCHANGED <<mailbox, sub, bound, enqueued, ghosts, pubsub, handler, faults>>

(* The owner attaches the connection to a profile (api/connections): the   *)
(* key of a consent, or one of the owner's own, found alive and then       *)
(* bound.  Nothing is subscribed.                                          *)
ReadProfile(j, s) ==
  /\ job[j].pc = "idle" /\ Connected(s)
  /\ \E k \in Key :
       /\ NewKey(s, k) \/ (Live(s, k) /\ UNCHANGED key)
       /\ job' = [job EXCEPT ![j] = [NoJob EXCEPT !.pc = "attach", !.todo = {s}, !.key = k]]
  /\ UNCHANGED <<mailbox, sub, bound, enqueued, ghosts, pubsub, handler, faults>>

Attach(j, s) ==
  /\ job[j].pc = "attach" /\ s \in job[j].todo
  /\ bound' = [bound EXCEPT ![s] = job[j].key]
  /\ job' = [job EXCEPT ![j] = NoJob]
  /\ UNCHANGED <<mailbox, sub, key, enqueued, ghosts, pubsub, handler, faults>>

(* cancelSubscriptionsForConnection: cancel, look for other subscribers,   *)
(* stop the watch when there is none.                                      *)
Cancel(j, s) ==
  /\ job[j].pc = "cancel" /\ s \in job[j].todo
  /\ IF sub[s].status \in {"none", "cancelled"}
     THEN job' = [job EXCEPT ![j] = NoJob] /\ UNCHANGED sub
     ELSE /\ sub' = [sub EXCEPT ![s].status = "cancelled"]
          /\ job' = [job EXCEPT ![j] = [NoJob EXCEPT !.pc = "others"]]
  /\ UNCHANGED <<mailbox, access, enqueued, ghosts, pubsub, handler, faults>>

LookForOthers(j) ==
  /\ job[j].pc = "others"
  /\ job' = [job EXCEPT ![j] = IF \E s \in Subs : Active(s) THEN NoJob ELSE [NoJob EXCEPT !.pc = "stop"]]
  /\ UNCHANGED <<mailbox, sub, access, enqueued, ghosts, pubsub, handler, faults>>

StopWatch(j) ==
  /\ job[j].pc = "stop"
  /\ watched' = FALSE
  /\ job' = [job EXCEPT ![j] = NoJob]
  /\ UNCHANGED <<history, sub, access, enqueued, ghosts, pubsub, handler, faults>>

(* Gmail refuses, or the invocation is killed; the cron retries an arming. *)
JobFails(j) ==
  /\ job[j].pc # "idle" /\ Fault
  /\ job' = [job EXCEPT ![j] = NoJob]
  /\ UNCHANGED <<mailbox, sub, access, enqueued, ghosts, pubsub, handler>>
------------------------------------------------------------------------------
HandlerStep(h) ==
  \/ \E s \in Subs : SkipSub(h, s) \/ AdoptCursor(h, s) \/ Diff(h, s) \/ Resync(h, s) \/ Advance(h, s)
  \/ \E s \in Subs, m \in Message : Consider(h, s, m) \/ GiveUp(h, s, m)
  \/ Ack(h)

JobStep(j) ==
  \/ ArmWatch(j) \/ LookForOthers(j) \/ StopWatch(j)
  \/ \E s \in Subs : Subscribe(j, s) \/ WriteArmed(j, s)
  \/ \E s \in Subs : Block(j, s) \/ Revoke(j, s) \/ Attach(j, s) \/ Cancel(j, s)

Next ==
  \/ Arrive \/ WatchEnds
  \/ \E s \in Subs : ExpiryNears(s) \/ Suspend(s) \/ \E k \in Key : KeyDies(s, k)
  \/ \E h \in Handlers : HandlerStep(h) \/ HandlerFails(h) \/ \E n \in notes : Receive(h, n)
  \/ \E j \in Jobs : JobStep(j) \/ JobFails(j) \/ Renew(j)
  \/ \E j \in Jobs, s \in Subs : Provision(j, s) \/ ReadConnection(j, s) \/ ReadProfile(j, s)

Spec == Init /\ [][Next]_vars

(* Pub/Sub redelivers each notification until it is acknowledged, and a    *)
(* busy invocation is no obstacle, since another can be started: strong    *)
(* fairness.  An invocation that is not killed keeps running.              *)
Fairness ==
  /\ \A n \in Message : SF_vars(n \in unacked /\ \E h \in Handlers : Receive(h, n))
  /\ \A h \in Handlers : WF_vars(HandlerStep(h))

FairSpec == Spec /\ Fairness
------------------------------------------------------------------------------
TypeOK ==
  /\ history \in Message \union {0} /\ watched \in BOOLEAN
  /\ sub \in [Subs -> [status : {"none", "active", "suspended", "cancelled"}, cursor : Cursor,
                       watch : {"due", "good"}]]
  /\ bound \in [Subs -> Key \union {0}] /\ key \in [Subs -> [Key -> {"none", "live", "dead"}]]
  /\ enqueued \in [Subs -> SUBSET Message] /\ given \in [Subs -> SUBSET Message]
  /\ start \in [Subs -> Cursor]
  /\ notes \subseteq Message /\ unacked \subseteq notes
  /\ handler \in [Handlers -> [pc : {"idle", "loop", "enqueue"}, note : Message \union {0},
                               todo : SUBSET Subs, snap : [Subs -> Cursor],
                               keyed : [Subs -> Key \union {0}], sub : SUBSET Subs, ids : SUBSET Message, new : Message \union {0}]]
  /\ job \in [Jobs -> [pc : {"idle", "subscribe", "arm", "write", "block", "revoke", "attach", "cancel", "others", "stop"},
                       todo : SUBSET Subs, snap : [Subs -> Cursor], got : Message \union {0},
                       key : Key \union {0}]]
  /\ faults \in 0..MaxFaults

(* What lies between a subscription's first cursor and its cursor, and its *)
(* key may read, is enqueued, or was given up where the code says it gives *)
(* up (process.ts:3-5, 62-64, 84).                                         *)
KeepsUp(s) ==
  sub[s].cursor # NoCursor =>
    Between(start[s], sub[s].cursor) \intersect Readable \subseteq enqueued[s] \union given[s]

(* No readable message is passed over by a subscription that has a cursor, *)
(* whatever handlers, renewals, consents and cancellations write it.       *)
NothingPassedOver == \A s \in Established : KeepsUp(s)

(* The same of a subscription whose first cursor is still to be set, by    *)
(* its consent or by the first notification (process.ts:51-54).            *)
NothingPassedOverAtFirst == \A s \in Subs \ Established : KeepsUp(s)

(* "A detached partner gets nothing" (process.ts:43): once no key of a     *)
(* connection is alive, and the handlers that had already checked one are  *)
(* done with its subscription, nothing more is announced to it until the   *)
(* owner consents again, or makes a profile to attach it to.               *)
Detached(s) ==
  /\ \A k \in Key : ~Live(s, k)
  /\ \A h \in Handlers : s \notin handler[h].sub
DetachedGetsNothing ==
  [][\A s \in Subs :
       Detached(s) /\ Unused(s)' = Unused(s) => Detached(s)' /\ enqueued'[s] = enqueued[s]]_vars

(* "Transient failure -> 500 so Pub/Sub redelivers" (webhooks/gmail/       *)
(* route.ts:79): whatever handlers fail or die, every readable message     *)
(* that is published reaches the outbox of a subscription that has a       *)
(* cursor, unless at some moment since then the code serves it nothing:    *)
(* the subscription was suspended or cancelled (process.ts:37), the        *)
(* connection had no live key, or a handler was at work with the key it    *)
(* had before it was bound to another one (process.ts:43-48).              *)
Served(s) ==
  /\ Active(s) /\ Live(s, bound[s])
  /\ \A h \in Handlers : handler[h].pc # "idle" => handler[h].keyed[s] = bound[s]
EveryMessageEnqueued ==
  \A s \in Established, m \in Readable :
    <>(m \in notes) => <>(m \in enqueued[s] \union given[s] \/ (m \in notes /\ ~Served(s)))

(* The same of every subscription whose connection has a live key:         *)
(* violated.  A notification that comes while the subscription is          *)
(* suspended, or stays cancelled although the connection was attached      *)
(* again, is acknowledged.                                                 *)
LiveKeyServed ==
  \A s \in Established, m \in Readable :
    (m \in notes) ~> (m \in enqueued[s] \union given[s] \/ ~Live(s, bound[s]))

(* "A watch is only stopped when the LAST active subscription on that      *)
(* mailbox goes away" (subscriptions.ts:2-4): a subscription whose watch   *)
(* is recorded as good for days is watched, or somebody is about to arm.   *)
WatchedWhileActive ==
  \A s \in Subs :
    Active(s) /\ sub[s].watch = "good" /\ (\A j \in Jobs : job[j].pc = "idle") => watched
==============================================================================
