--------------------------- MODULE DeliveryPromise ---------------------------
(***************************************************************************)
(* What the webhook outbox promises a partner: a message that was enqueued *)
(* is owed until it is settled, it is settled as delivered only after the  *)
(* partner acknowledged it, a settled message is never reopened, and every *)
(* owed message is settled in the end (src/src/lib/notifications/          *)
(* deliver.ts:5, "at-least-once").                                         *)
(***************************************************************************)
CONSTANT Deliveries      \* webhook_deliveries: one per subscription and message

VARIABLES
  state,      \* of each delivery: "none", "owed", "delivered" or "dead"
  acked       \* the deliveries the partner answered with a 2xx

promise == <<state, acked>>

PromiseInit == state = [x \in Deliveries |-> "none"] /\ acked = {}

Owe(x) ==
  /\ state[x] = "none"
  /\ state' = [state EXCEPT ![x] = "owed"]
  /\ UNCHANGED acked

(* One ping carries several messages. *)
Acknowledge(X) ==
  /\ X # {} /\ \A x \in X : state[x] = "owed"
  /\ acked' = acked \union X
  /\ UNCHANGED state

Deliver(X) ==
  /\ X # {} /\ X \subseteq acked /\ \A x \in X : state[x] = "owed"
  /\ state' = [x \in Deliveries |-> IF x \in X THEN "delivered" ELSE state[x]]
  /\ UNCHANGED acked

GiveUp(X) ==
  /\ X # {} /\ \A x \in X : state[x] = "owed"
  /\ state' = [x \in Deliveries |-> IF x \in X THEN "dead" ELSE state[x]]
  /\ UNCHANGED acked

PromiseNext ==
  \/ \E x \in Deliveries : Owe(x)
  \/ \E X \in SUBSET Deliveries : Acknowledge(X) \/ Deliver(X) \/ GiveUp(X)

PromiseSpec == PromiseInit /\ [][PromiseNext]_promise

Owed(x) == state[x] = "owed"
Settled(x) == state[x] \in {"delivered", "dead"}
EveryDeliverySettles == \A x \in Deliveries : Owed(x) ~> Settled(x)
==============================================================================
