----------------------------- MODULE AccessTables -----------------------------
(***************************************************************************)
(* The tables, besides the rules, that decide whether a request may go on: *)
(* agent_connections, the credentials of proxy_keys and temporary_api_keys,*)
(* email_delegations and key_email_access, for one agent of one owner and  *)
(* ONE mailbox that another user may share with this owner.  The owner's   *)
(* own mailbox needs no delegation and its rows never go.  A writer that   *)
(* takes several statements leaves the later ones in pending.              *)
(***************************************************************************)
EXTENDS RuleTables

CONSTANTS
  Default,        \* the profile that is the owner's Default Profile
  NoKey,          \* proxy_key_id IS NULL
  MaxPending      \* bounds the statements that callers have still to execute

ASSUME DefaultIsAKey == Default \in Keys /\ NoKey \notin Keys /\ MaxPending \in Nat

VARIABLES
  connection,     \* the agent's agent_connections row
  current,        \* profiles whose secret is the one their scripts hold
  temporary,      \* the temporary key of each profile: "none", "live" or "dead"
  delegation,     \* the shared mailbox's email_delegations row, or "none"
  rows,           \* profiles with a key_email_access row for the shared mailbox
  pending         \* statements that callers have still to execute

access == <<connection, current, temporary, delegation, rows, pending>>

Connection(status, key) == [status |-> status, key |-> key]
Later(do, key) == [do |-> do, key |-> key]
Laters == [do : {"sync", "attach", "insert", "approve"}, key : Keys] \cup {Later("teardown", NoKey)}

Leave(statement) == Cardinality(pending) < MaxPending /\ pending' = pending \cup {statement}
(* A statement left for later is executed, and may leave others.           *)
Resume(statement, others) == statement \in pending /\ pending' = (pending \ {statement}) \cup others
------------------------------------------------------------------------------
(* Connections: created on first use, attached to a live profile, blocked. *)
FirstUse ==
  /\ connection.status = "none" /\ Default \in live
  /\ connection' = Connection("approved", Default)

AttachConnection(k) ==
  /\ connection.status # "none" /\ k \in live /\ Leave(Later("approve", k))
  /\ UNCHANGED <<connection, current, temporary, delegation, rows, live>>
UpdateConnection(k) ==
  /\ Resume(Later("approve", k), {}) /\ connection' = Connection("approved", k)
  /\ UNCHANGED <<current, temporary, delegation, rows, live>>
Block ==
  /\ connection.status # "none" /\ connection' = Connection("blocked", NoKey)
  /\ UNCHANGED <<current, temporary, delegation, rows, pending, live>>

(* Profiles and temporary keys: revoked, expired, minted and rotated.  A   *)
(* rotation is one batch: a new secret, and the temporary keys die.  The    *)
(* Default Profile is not revoked before the connection's first use.       *)
EndProfile(k) ==
  /\ k \in live /\ (k = Default => connection.status # "none") /\ live' = live \ {k}
  /\ UNCHANGED <<connection, current, temporary, delegation, rows, pending>>
Rotate(k) ==
  /\ k \in live /\ current' = current \ {k}
  /\ temporary' = [temporary EXCEPT ![k] = IF @ = "live" THEN "dead" ELSE @]
  /\ UNCHANGED <<connection, delegation, rows, pending, live>>
MintTemporary(k) ==
  /\ connection = Connection("approved", k) /\ k \in live /\ temporary[k] = "none"
  /\ temporary' = [temporary EXCEPT ![k] = "live"]
  /\ UNCHANGED <<connection, current, delegation, rows, pending, live>>
EndTemporary(k) ==
  /\ temporary[k] = "live" /\ temporary' = [temporary EXCEPT ![k] = "dead"]
  /\ UNCHANGED <<connection, current, delegation, rows, pending, live>>

CredentialsNext ==
  \/ Block
  \/ \E k \in Keys : AttachConnection(k) \/ UpdateConnection(k) \/ Rotate(k) \/ MintTemporary(k)
                       \/ EndTemporary(k)
------------------------------------------------------------------------------
(* Delegations: granting one also gives the Default Profile its row; the   *)
(* revocation's second statement deletes the rows.                         *)
Grant ==
  /\ delegation' = "active" /\ Leave(Later("sync", Default))
  /\ UNCHANGED <<connection, current, temporary, rows, live>>
Sync ==
  /\ Resume(Later("sync", Default),
            IF Default \in live /\ delegation = "active" THEN {Later("insert", Default)} ELSE {})
  /\ UNCHANGED <<connection, current, temporary, delegation, rows, live>>
Revoke ==
  /\ delegation # "none" /\ delegation' = "revoked" /\ Leave(Later("teardown", NoKey))
  /\ UNCHANGED <<connection, current, temporary, rows, live>>
Teardown ==
  /\ Resume(Later("teardown", NoKey), {}) /\ rows' = {}
  /\ UNCHANGED <<connection, current, temporary, delegation, live>>

(* addMailboxToProfile: the profile is looked up, then the delegation, and *)
(* then the row is inserted.                                               *)
AddMailbox(k) ==
  /\ k \in live /\ Leave(Later("attach", k))
  /\ UNCHANGED <<connection, current, temporary, delegation, rows, live>>
LookForDelegation(k) ==
  /\ Resume(Later("attach", k), IF delegation = "active" THEN {Later("insert", k)} ELSE {})
  /\ UNCHANGED <<connection, current, temporary, delegation, rows, live>>
InsertRowOf(k) ==
  /\ Resume(Later("insert", k), {}) /\ rows' = rows \cup {k}
  /\ UNCHANGED <<connection, current, temporary, delegation, live>>

(* A caller's process is killed between two statements.                    *)
Abandon(statement) ==
  /\ Resume(statement, {})
  /\ UNCHANGED <<connection, current, temporary, delegation, rows, live>>

MailboxesNext ==
  \/ Grant \/ Sync \/ Revoke \/ Teardown
  \/ \E k \in Keys : AddMailbox(k) \/ LookForDelegation(k) \/ InsertRowOf(k)
CredentialsInit ==
  /\ connection \in [status : {"none", "pending"}, key : {NoKey}] \cup [status : {"approved"}, key : Keys]
  /\ current = Keys /\ temporary = [k \in Keys |-> "none"]
MailboxesInit == delegation = "none" /\ rows = {}

(* Everything granted.                                                     *)
CredentialsOpen ==
  connection = Connection("approved", Default) /\ current = Keys /\ temporary = [k \in Keys |-> "live"]
MailboxesOpen == delegation = "active" /\ rows = Keys

AccessTypeOK ==
  /\ connection \in [status : {"none", "pending", "approved", "blocked"}, key : Keys \cup {NoKey}]
  /\ connection.status = "approved" <=> connection.key \in Keys
  /\ current \in SUBSET Keys /\ temporary \in [Keys -> {"none", "live", "dead"}]
  /\ delegation \in {"none", "active", "revoked"} /\ rows \in SUBSET Keys /\ pending \in SUBSET Laters
  /\ delegation = "none" => rows = {} /\ Later("insert", Default) \notin pending
===============================================================================
