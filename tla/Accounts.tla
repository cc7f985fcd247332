------------------------------- MODULE Accounts -------------------------------
(***************************************************************************)
(* Accounts: what ties a person at Clerk to rows of the database, and one  *)
(* person's mailbox to another's profiles.  The owner of a mailbox grants  *)
(* and revokes delegations; the delegate signs in, connects agents, makes  *)
(* and revokes profiles; Clerk reissues ids, changes primary addresses,    *)
(* deletes accounts and says so through a webhook.  Every statement is a   *)
(* step, a person does one thing at a time, and a call may be killed.      *)
(***************************************************************************)
EXTENDS Naturals, FiniteSets, Sequences, FiniteSetsExt

CONSTANTS
  Ids,            \* Clerk ids: <<person, number>>, handed out in the order of their numbers
  Addresses,      \* primary addresses: <<person, number>>; nobody's address becomes another's
  Own,            \* delegation_id IS NULL
  MaxKeys,        \* bounds the profiles created
  MaxChanges,     \* bounds what Clerk does: addresses changed, ids reissued, deletions, new sign-ups
  MaxDeaths,      \* bounds the calls killed
  Killable,       \* the callers whose calls may be
  Calm            \* what Clerk does, the webhook, and the making or healing of one person's row by
                  \* another's grant do not overlap with other calls (README, disagreements)

People == {"owner", "delegate"}
Callers == People \cup {"webhook"}
ASSUME TheirOwn == Ids \cup Addresses \subseteq People \X Nat /\ {<<p, 1>> : p \in People} \subseteq Ids \cap Addresses
ASSUME OwnIsNoPair == Own \notin Nat \X Nat
ASSUME Bounds == MaxKeys \in Nat /\ MaxChanges \in Nat /\ MaxDeaths \in Nat /\ Killable \subseteq Callers /\ Calm \in BOOLEAN

VARIABLES
  clerk,          \* Clerk's accounts: their status and primary address
  events,         \* ids whose user.deleted has not been answered with 200
  users,          \* users rows, in the order of their creation
  keys,           \* proxy_keys rows, likewise
  access,         \* key_email_access rows
  active,         \* email_delegations: <<owner's row, delegate's row>> that are active
  revoked,        \* and those that were
  call,           \* what each caller is doing
  left            \* the changes and deaths that may still happen

tables == <<users, keys, access, active, revoked>>
vars == <<clerk, events, users, keys, access, active, revoked, call, left>>

PersonOf(x) == x[1]
Row(id, email) == [clerk |-> id, email |-> email, deleted |-> FALSE]
Key(r, kind) == [user |-> r, kind |-> kind, live |-> TRUE]
Grants(k, email, by) == [key |-> k, email |-> email, by |-> by]

LiveIds(person) == {id \in Ids : PersonOf(id) = person /\ clerk[id].status = "live"}
ById(id) == {r \in DOMAIN users : users[r].clerk = id}
AllRows(email) == {r \in DOMAIN users : users[r].email = email}           \* mutant
LiveRows(email) == {r \in DOMAIN users : users[r].email = email /\ ~users[r].deleted}
Profiles(r, kinds) == {k \in DOMAIN keys : keys[k].user = r /\ keys[k].live /\ keys[k].kind \in kinds}
Has(k, email) == \E x \in access : x.key = k /\ x.email = email
InsertOr(rows, k, email, by) == rows \cup (IF Has(k, email) THEN {} ELSE {Grants(k, email, by)})

Nobody == <<"nobody", 0>>
Idle == [at |-> "idle", then |-> "done", id |-> Nobody, email |-> Nobody, old |-> Nobody, me |-> 0, row |-> 0, key |-> 0,
         rows |-> {}, keys |-> {}, due |-> {}]
At(a, where) == call[a].at = where
Becomes(a, c) == call' = [call EXCEPT ![a] = c]
Ends(a) == Becomes(a, Idle)
Quiet == \A a \in Callers : At(a, "idle")
(* The row of the person is known: what the call wanted it for follows.    *)
Resolved(c, r) ==
  CASE c.then = "done" -> Idle
    [] c.then = "ensure" -> [Idle EXCEPT !.at = "default", !.row = r, !.email = c.email]
    [] c.then = "grant" -> [Idle EXCEPT !.at = "existing", !.row = r, !.email = c.email, !.me = c.me]
------------------------------------------------------------------------------
(* resolveDbUser: by Clerk id, then by address, else a new account.        *)
FindById(a) ==
  /\ At(a, "byid")
  /\ LET c == call[a]  found == ById(c.id)
     IN  Becomes(a, IF found = {} THEN [c EXCEPT !.at = "adoptable"]
                    ELSE LET r == Max(found)
                         IN  IF users[r].email = c.email THEN Resolved(c, r)
                             ELSE [c EXCEPT !.at = "email", !.row = r, !.old = users[r].email])
  /\ UNCHANGED <<clerk, events, tables, left>>

(* The address changed: the row's, and then the keys' own-mailbox rows.    *)
UpdateEmailOnly(a) ==                                                       \* mutant
  /\ At(a, "email")
  /\ users' = [users EXCEPT ![call[a].row].email = call[a].email]
  /\ Becomes(a, Resolved(call[a], call[a].row))
  /\ UNCHANGED <<clerk, events, keys, access, active, revoked, left>>
UpdateEmail(a) ==
  /\ At(a, "email")
  /\ users' = [users EXCEPT ![call[a].row].email = call[a].email]
  /\ Becomes(a, [call[a] EXCEPT !.at = "keys"])
  /\ UNCHANGED <<clerk, events, keys, access, active, revoked, left>>
ListKeys(a) ==
  /\ At(a, "keys")
  /\ LET c == call[a]  ks == {k \in DOMAIN keys : keys[k].user = c.row}
     IN  Becomes(a, IF ks = {} THEN Resolved(c, c.row) ELSE [c EXCEPT !.at = "current", !.keys = ks])
  /\ UNCHANGED <<clerk, events, tables, left>>
FindCurrent(a) ==
  /\ At(a, "current")
  /\ Becomes(a, [call[a] EXCEPT !.at = "drop", !.due = {k \in call[a].keys : Has(k, call[a].email)}])
  /\ UNCHANGED <<clerk, events, tables, left>>
OwnRows(c, ks) == {x \in access : x.key \in ks /\ x.email = c.old /\ x.by = Own}
DropOld(a) ==
  /\ At(a, "drop") /\ access' = access \ OwnRows(call[a], call[a].due)
  /\ Becomes(a, [call[a] EXCEPT !.at = "repoint"])
  /\ UNCHANGED <<clerk, events, users, keys, active, revoked, left>>
(* A row that meanwhile exists violates key_email_unique: the call fails.  *)
Repoint(a) ==
  /\ At(a, "repoint")
  /\ LET c == call[a]  moved == OwnRows(c, c.keys \ c.due)
     IN  IF \E x \in moved : Has(x.key, c.email) THEN Ends(a) /\ UNCHANGED access
         ELSE /\ access' = (access \ moved) \cup {[x EXCEPT !.email = c.email] : x \in moved}
              /\ Becomes(a, Resolved(c, c.row))
  /\ UNCHANGED <<clerk, events, users, keys, active, revoked, left>>

(* A live row of the address is adopted, the newest; clerk_user_id is      *)
(* unique.                                                                 *)
FindAdoptable(a) ==
  /\ At(a, "adoptable")
  /\ LET c == call[a]  rows == LiveRows(c.email)
     IN  Becomes(a, IF rows = {} THEN [c EXCEPT !.at = "user"] ELSE [c EXCEPT !.at = "adopt", !.row = Max(rows)])
  /\ UNCHANGED <<clerk, events, tables, left>>
Adopt(a) ==
  /\ At(a, "adopt")
  /\ LET c == call[a]
     IN  IF ById(c.id) \ {c.row} # {} THEN Ends(a) /\ UNCHANGED users
         ELSE users' = [users EXCEPT ![c.row].clerk = c.id] /\ Becomes(a, Resolved(c, c.row))
  /\ UNCHANGED <<clerk, events, keys, access, active, revoked, left>>

(* createDbUser: the row, its Default Profile, the own mailbox, and then   *)
(* the mailboxes already delegated to the address.                         *)
InsertUser(a) ==
  /\ At(a, "user")
  /\ LET c == call[a]
     IN  IF ById(c.id) # {} THEN Ends(a) /\ UNCHANGED users
         ELSE users' = Append(users, Row(c.id, c.email)) /\ Becomes(a, [c EXCEPT !.at = "firstkey", !.row = Len(users) + 1])
  /\ UNCHANGED <<clerk, events, keys, access, active, revoked, left>>
InsertFirstKey(a) ==
  /\ At(a, "firstkey") /\ Len(keys) < MaxKeys
  /\ keys' = Append(keys, Key(call[a].row, "default"))
  /\ Becomes(a, [call[a] EXCEPT !.at = "firstrow", !.key = Len(keys) + 1])
  /\ UNCHANGED <<clerk, events, users, access, active, revoked, left>>
InsertFirstRowUnsynced(a) ==                                                \* mutant
  /\ At(a, "firstrow") /\ access' = InsertOr(access, call[a].key, call[a].email, Own)
  /\ Becomes(a, Resolved(call[a], call[a].row))
  /\ UNCHANGED <<clerk, events, users, keys, active, revoked, left>>
InsertFirstRow(a) ==
  /\ At(a, "firstrow")
  /\ LET c == call[a]
     IN  IF Has(c.key, c.email) THEN Ends(a) /\ UNCHANGED access
         ELSE access' = access \cup {Grants(c.key, c.email, Own)} /\ Becomes(a, [c EXCEPT !.at = "sync"])
  /\ UNCHANGED <<clerk, events, users, keys, active, revoked, left>>

(* syncDefaultProfileDelegatedAccess: over the live rows of the address,   *)
(* each row's Default Profile gets the mailboxes delegated to the address. *)
Default(r) == Profiles(r, {"default"})
Synced(c) ==
  IF c.rows # {} THEN [c EXCEPT !.at = "nextrow"]
  ELSE IF c.then = "synced" THEN Idle ELSE Resolved(c, c.row)
FindRows(a) ==
  /\ At(a, "sync")
  /\ Becomes(a, Synced([call[a] EXCEPT !.rows = LiveRows(call[a].email)]))
  /\ UNCHANGED <<clerk, events, tables, left>>
FindDefault(a) ==
  /\ At(a, "nextrow")
  /\ \E r \in call[a].rows :
       LET c == [call[a] EXCEPT !.rows = @ \ {r}]
       IN  Becomes(a, IF Default(r) = {} THEN Synced(c) ELSE [c EXCEPT !.at = "delegations", !.key = Min(Default(r))])
  /\ UNCHANGED <<clerk, events, tables, left>>
(* getActiveDelegationsToEmail: by address, whichever row it was given to, *)
(* the newest of those from one address.                                   *)
ToAddress(email) == {p \in active : users[p[2]].email = email}
Newest(pairs) == {p \in pairs : \A q \in pairs : users[q[1]].email = users[p[1]].email => q[2] <= p[2]}
ListDelegations(a) ==
  /\ At(a, "delegations")
  /\ LET c == call[a]  due == {Grants(c.key, users[p[1]].email, p) : p \in Newest(ToAddress(c.email))}
     IN  Becomes(a, IF due = {} THEN Synced(c) ELSE [c EXCEPT !.at = "insert", !.due = due])
  /\ UNCHANGED <<clerk, events, tables, left>>
InsertDelegated(a) ==
  /\ At(a, "insert")
  /\ \E x \in call[a].due :
       LET c == [call[a] EXCEPT !.due = @ \ {x}]
       IN  /\ access' = InsertOr(access, x.key, x.email, x.by)
           /\ Becomes(a, IF c.due = {} THEN Synced(c) ELSE c)
  /\ UNCHANGED <<clerk, events, users, keys, active, revoked, left>>
------------------------------------------------------------------------------
(* ensureDefaultProfile, for an agent that connects.                       *)
EnsureDefault(a) ==
  /\ At(a, "default")
  /\ LET c == call[a]  found == Default(c.row)
     IN  Becomes(a, IF found = {} THEN [c EXCEPT !.at = "named"] ELSE [c EXCEPT !.at = "own", !.key = Min(found)])
  /\ UNCHANGED <<clerk, events, tables, left>>
FindNamed(a) ==
  /\ At(a, "named")
  /\ LET c == call[a]  found == Profiles(c.row, {"default", "named"})
     IN  Becomes(a, IF found = {} THEN [c EXCEPT !.at = "newkey"] ELSE [c EXCEPT !.at = "flag", !.key = Min(found)])
  /\ UNCHANGED <<clerk, events, tables, left>>
FlagNamed(a) ==
  /\ At(a, "flag") /\ keys' = [keys EXCEPT ![call[a].key].kind = "default"]
  /\ Becomes(a, [call[a] EXCEPT !.at = "own"])
  /\ UNCHANGED <<clerk, events, users, access, active, revoked, left>>
InsertDefault(a) ==
  /\ At(a, "newkey") /\ Len(keys) < MaxKeys
  /\ keys' = Append(keys, Key(call[a].row, "default"))
  /\ Becomes(a, [call[a] EXCEPT !.at = "own", !.key = Len(keys) + 1])
  /\ UNCHANGED <<clerk, events, users, access, active, revoked, left>>
EnsureOwnRow(a) ==
  /\ At(a, "own") /\ access' = InsertOr(access, call[a].key, call[a].email, Own)
  /\ Becomes(a, [call[a] EXCEPT !.at = "delegations", !.then = "synced"])
  /\ UNCHANGED <<clerk, events, users, keys, active, revoked, left>>
------------------------------------------------------------------------------
(* grantDelegation and revokeDelegation.                                   *)
FindDelegate(a) ==
  /\ At(a, "delegate")
  /\ LET c == call[a]  rows == LiveRows(c.email)
     IN  Becomes(a, IF rows = {} THEN [c EXCEPT !.at = "ask"] ELSE Resolved(c, Max(rows)))
  /\ UNCHANGED <<clerk, events, tables, left>>
(* Clerk knows the person by any address they have; the primary one counts *)
(* from here on.                                                           *)
SigningIn(person) == call[person].then = "done" /\ call[person].id # Nobody
AskClerk(a) ==
  /\ At(a, "ask")
  /\ LET c == call[a]  person == PersonOf(c.email)
     IN  /\ Calm => At(person, "idle") \/ SigningIn(person)
         /\ IF LiveIds(person) = {} THEN Ends(a)
            ELSE \E id \in LiveIds(person) : Becomes(a, [c EXCEPT !.at = "byid", !.id = id, !.email = clerk[id].email])
  /\ UNCHANGED <<clerk, events, tables, left>>
FindGrant(a) ==
  /\ At(a, "existing")
  /\ LET c == call[a]
     IN  Becomes(a, [c EXCEPT !.at = IF <<c.me, c.row>> \in active THEN "sync" ELSE "grant", !.then = "synced"])
  /\ UNCHANGED <<clerk, events, tables, left>>
WriteGrant(a) ==
  /\ At(a, "grant")
  /\ LET p == <<call[a].me, call[a].row>>
     IN  active' = active \cup {p} /\ revoked' = revoked \ {p}
  /\ Becomes(a, [call[a] EXCEPT !.at = "sync"])
  /\ UNCHANGED <<clerk, events, users, keys, access, left>>
Teardown(a) ==
  /\ At(a, "teardown") /\ access' = {x \in access : x.by # <<call[a].me, call[a].row>>}
  /\ Ends(a)
  /\ UNCHANGED <<clerk, events, users, keys, active, revoked, left>>

(* createProxyKey and addMailboxToProfile: the mailbox is resolved to the  *)
(* user's own or a delegation, by both addresses; then the rows follow.    *)
ResolveMailboxUnbacked(a) ==                                                 \* mutant
  /\ At(a, "mailbox")
  /\ LET c == call[a]
     IN  Becomes(a, [c EXCEPT !.at = IF c.key = 0 THEN "profile" ELSE "attach", !.due = {Own}])
  /\ UNCHANGED <<clerk, events, tables, left>>
ResolveMailbox(a) ==
  /\ At(a, "mailbox")
  /\ LET c == call[a]
         grants == IF c.old = c.email THEN {Own} ELSE {p \in ToAddress(c.email) : users[p[1]].email = c.old}
     IN  IF grants = {} THEN Ends(a)
         ELSE \E g \in grants :
                Becomes(a, [c EXCEPT !.at = IF c.key = 0 THEN "profile" ELSE "attach", !.due = {g}])
  /\ UNCHANGED <<clerk, events, tables, left>>
InsertProfile(a) ==
  /\ At(a, "profile") /\ Len(keys) < MaxKeys
  /\ keys' = Append(keys, Key(call[a].row, call[a].then))
  /\ Becomes(a, [call[a] EXCEPT !.at = "attach", !.key = Len(keys) + 1])
  /\ UNCHANGED <<clerk, events, users, access, active, revoked, left>>
Attach(a) ==
  /\ At(a, "attach")
  /\ \E g \in call[a].due : access' = InsertOr(access, call[a].key, call[a].old, g)
  /\ Ends(a)
  /\ UNCHANGED <<clerk, events, users, keys, active, revoked, left>>
------------------------------------------------------------------------------
(* user.deleted: tombstoneUser.  Clerk repeats the event until it is       *)
(* answered.                                                               *)
Acknowledge(a) == events' = events \ {call[a].id} /\ Ends(a)
FindRetired(a) ==
  /\ At(a, "retired")
  /\ LET found == {r \in ById(call[a].id) : ~users[r].deleted}
     IN  IF found = {} THEN Acknowledge(a)
         ELSE Becomes(a, [call[a] EXCEPT !.at = "revokekeys", !.row = Max(found)]) /\ UNCHANGED events
  /\ UNCHANGED <<clerk, tables, left>>
RevokeKeys(a) ==
  /\ At(a, "revokekeys")
  /\ keys' = [k \in DOMAIN keys |-> IF keys[k].user = call[a].row THEN [keys[k] EXCEPT !.live = FALSE] ELSE keys[k]]
  /\ Becomes(a, [call[a] EXCEPT !.at = "revokeout"])
  /\ UNCHANGED <<clerk, events, users, access, active, revoked, left>>
RevokeOutAndIn(a) ==
  \E side \in {1, 2} :
    /\ At(a, IF side = 1 THEN "revokeout" ELSE "revokein")
    /\ LET pairs == {p \in active : p[side] = call[a].row}
       IN  /\ active' = active \ pairs /\ revoked' = revoked \cup pairs
           /\ Becomes(a, [call[a] EXCEPT !.at = IF side = 1 THEN "revokein" ELSE "removerows", !.due = @ \cup pairs])
    /\ UNCHANGED <<clerk, events, users, keys, access, left>>
RemoveRows(a) ==
  /\ At(a, "removerows")
  /\ IF call[a].due = {} THEN Becomes(a, [call[a] EXCEPT !.at = "tombstone"]) /\ UNCHANGED access
     ELSE \E p \in call[a].due :
            access' = {x \in access : x.by # p} /\ Becomes(a, [call[a] EXCEPT !.due = @ \ {p}])
  /\ UNCHANGED <<clerk, events, users, keys, active, revoked, left>>
Tombstone(a) ==
  /\ At(a, "tombstone") /\ users' = [users EXCEPT ![call[a].row].deleted = TRUE]
  /\ Acknowledge(a)
  /\ UNCHANGED <<clerk, keys, access, active, revoked, left>>
------------------------------------------------------------------------------
(* What people start, with the Clerk account they have.                    *)
Starts(a, c) == At(a, "idle") /\ (Calm => At("webhook", "idle")) /\ Becomes(a, c)
Alone(id) == Calm => \A b \in People : PersonOf(call[b].id) # PersonOf(id)
SignIn(a) ==
  /\ \E id \in LiveIds(a) : Starts(a, [Idle EXCEPT !.at = "byid", !.id = id, !.email = clerk[id].email])
  /\ UNCHANGED <<clerk, events, tables, left>>
Connect ==
  /\ \E id \in LiveIds("delegate") :
       /\ Alone(id)
       /\ Starts("delegate",
            IF ById(id) = {} THEN [Idle EXCEPT !.at = "byid", !.id = id, !.email = clerk[id].email, !.then = "ensure"]
            ELSE [Idle EXCEPT !.at = "default", !.row = Max(ById(id)), !.email = users[Max(ById(id))].email])
  /\ UNCHANGED <<clerk, events, tables, left>>
(* A label that a live profile has is refused.                             *)
CreateProxyKey ==
  /\ Len(keys) < MaxKeys
  /\ \E id \in LiveIds("delegate") : \E r \in ById(id), kind \in {"named", "custom"}, target \in Addresses :
       /\ Alone(id) /\ (kind = "named" => Profiles(r, {"default", "named"}) = {})
       /\ Starts("delegate", [Idle EXCEPT !.at = "mailbox", !.row = r, !.email = users[r].email, !.old = target, !.then = kind])
  /\ UNCHANGED <<clerk, events, tables, left>>
AddMailbox ==
  /\ \E id \in LiveIds("delegate") : \E r \in ById(id), target \in Addresses :
       \E k \in Profiles(r, {"default", "named", "custom"}) :
         /\ Alone(id)
         /\ Starts("delegate", [Idle EXCEPT !.at = "mailbox", !.row = r, !.key = k, !.email = users[r].email, !.old = target])
  /\ UNCHANGED <<clerk, events, tables, left>>
RevokeProxyKey ==
  /\ At("delegate", "idle")
  /\ \E id \in LiveIds("delegate") : \E r \in ById(id) : \E k \in Profiles(r, {"default", "named", "custom"}) :
       /\ Calm => Cardinality(Default(r)) < 2
       /\ keys' = [keys EXCEPT ![k].live = FALSE]
  /\ UNCHANGED <<clerk, events, users, access, active, revoked, call, left>>
Grant ==
  /\ \E id \in LiveIds("owner") : \E r \in ById(id), email \in Addresses :
       /\ PersonOf(email) = "delegate"
       /\ Calm => \A d \in LiveRows(email) : clerk[users[d].clerk].email = email
       /\ Starts("owner", [Idle EXCEPT !.at = "delegate", !.email = email, !.me = r, !.then = "grant"])
  /\ UNCHANGED <<clerk, events, tables, left>>
Revoke ==
  /\ \E id \in LiveIds("owner") : \E r \in ById(id) : \E p \in active \cup revoked :
       /\ p[1] = r /\ active' = active \ {p} /\ revoked' = revoked \cup {p}
       /\ Starts("owner", [Idle EXCEPT !.at = "teardown", !.me = r, !.row = p[2]])
  /\ UNCHANGED <<clerk, events, users, keys, access, left>>
ReceiveDeleted ==
  /\ (Calm => Quiet) /\ \E id \in events : Starts("webhook", [Idle EXCEPT !.at = "retired", !.id = id])
  /\ UNCHANGED <<clerk, events, tables, left>>
Die(a) ==
  /\ a \in Killable /\ ~At(a, "idle") /\ left.deaths > 0 /\ left' = [left EXCEPT !.deaths = @ - 1]
  /\ Ends(a) /\ UNCHANGED <<clerk, events, tables>>
------------------------------------------------------------------------------
(* Clerk, at the wish of a person who does nothing else meanwhile.         *)
Account(status, email) == [status |-> status, email |-> email]
Unused(person) == {id \in Ids : PersonOf(id) = person /\ clerk[id].status = "unborn"}
NextId(person) == {id \in Unused(person) : \A other \in Unused(person) : id[2] <= other[2]}
Happens(a) ==
  /\ At(a, "idle") /\ (Calm => Quiet)
  /\ left.changes > 0 /\ left' = [left EXCEPT !.changes = @ - 1]
ChangePrimary(a) ==
  /\ Happens(a)
  /\ \E id \in LiveIds(a), email \in Addresses :
       PersonOf(email) = a /\ email # clerk[id].email /\ clerk' = [clerk EXCEPT ![id].email = email]
  /\ UNCHANGED <<events, tables, call>>
Reissue(a) ==
  /\ Happens(a)
  /\ \E old \in LiveIds(a), new \in NextId(a) :
       clerk' = [clerk EXCEPT ![old].status = "vanished", ![new] = Account("live", clerk[old].email)]
  /\ UNCHANGED <<events, tables, call>>
DeleteAccount(a) ==
  /\ Happens(a)
  /\ \E id \in LiveIds(a) : clerk' = [clerk EXCEPT ![id].status = "gone"] /\ events' = events \cup {id}
  /\ UNCHANGED <<tables, call>>
SignUpAgain(a) ==
  /\ Happens(a) /\ LiveIds(a) = {} /\ (Calm => \A id \in events : PersonOf(id) # a)
  /\ \E id \in NextId(a), email \in Addresses :
       PersonOf(email) = a /\ clerk' = [clerk EXCEPT ![id] = Account("live", email)]
  /\ UNCHANGED <<events, tables, call>>
------------------------------------------------------------------------------
(* An owner who is signed in, and a delegate with a Clerk account.         *)
Init ==
  /\ clerk = [id \in Ids |-> IF id[2] = 1 THEN Account("live", id) ELSE Account("unborn", Nobody)]
  /\ events = {} /\ users = <<Row(<<"owner", 1>>, <<"owner", 1>>)>> /\ keys = <<Key(1, "default")>>
  /\ access = {Grants(1, <<"owner", 1>>, Own)} /\ active = {} /\ revoked = {}
  /\ call = [a \in Callers |-> Idle] /\ left = [changes |-> MaxChanges, deaths |-> MaxDeaths]

SignInStep(a) ==
  \/ FindById(a) \/ UpdateEmail(a) \/ ListKeys(a) \/ FindCurrent(a) \/ DropOld(a) \/ Repoint(a)
  \/ FindAdoptable(a) \/ Adopt(a) \/ InsertUser(a) \/ InsertFirstKey(a) \/ InsertFirstRow(a)
SyncStep(a) == FindRows(a) \/ FindDefault(a) \/ ListDelegations(a) \/ InsertDelegated(a)
ConnectStep(a) == EnsureDefault(a) \/ FindNamed(a) \/ FlagNamed(a) \/ InsertDefault(a) \/ EnsureOwnRow(a)
GrantStep(a) == FindDelegate(a) \/ AskClerk(a) \/ FindGrant(a) \/ WriteGrant(a) \/ Teardown(a)
ProfileStep(a) == ResolveMailbox(a) \/ InsertProfile(a) \/ Attach(a)
RetireStep(a) == FindRetired(a) \/ RevokeKeys(a) \/ RevokeOutAndIn(a) \/ RemoveRows(a) \/ Tombstone(a)
Next ==
  \/ \E a \in Callers :
       SignInStep(a) \/ SyncStep(a) \/ ConnectStep(a) \/ GrantStep(a) \/ ProfileStep(a) \/ RetireStep(a) \/ Die(a)
  \/ \E a \in People : SignIn(a) \/ ChangePrimary(a) \/ Reissue(a) \/ DeleteAccount(a) \/ SignUpAgain(a)
  \/ Connect \/ CreateProxyKey \/ AddMailbox \/ RevokeProxyKey \/ Grant \/ Revoke \/ ReceiveDeleted
Spec == Init /\ [][Next]_vars
------------------------------------------------------------------------------
(* A profile reaches a mailbox: its row stands, and a token is found, the  *)
(* key owner's or that of the mailbox owner's row which delegates to it.   *)
Stands(by) == by = Own \/ by \in active
DelegatesTo(r, email) == \E p \in active : p[2] = r /\ users[p[1]].email = email /\ ~users[p[1]].deleted
Reaches(k, email) ==
  /\ keys[k].live
  /\ \E x \in access : x.key = k /\ x.email = email /\ Stands(x.by)
  /\ users[keys[k].user].email = email \/ DelegatesTo(keys[k].user, email)

(* One row per Clerk id, one access row per profile and mailbox, and one   *)
(* delegation per pair of rows.                                            *)
TypeOK ==
  /\ \A r, s \in DOMAIN users : users[r].clerk = users[s].clerk => r = s
  /\ \A x, y \in access : x.key = y.key /\ x.email = y.email => x = y
  /\ active \cap revoked = {}

(* "The delegate's Default Profile gets the mailbox immediately"           *)
(* (actions.ts:308): once nobody is at work and no call was killed, the    *)
(* Default Profile of the delegate's row reaches the mailbox, however the  *)
(* grant met the delegate's first sign-in, connections and profiles, if    *)
(* the mailbox was never delegated but to this row.                        *)
Feeds(p) == ~users[p[1]].deleted /\ Default(p[2]) # {} => Reaches(Min(Default(p[2])), users[p[1]].email)
FromAddress(email) == {p \in active \cup revoked : users[p[1]].email = email}
OnlyGrantReaches ==
  Quiet /\ left.deaths = MaxDeaths => \A p \in active : FromAddress(users[p[1]].email) = {p} => Feeds(p)

(* The same of every delegation to the one live row of its address, which  *)
(* is what the comment says: violated.  A sync that listed a delegation    *)
(* before it was revoked leaves a row behind it, and key_email_unique lets *)
(* no later delegation of the mailbox replace that row.                    *)
GrantsReach ==
  Quiet /\ left.deaths = MaxDeaths => \A p \in active : LiveRows(users[p[2]].email) = {p[2]} => Feeds(p)

(* "Re-point them so identity and key access can't drift apart"            *)
(* (userHelpers.ts:39-40): a live profile that had its user's own mailbox  *)
(* reaches it still, under the address the user has by now.                *)
OwnMailboxKept ==
  Quiet /\ left.deaths = MaxDeaths =>
    \A k \in DOMAIN keys :
      LET r == keys[k].user
      IN  keys[k].live /\ (\E x \in access : x.key = k /\ x.by = Own) => Reaches(k, users[r].email)

(* "The row is kept for audit but made inert" (tombstoneUser.ts:17): no    *)
(* profile of a retired row is live, nothing is delegated by it or to it,  *)
(* and no Clerk account adopts it again, even if the webhook was killed    *)
(* between two of its statements and repeated.                             *)
RetiredIsInert ==
  \A r \in DOMAIN users : users[r].deleted =>
    /\ clerk[users[r].clerk].status # "live"
    /\ \A k \in DOMAIN keys : keys[k].user = r => ~keys[k].live
    /\ \A p \in active : r \notin {p[1], p[2]}

(* "Granting anyway produces a key_email_access row with no backing        *)
(* delegation, which cannot be revoked and is indistinguishable from the   *)
(* user's own mailbox" (delegationQueries.ts:120-122): a row without a      *)
(* delegation carries an address of the person whose profile it is.        *)
OwnRowsAreOwn ==
  \A x \in access : x.by = Own => PersonOf(x.email) = PersonOf(users[keys[x.key].user].clerk)
==============================================================================
