---------------------------- MODULE AccountsProofs ----------------------------
(***************************************************************************)
(* Accounts for any number of ids, addresses, profiles and calls, each of  *)
(* which may be killed between any two of its statements.                  *)
(***************************************************************************)
EXTENDS Accounts, FiniteSetTheorems, SequenceTheorems, TLAPS

Kinds == {"default", "named", "custom"}
RowRecord == [clerk : Ids, email : Addresses, deleted : BOOLEAN]
KeyRecord == [user : Nat, kind : Kinds, live : BOOLEAN]
Fields == {"at", "then", "id", "email", "old", "me", "row", "key", "rows", "keys", "due"}

Resolving == {"byid", "adoptable", "adopt", "email", "keys", "current", "drop", "repoint", "user", "firstkey", "firstrow"}
Syncing == {"sync", "nextrow", "delegations", "insert"}
ForOwn == {"default", "named", "newkey", "flag", "own", "mailbox", "profile", "attach"}
Retiring == {"revokekeys", "revokeout", "revokein", "removerows", "tombstone"}

(* A row of users is one person's for good, whatever id or address it      *)
(* carries; a call works on rows of the person whose address it carries.   *)
PersonAt(U, r) == PersonOf(U[r].clerk)
Located(c, U) == c.row \in DOMAIN U /\ c.email \in Addresses /\ PersonOf(c.email) = PersonAt(U, c.row)
KeyOfRow(c, K) == c.key \in DOMAIN K /\ K[c.key].user = c.row

ResolvingOK(c, U, K) ==
  /\ c.then = "grant" => c.me \in DOMAIN U
  /\ c.at \in Resolving => /\ c.id \in Ids /\ c.email \in Addresses /\ PersonOf(c.email) = PersonOf(c.id)
                           /\ c.then \in {"done", "ensure", "grant"}
  /\ c.at \in Resolving \ {"byid", "adoptable", "user"} => Located(c, U)
  /\ c.at \in {"current", "drop", "repoint"} => \A k \in c.keys : k \in DOMAIN K /\ K[k].user = c.row
SyncingOK(c, U, K) ==
  /\ c.at \in Syncing => /\ c.then \in {"done", "ensure", "grant", "synced"}
                         /\ c.then # "synced" => Located(c, U)
  /\ c.at \in Syncing \ {"sync"} => c.rows \subseteq DOMAIN U
  /\ c.at = "delegations" => c.key \in DOMAIN K
  /\ c.at = "insert" => \A x \in c.due : /\ x = Grants(x.key, x.email, x.by) /\ x.key \in DOMAIN K
                                         /\ x.email \in Addresses /\ x.by \in Nat \X Nat
GrantingOK(c, U, K) ==
  /\ c.at \in {"delegate", "ask"} => c.then = "grant"
  /\ c.at \in {"existing", "grant"} => c.me \in DOMAIN U /\ c.row \in DOMAIN U
  /\ c.at = "grant" => c.then = "synced"
  /\ c.at \in Retiring => c.row \in DOMAIN U
OwningOK(c, U, K) ==
  /\ c.at \in ForOwn => Located(c, U) /\ c.rows = {}
  /\ c.at \in {"firstrow", "flag", "own", "attach"} => KeyOfRow(c, K)
  /\ c.at = "mailbox" => IF c.key = 0 THEN c.then \in Kinds ELSE KeyOfRow(c, K)
  /\ c.at = "profile" => c.then \in Kinds
  /\ c.at \in {"mailbox", "profile", "attach"} => c.old \in Addresses
  /\ c.at \in {"profile", "attach"} => \A g \in c.due : g \in Nat \X Nat \/ (g = Own /\ c.old = c.email)
CallOK(c, U, K) ==
  /\ DOMAIN c = Fields /\ (c.at = "idle" => c = Idle)
  /\ ResolvingOK(c, U, K) /\ SyncingOK(c, U, K) /\ GrantingOK(c, U, K) /\ OwningOK(c, U, K)

ClerkOK ==
  /\ clerk \in [Ids -> [status : {"unborn", "live", "vanished", "gone"}, email : Addresses \cup {Nobody}]]
  /\ \A id \in Ids : clerk[id].status = "live" => clerk[id].email \in Addresses /\ PersonOf(clerk[id].email) = PersonOf(id)
UsersOK == users \in Seq(RowRecord) /\ \A r \in DOMAIN users : PersonOf(users[r].email) = PersonAt(users, r)
KeysOK == keys \in Seq(KeyRecord) /\ \A k \in DOMAIN keys : keys[k].user \in DOMAIN users
PairsOK == active \cup revoked \subseteq (DOMAIN users) \X (DOMAIN users)
AccessOK(x) ==
  /\ x = Grants(x.key, x.email, x.by) /\ x.key \in DOMAIN keys /\ x.email \in Addresses
  /\ x.by = Own => PersonOf(x.email) = PersonAt(users, keys[x.key].user)
Holds == ClerkOK /\ UsersOK /\ KeysOK /\ PairsOK /\ (\A x \in access : AccessOK(x)) /\ TypeOK
Inv == Holds /\ DOMAIN call = Callers /\ \A a \in Callers : CallOK(call[a], users, keys)

(* What no step takes back.                                                *)
Grows(U, K, U2, K2) ==
  /\ DOMAIN U \subseteq DOMAIN U2 /\ \A r \in DOMAIN U : PersonAt(U2, r) = PersonAt(U, r)
  /\ DOMAIN K \subseteq DOMAIN K2 /\ \A k \in DOMAIN K : K2[k].user = K[k].user
------------------------------------------------------------------------------
(* Least and greatest elements, of a set of positions in a table.          *)
Parts(n) == SUBSET (1..n)
HasMinimal(T) == \E x \in T : \A y \in T : y \subseteq x => y = x

LEMMA SubsetOrder ==
  ASSUME NEW n \in Nat, NEW T, T \subseteq Parts(n), T # {}
  PROVE  HasMinimal(T)
<1> DEFINE R == StrictSubsetOrdering(1..n)
<1>1. \A x, y \in SUBSET (1..n) : x \subseteq y /\ x # y => <<x, y>> \in R
  BY DEF StrictSubsetOrdering
<1>2. IsFiniteSet(1..n)
  BY FS_Interval
<1>3. FiniteSubsetsOf(1..n) = SUBSET (1..n)
  BY <1>2, FS_FiniteSubsetsOfFinite
<1>4. IsWellFoundedOn(R, SUBSET (1..n))
  BY <1>3, FS_StrictSubsetOrderingWellFounded
<1> HIDE DEF R
<1>5. PICK x \in T : \A y \in T : ~(<<y, x>> \in R)
  BY <1>4, WFMin, Zenon DEF Parts
<1>6. QED
  BY <1>1, <1>5 DEF Parts, HasMinimal

LEMMA MinMaxIn ==
  ASSUME NEW n \in Nat, NEW S \in SUBSET (1..n), S # {}
  PROVE  Max(S) \in S /\ Min(S) \in S
<1>0. PICK s \in S : TRUE
  OBVIOUS
<1>1. \E x \in S : \A y \in S : x <= y
  <2> DEFINE T == {1..s1 : s1 \in S}
  <2>1. T \subseteq Parts(n) /\ T # {}
    BY <1>0 DEF Parts
  <2> HIDE DEF T
  <2>2. PICK t \in T : \A u \in T : u \subseteq t => u = t
    BY <2>1, SubsetOrder DEF HasMinimal
  <2> USE DEF T
  <2>3. PICK x \in S : t = 1..x
    OBVIOUS
  <2>4. ASSUME NEW y \in S, y < x
        PROVE  FALSE
    <3>1. 1..y \in T /\ 1..y \subseteq 1..x /\ x \in 1..x /\ x \notin 1..y
      BY <2>4
    <3>2. QED
      BY <3>1, <2>2, <2>3
  <2>5. QED
    BY <2>4
<1>2. \E x \in S : \A y \in S : x >= y
  <2> DEFINE T == {s1..n : s1 \in S}
  <2>1. T \subseteq Parts(n) /\ T # {}
    BY <1>0 DEF Parts
  <2> HIDE DEF T
  <2>2. PICK t \in T : \A u \in T : u \subseteq t => u = t
    BY <2>1, SubsetOrder DEF HasMinimal
  <2> USE DEF T
  <2>3. PICK x \in S : t = x..n
    OBVIOUS
  <2>4. ASSUME NEW y \in S, y > x
        PROVE  FALSE
    <3>1. y..n \in T /\ y..n \subseteq x..n /\ x \in x..n /\ x \notin y..n
      BY <2>4
    <3>2. QED
      BY <3>1, <2>2, <2>3
  <2>5. QED
    BY <2>4
<1>3. Max(S) \in S
  BY <1>2 DEF Max
<1>4. Min(S) \in S
  BY <1>1 DEF Min
<1>5. QED
  BY <1>3, <1>4

LEMMA MinMaxOfRows ==
  ASSUME NEW T, NEW s \in Seq(T), NEW S \in SUBSET (DOMAIN s), S # {}
  PROVE  Max(S) \in S /\ Min(S) \in S
<1>1. DOMAIN s = 1..Len(s) /\ Len(s) \in Nat
  OBVIOUS
<1>2. QED
  BY <1>1, MinMaxIn

LEMMA CallStays ==
  ASSUME NEW c, NEW U, NEW K, NEW U2, NEW K2, CallOK(c, U, K), Grows(U, K, U2, K2)
  PROVE  CallOK(c, U2, K2)
<1>1. Located(c, U) => Located(c, U2)
  BY DEF Grows, Located
<1>2. KeyOfRow(c, K) => KeyOfRow(c, K2)
  BY DEF Grows, KeyOfRow
<1>3. ResolvingOK(c, U2, K2)
  BY <1>1 DEF CallOK, ResolvingOK, Grows
<1>4. SyncingOK(c, U2, K2)
  BY <1>1 DEF CallOK, SyncingOK, Grows
<1>5. GrantingOK(c, U2, K2)
  BY DEF CallOK, GrantingOK, Grows
<1>6. OwningOK(c, U2, K2)
  BY <1>1, <1>2 DEF CallOK, OwningOK
<1>7. QED
  BY <1>3, <1>4, <1>5, <1>6 DEF CallOK

LEMMA Same == \A U, K : Grows(U, K, U, K)
BY DEF Grows

(* One call moves on.                                                      *)
LEMMA OneCall ==
  ASSUME Inv, NEW a \in Callers, NEW d, Becomes(a, d), Holds', Grows(users, keys, users', keys'), CallOK(d, users', keys')
  PROVE  Inv'
<1>1. DOMAIN call' = Callers /\ call'[a] = d /\ \A b \in Callers \ {a} : call'[b] = call[b]
  BY DEF Inv, Becomes
<1>2. \A b \in Callers : CallOK(call[b], users', keys')
  BY CallStays DEF Inv
<1>3. \A b \in Callers : CallOK(call'[b], users', keys')
  BY <1>1, <1>2
<1>4. QED
  BY <1>1, <1>3 DEF Inv

LEMMA StillHolds ==
  ASSUME Inv, UNCHANGED <<clerk, tables>>
  PROVE  Holds' /\ Grows(users, keys, users', keys')
<1>1. Grows(users, keys, users', keys')
  BY Same DEF tables
<1>2. Holds'
  BY DEF Inv, Holds, tables, ClerkOK, UsersOK, KeysOK, PairsOK, AccessOK, TypeOK, PersonAt
<1>3. QED
  BY <1>1, <1>2

LEMMA Moves ==
  ASSUME Inv, NEW a \in Callers, NEW d, Becomes(a, d), UNCHANGED <<clerk, tables>>, CallOK(d, users, keys)
  PROVE  Inv'
<1>1. Holds' /\ Grows(users, keys, users', keys') /\ users' = users /\ keys' = keys
  BY StillHolds DEF tables
<1>2. QED
  BY <1>1, OneCall

(* One table changes.                                                      *)
LEMMA UsersChange ==
  ASSUME Inv, UNCHANGED <<clerk, keys, access, active, revoked>>, users' \in Seq(RowRecord), DOMAIN users \subseteq DOMAIN users',
         \A r \in DOMAIN users : PersonAt(users', r) = PersonAt(users, r),
         \A r \in DOMAIN users' : PersonOf(users'[r].email) = PersonAt(users', r),
         \A r, s \in DOMAIN users' : users'[r].clerk = users'[s].clerk => r = s
  PROVE  Holds' /\ Grows(users, keys, users', keys')
<1>1. Grows(users, keys, users', keys')
  BY DEF Grows
<1>2. ClerkOK' /\ UsersOK'
  BY DEF Inv, Holds, ClerkOK, UsersOK
<1>3. KeysOK' /\ PairsOK'
  BY DEF Inv, Holds, KeysOK, PairsOK
<1>4. \A x \in access' : AccessOK(x)'
  BY DEF Inv, Holds, AccessOK, KeysOK
<1>5. TypeOK'
  BY DEF Inv, Holds, TypeOK
<1>6. QED
  BY <1>1, <1>2, <1>3, <1>4, <1>5 DEF Holds

LEMMA KeysChange ==
  ASSUME Inv, UNCHANGED <<clerk, users, access, active, revoked>>, keys' \in Seq(KeyRecord), DOMAIN keys \subseteq DOMAIN keys',
         \A k \in DOMAIN keys : keys'[k].user = keys[k].user,
         \A k \in DOMAIN keys' : keys'[k].user \in DOMAIN users
  PROVE  Holds' /\ Grows(users, keys, users', keys')
<1>1. Grows(users, keys, users', keys')
  BY DEF Grows
<1>2. ClerkOK' /\ UsersOK' /\ KeysOK' /\ PairsOK' /\ TypeOK'
  BY DEF Inv, Holds, ClerkOK, UsersOK, KeysOK, PairsOK, TypeOK, PersonAt
<1>3. \A x \in access' : AccessOK(x)'
  BY DEF Inv, Holds, AccessOK
<1>4. QED
  BY <1>1, <1>2, <1>3 DEF Holds

LEMMA AccessChange ==
  ASSUME Inv, UNCHANGED <<clerk, users, keys, active, revoked>>, \A x \in access' : AccessOK(x),
         \A x, y \in access' : x.key = y.key /\ x.email = y.email => x = y
  PROVE  Holds' /\ Grows(users, keys, users', keys')
<1>1. Grows(users, keys, users', keys')
  BY Same
<1>2. ClerkOK' /\ UsersOK' /\ KeysOK' /\ PairsOK'
  BY DEF Inv, Holds, ClerkOK, UsersOK, KeysOK, PairsOK, PersonAt
<1>3. (\A x \in access' : AccessOK(x)') /\ TypeOK'
  BY DEF Inv, Holds, AccessOK, TypeOK
<1>4. QED
  BY <1>1, <1>2, <1>3 DEF Holds

LEMMA PairsChange ==
  ASSUME Inv, UNCHANGED <<clerk, users, keys, access>>,
         active' \cup revoked' \subseteq (DOMAIN users) \X (DOMAIN users), active' \cap revoked' = {}
  PROVE  Holds' /\ Grows(users, keys, users', keys')
<1>1. Grows(users, keys, users', keys')
  BY Same
<1>2. ClerkOK' /\ UsersOK' /\ KeysOK' /\ PairsOK'
  BY DEF Inv, Holds, ClerkOK, UsersOK, KeysOK, PairsOK, PersonAt
<1>3. (\A x \in access' : AccessOK(x)') /\ TypeOK'
  BY DEF Inv, Holds, AccessOK, TypeOK
<1>4. QED
  BY <1>1, <1>2, <1>3 DEF Holds

(* Fewer rows, and a row that stands alone.                                *)
LEMMA FewerRows ==
  ASSUME Inv, UNCHANGED <<clerk, users, keys, active, revoked>>, access' \subseteq access
  PROVE  Holds' /\ Grows(users, keys, users', keys')
BY AccessChange DEF Inv, Holds, TypeOK

LEMMA OneMoreRow ==
  ASSUME Inv, UNCHANGED <<clerk, users, keys, active, revoked>>, NEW k \in DOMAIN keys, NEW e \in Addresses, NEW by,
         by = Own => PersonOf(e) = PersonAt(users, keys[k].user),
         access' = InsertOr(access, k, e, by)
  PROVE  Holds' /\ Grows(users, keys, users', keys')
<1> DEFINE x == Grants(k, e, by)
<1>1. x.key = k /\ x.email = e /\ x.by = by /\ AccessOK(x)
  BY DEF Grants, AccessOK
<1>2. CASE Has(k, e)
  BY <1>2, FewerRows DEF InsertOr
<1>3. CASE ~Has(k, e)
  <2>1. access' = access \cup {x}
    BY <1>3 DEF InsertOr
  <2>2. \A y \in access : ~(y.key = k /\ y.email = e)
    BY <1>3 DEF Has
  <2> HIDE DEF x
  <2>3. \A y \in access' : AccessOK(y)
    BY <1>1, <2>1 DEF Inv, Holds
  <2>4. \A y, z \in access' : y.key = z.key /\ y.email = z.email => y = z
    BY <1>1, <2>1, <2>2 DEF Inv, Holds, TypeOK
  <2>5. QED
    BY <2>3, <2>4, AccessChange
<1>4. QED
  BY <1>2, <1>3
------------------------------------------------------------------------------
(* Calls that end, or whose row is known.                                  *)
LEMMA IdleOK == \A U, K : CallOK(Idle, U, K)
BY DEF CallOK, ResolvingOK, SyncingOK, GrantingOK, OwningOK, Idle, Fields, Resolving, Syncing, ForOwn, Retiring

LEMMA ResolvedOK ==
  ASSUME NEW U, NEW K, NEW c, NEW r \in DOMAIN U, c.then \in {"done", "ensure", "grant"},
         c.email \in Addresses, PersonOf(c.email) = PersonAt(U, r), c.then = "grant" => c.me \in DOMAIN U
  PROVE  CallOK(Resolved(c, r), U, K)
<1>1. CASE c.then = "done"
  BY <1>1, IdleOK DEF Resolved
<1>2. CASE c.then = "ensure"
  <2> DEFINE d == [Idle EXCEPT !.at = "default", !.row = r, !.email = c.email]
  <2>1. d.at = "default" /\ d.row = r /\ d.email = c.email /\ d.then = "done" /\ d.rows = {} /\ DOMAIN d = Fields
    BY DEF Idle, Fields
  <2>2. Resolved(c, r) = d
    BY <1>2 DEF Resolved
  <2> HIDE DEF d
  <2>3. CallOK(d, U, K)
    BY <2>1 DEF CallOK, ResolvingOK, SyncingOK, GrantingOK, OwningOK, Resolving, Syncing, ForOwn, Retiring, Located
  <2>4. QED
    BY <2>2, <2>3
<1>3. CASE c.then = "grant"
  <2> DEFINE d == [Idle EXCEPT !.at = "existing", !.row = r, !.email = c.email, !.me = c.me]
  <2>1. d.at = "existing" /\ d.row = r /\ d.email = c.email /\ d.me = c.me /\ d.then = "done" /\ DOMAIN d = Fields
    BY DEF Idle, Fields
  <2>2. Resolved(c, r) = d
    BY <1>3 DEF Resolved
  <2> HIDE DEF d
  <2>3. CallOK(d, U, K)
    BY <1>3, <2>1 DEF CallOK, ResolvingOK, SyncingOK, GrantingOK, OwningOK, Resolving, Syncing, ForOwn, Retiring
  <2>4. QED
    BY <2>2, <2>3
<1>4. QED
  BY <1>1, <1>2, <1>3
------------------------------------------------------------------------------
(* What a call that is resolving a person's row knows.                     *)
LEMMA AtCall ==
  ASSUME Inv, NEW a \in Callers
  PROVE  CallOK(call[a], users, keys) /\ DOMAIN call[a] = Fields
BY DEF Inv, CallOK

LEMMA RowsKnown ==
  Inv => /\ users \in Seq(RowRecord) /\ keys \in Seq(KeyRecord)
         /\ \A r \in DOMAIN users : users[r] \in RowRecord /\ PersonOf(users[r].email) = PersonAt(users, r)
         /\ \A k \in DOMAIN keys : keys[k] \in KeyRecord /\ keys[k].user \in DOMAIN users
BY DEF Inv, Holds, UsersOK, KeysOK

LEMMA FindByIdStep ==
  ASSUME Inv, NEW a \in Callers, FindById(a)
  PROVE  Inv'
<1> DEFINE c == call[a]
           r == Max(ById(c.id))
           d1 == [c EXCEPT !.at = "adoptable"]
           d2 == [c EXCEPT !.at = "email", !.row = r, !.old = users[r].email]
<1>1. c.at = "byid" /\ CallOK(c, users, keys) /\ DOMAIN c = Fields /\ UNCHANGED <<clerk, tables>>
  BY AtCall DEF FindById, At
<1>2. /\ c.id \in Ids /\ c.email \in Addresses /\ PersonOf(c.email) = PersonOf(c.id)
      /\ c.then \in {"done", "ensure", "grant"} /\ (c.then = "grant" => c.me \in DOMAIN users)
  BY <1>1 DEF CallOK, ResolvingOK, Resolving
<1>3. CASE ById(c.id) = {}
  <2>1. Becomes(a, d1)
    BY <1>3 DEF FindById
  <2>2. d1.at = "adoptable" /\ d1.id = c.id /\ d1.email = c.email /\ d1.then = c.then /\ d1.me = c.me /\ DOMAIN d1 = Fields
    BY <1>1 DEF Fields
  <2> HIDE DEF d1, c
  <2>3. CallOK(d1, users, keys)
    BY <1>2, <2>2 DEF CallOK, ResolvingOK, SyncingOK, GrantingOK, OwningOK, Resolving, Syncing, ForOwn, Retiring
  <2>4. QED
    BY <1>1, <2>1, <2>3, Moves
<1>4. CASE ById(c.id) # {}
  <2>1. r \in DOMAIN users /\ users[r].clerk = c.id
    <3>1. r \in ById(c.id)
      BY <1>4, RowsKnown, MinMaxOfRows DEF ById
    <3>2. QED
      BY <3>1 DEF ById
  <2>2. PersonOf(c.email) = PersonAt(users, r)
    BY <1>2, <2>1 DEF PersonAt
  <2>3. CASE users[r].email = c.email
    <3>1. Becomes(a, Resolved(c, r))
      BY <1>4, <2>3 DEF FindById
    <3> HIDE DEF r, c
    <3>2. CallOK(Resolved(c, r), users, keys)
      BY <1>2, <2>1, <2>2, ResolvedOK
    <3>3. QED
      BY <1>1, <3>1, <3>2, Moves
  <2>4. CASE users[r].email # c.email
    <3>1. Becomes(a, d2)
      BY <1>4, <2>4 DEF FindById
    <3> HIDE DEF r
    <3>2. /\ d2.at = "email" /\ d2.id = c.id /\ d2.email = c.email /\ d2.then = c.then /\ d2.me = c.me /\ d2.row = r
          /\ DOMAIN d2 = Fields
      BY <1>1 DEF Fields
    <3> HIDE DEF d2, c
    <3>3. CallOK(d2, users, keys)
      BY <1>2, <2>1, <2>2, <3>2 DEF CallOK, ResolvingOK, SyncingOK, GrantingOK, OwningOK, Resolving, Syncing, ForOwn, Retiring, Located
    <3>4. QED
      BY <1>1, <3>1, <3>3, Moves
  <2>5. QED
    BY <2>3, <2>4
<1>5. QED
  BY <1>3, <1>4

(* From here on the call is at a row.                                      *)
LEMMA AtRow ==
  ASSUME Inv, NEW a \in Callers, call[a].at \in Resolving \ {"byid", "adoptable", "user"}
  PROVE  LET c == call[a]
         IN  /\ c.id \in Ids /\ c.email \in Addresses /\ PersonOf(c.email) = PersonOf(c.id)
             /\ c.then \in {"done", "ensure", "grant"} /\ (c.then = "grant" => c.me \in DOMAIN users)
             /\ c.row \in DOMAIN users /\ PersonOf(c.email) = PersonAt(users, c.row) /\ DOMAIN c = Fields
             /\ users[c.row] \in RowRecord
             /\ CallOK(c, users, keys) /\ CallOK(Resolved(c, c.row), users, keys)
<1> DEFINE c == call[a]
<1>1. /\ c.id \in Ids /\ c.email \in Addresses /\ PersonOf(c.email) = PersonOf(c.id)
      /\ c.then \in {"done", "ensure", "grant"} /\ (c.then = "grant" => c.me \in DOMAIN users)
      /\ c.row \in DOMAIN users /\ PersonOf(c.email) = PersonAt(users, c.row) /\ DOMAIN c = Fields /\ CallOK(c, users, keys)
  BY AtCall DEF CallOK, ResolvingOK, Located
<1> HIDE DEF c
<1>2. users[c.row] \in RowRecord /\ CallOK(Resolved(c, c.row), users, keys)
  BY <1>1, RowsKnown, ResolvedOK
<1>3. QED
  BY <1>1, <1>2 DEF c

(* A row's address, or its id, becomes another of the same person.         *)
LEMMA RowWritten ==
  ASSUME Inv, NEW r \in DOMAIN users, NEW q \in RowRecord, users' = [users EXCEPT ![r] = q],
         PersonOf(q.email) = PersonOf(q.clerk), PersonOf(q.clerk) = PersonAt(users, r),
         \A s \in DOMAIN users \ {r} : users[s].clerk # q.clerk,
         UNCHANGED <<clerk, keys, access, active, revoked>>
  PROVE  Holds' /\ Grows(users, keys, users', keys')
<1>1. users \in Seq(RowRecord) /\ DOMAIN users = 1..Len(users) /\ Len(users) \in Nat
  BY RowsKnown
<1>2. /\ users' \in Seq(RowRecord) /\ DOMAIN users' = DOMAIN users
      /\ users'[r] = q /\ \A s \in DOMAIN users \ {r} : users'[s] = users[s]
  BY <1>1
<1>3. \A s \in DOMAIN users : PersonAt(users', s) = PersonAt(users, s)
  BY <1>2 DEF PersonAt
<1>4. \A s \in DOMAIN users' : PersonOf(users'[s].email) = PersonAt(users', s)
  BY <1>2, RowsKnown DEF PersonAt
<1>5. \A s, t \in DOMAIN users' : users'[s].clerk = users'[t].clerk => s = t
  BY <1>2 DEF Inv, Holds, TypeOK
<1>6. QED
  BY <1>2, <1>3, <1>4, <1>5, UsersChange

LEMMA UpdateEmailStep ==
  ASSUME Inv, NEW a \in Callers, UpdateEmail(a)
  PROVE  Inv'
<1> DEFINE c == call[a]
           q == [users[c.row] EXCEPT !.email = c.email]
           d == [c EXCEPT !.at = "keys"]
<1>0. c.at = "email" /\ c.at \in Resolving \ {"byid", "adoptable", "user"}
  BY DEF UpdateEmail, At, Resolving
<1>1. /\ c.id \in Ids /\ c.email \in Addresses /\ PersonOf(c.email) = PersonOf(c.id)
      /\ c.then \in {"done", "ensure", "grant"} /\ (c.then = "grant" => c.me \in DOMAIN users)
      /\ c.row \in DOMAIN users /\ PersonOf(c.email) = PersonAt(users, c.row) /\ DOMAIN c = Fields
      /\ users[c.row] \in RowRecord
  BY <1>0, AtRow
<1>2. q \in RowRecord /\ q.email = c.email /\ q.clerk = users[c.row].clerk
  BY <1>1 DEF RowRecord
<1>3. users' = [users EXCEPT ![c.row] = q] /\ UNCHANGED <<clerk, keys, access, active, revoked>> /\ Becomes(a, d)
  <2>1. users' = [users EXCEPT ![c.row].email = c.email] /\ UNCHANGED <<clerk, keys, access, active, revoked>> /\ Becomes(a, d)
    BY DEF UpdateEmail
  <2>2. QED
    BY <2>1
<1>4. \A s \in DOMAIN users \ {c.row} : users[s].clerk # q.clerk
  BY <1>1, <1>2 DEF Inv, Holds, TypeOK
<1>5. d.at = "keys" /\ d.id = c.id /\ d.email = c.email /\ d.then = c.then /\ d.me = c.me /\ d.row = c.row /\ DOMAIN d = Fields
  BY <1>1 DEF Fields
<1> HIDE DEF c, q, d
<1>6. Holds' /\ Grows(users, keys, users', keys')
  BY <1>1, <1>2, <1>3, <1>4, RowWritten DEF PersonAt
<1>7. CallOK(d, users, keys)
  BY <1>1, <1>5 DEF CallOK, ResolvingOK, SyncingOK, GrantingOK, OwningOK, Resolving, Syncing, ForOwn, Retiring, Located
<1>8. CallOK(d, users', keys')
  BY <1>6, <1>7, CallStays, Zenon
<1>9. QED
  BY <1>3, <1>6, <1>8, OneCall

LEMMA ListKeysStep ==
  ASSUME Inv, NEW a \in Callers, ListKeys(a)
  PROVE  Inv'
<1> DEFINE c == call[a]
           ks == {k \in DOMAIN keys : keys[k].user = c.row}
           d == [c EXCEPT !.at = "current", !.keys = ks]
<1>0. c.at = "keys" /\ c.at \in Resolving \ {"byid", "adoptable", "user"}
  BY DEF ListKeys, At, Resolving
<1>1. /\ c.id \in Ids /\ c.email \in Addresses /\ PersonOf(c.email) = PersonOf(c.id)
      /\ c.then \in {"done", "ensure", "grant"} /\ (c.then = "grant" => c.me \in DOMAIN users)
      /\ c.row \in DOMAIN users /\ PersonOf(c.email) = PersonAt(users, c.row) /\ DOMAIN c = Fields
      /\ CallOK(Resolved(c, c.row), users, keys)
  BY <1>0, AtRow
<1>2. (Becomes(a, Resolved(c, c.row)) \/ Becomes(a, d)) /\ UNCHANGED <<clerk, tables>>
  BY DEF ListKeys
<1>3. \A k \in ks : k \in DOMAIN keys /\ keys[k].user = c.row
  OBVIOUS
<1> HIDE DEF ks
<1>5. /\ d.at = "current" /\ d.id = c.id /\ d.email = c.email /\ d.then = c.then /\ d.me = c.me /\ d.row = c.row
      /\ d.keys = ks /\ DOMAIN d = Fields
  BY <1>1 DEF Fields
<1> HIDE DEF c, d
<1>7. CallOK(d, users, keys)
  BY <1>1, <1>3, <1>5 DEF CallOK, ResolvingOK, SyncingOK, GrantingOK, OwningOK, Resolving, Syncing, ForOwn, Retiring, Located
<1>8. QED
  BY <1>1, <1>2, <1>7, Moves

LEMMA FindCurrentStep ==
  ASSUME Inv, NEW a \in Callers, FindCurrent(a)
  PROVE  Inv'
<1> DEFINE c == call[a]
           ks == {k \in c.keys : Has(k, c.email)}
           d == [c EXCEPT !.at = "drop", !.due = ks]
<1>0. c.at = "current" /\ c.at \in Resolving \ {"byid", "adoptable", "user"}
  BY DEF FindCurrent, At, Resolving
<1>1. /\ c.id \in Ids /\ c.email \in Addresses /\ PersonOf(c.email) = PersonOf(c.id)
      /\ c.then \in {"done", "ensure", "grant"} /\ (c.then = "grant" => c.me \in DOMAIN users)
      /\ c.row \in DOMAIN users /\ PersonOf(c.email) = PersonAt(users, c.row) /\ DOMAIN c = Fields
      /\ CallOK(c, users, keys)
  BY <1>0, AtRow
<1>2. Becomes(a, d) /\ UNCHANGED <<clerk, tables>>
  BY DEF FindCurrent
<1> HIDE DEF ks
<1>3. /\ d.at = "drop" /\ d.id = c.id /\ d.email = c.email /\ d.then = c.then /\ d.me = c.me /\ d.row = c.row
      /\ d.keys = c.keys /\ DOMAIN d = Fields
  BY <1>1 DEF Fields
<1>4. \A k \in c.keys : k \in DOMAIN keys /\ keys[k].user = c.row
  BY <1>0, <1>1 DEF CallOK, ResolvingOK
<1> HIDE DEF c, d
<1>5. CallOK(d, users, keys)
  BY <1>1, <1>3, <1>4 DEF CallOK, ResolvingOK, SyncingOK, GrantingOK, OwningOK, Resolving, Syncing, ForOwn, Retiring, Located
<1>6. QED
  BY <1>2, <1>5, Moves

LEMMA DropOldStep ==
  ASSUME Inv, NEW a \in Callers, DropOld(a)
  PROVE  Inv'
<1> DEFINE c == call[a]
           d == [c EXCEPT !.at = "repoint"]
<1>0. c.at = "drop" /\ c.at \in Resolving \ {"byid", "adoptable", "user"}
  BY DEF DropOld, At, Resolving
<1>1. /\ c.id \in Ids /\ c.email \in Addresses /\ PersonOf(c.email) = PersonOf(c.id)
      /\ c.then \in {"done", "ensure", "grant"} /\ (c.then = "grant" => c.me \in DOMAIN users)
      /\ c.row \in DOMAIN users /\ PersonOf(c.email) = PersonAt(users, c.row) /\ DOMAIN c = Fields
      /\ CallOK(c, users, keys)
  BY <1>0, AtRow
<1>2. Becomes(a, d) /\ UNCHANGED <<clerk, users, keys, active, revoked>> /\ access' \subseteq access
  BY DEF DropOld
<1>3. /\ d.at = "repoint" /\ d.id = c.id /\ d.email = c.email /\ d.then = c.then /\ d.me = c.me /\ d.row = c.row
      /\ d.keys = c.keys /\ DOMAIN d = Fields
  BY <1>1 DEF Fields
<1>4. \A k \in c.keys : k \in DOMAIN keys /\ keys[k].user = c.row
  BY <1>0, <1>1 DEF CallOK, ResolvingOK
<1> HIDE DEF c, d
<1>5. CallOK(d, users, keys)
  BY <1>1, <1>3, <1>4 DEF CallOK, ResolvingOK, SyncingOK, GrantingOK, OwningOK, Resolving, Syncing, ForOwn, Retiring, Located
<1>6. QED
  BY <1>2, <1>5, FewerRows, OneCall

(* The rows of the old address become rows of the new one, and none was    *)
(* there.                                                                  *)
LEMMA RepointStep ==
  ASSUME Inv, NEW a \in Callers, Repoint(a)
  PROVE  Inv'
<1> DEFINE c == call[a]
           moved == OwnRows(c, c.keys \ c.due)
           new(x) == [x EXCEPT !.email = c.email]
<1>0. c.at = "repoint" /\ c.at \in Resolving \ {"byid", "adoptable", "user"}
  BY DEF Repoint, At, Resolving
<1>1. /\ c.email \in Addresses /\ c.row \in DOMAIN users /\ PersonOf(c.email) = PersonAt(users, c.row)
      /\ CallOK(Resolved(c, c.row), users, keys) /\ CallOK(c, users, keys)
  BY <1>0, AtRow
<1>2. UNCHANGED <<clerk, users, keys, active, revoked>>
  BY DEF Repoint
<1>3. CASE \E x \in moved : Has(x.key, c.email)
  <2>1. Becomes(a, Idle) /\ UNCHANGED access
    BY <1>3 DEF Repoint, Ends
  <2>2. QED
    BY <1>2, <2>1, IdleOK, FewerRows, OneCall
<1>4. CASE ~\E x \in moved : Has(x.key, c.email)
  <2>1. access' = (access \ moved) \cup {new(x) : x \in moved} /\ Becomes(a, Resolved(c, c.row))
    BY <1>4 DEF Repoint
  <2>2. \A k \in c.keys : k \in DOMAIN keys /\ keys[k].user = c.row
    BY <1>0, <1>1 DEF CallOK, ResolvingOK
  <2>3. ASSUME NEW x \in moved
        PROVE  /\ x \in access /\ x.email = c.old /\ x.by = Own /\ x.key \in DOMAIN keys /\ keys[x.key].user = c.row
               /\ x = Grants(x.key, c.old, Own) /\ new(x) = Grants(x.key, c.email, Own)
    <3>1. x \in access /\ x.email = c.old /\ x.by = Own /\ x.key \in c.keys
      BY DEF OwnRows
    <3>2. x = Grants(x.key, c.old, Own)
      BY <3>1 DEF Inv, Holds, AccessOK
    <3>3. [Grants(x.key, c.old, Own) EXCEPT !.email = c.email] = Grants(x.key, c.email, Own)
      BY DEF Grants
    <3>4. QED
      BY <2>2, <3>1, <3>2, <3>3
  <2>4. \A y \in access : ~(\E x \in moved : y.key = x.key /\ y.email = c.email)
    BY <1>4, <2>3 DEF Has
  <2>5. access' = (access \ moved) \cup {Grants(x.key, c.email, Own) : x \in moved}
    <3>1. \A x \in moved : new(x) = Grants(x.key, c.email, Own)
      BY <2>3
    <3> HIDE DEF new, moved, c
    <3>2. {new(x) : x \in moved} = {Grants(x.key, c.email, Own) : x \in moved}
      BY <3>1
    <3>3. QED
      BY <2>1, <3>2
  <2>6. \A k : Grants(k, c.email, Own).key = k /\ Grants(k, c.email, Own).email = c.email /\ Grants(k, c.email, Own).by = Own
    BY DEF Grants
  <2>7. \A y \in access : AccessOK(y)
    BY DEF Inv, Holds
  <2> HIDE DEF moved, c
  <2>8. ASSUME NEW x \in moved
        PROVE  AccessOK(Grants(x.key, c.email, Own))
    BY <1>1, <2>3, <2>6 DEF AccessOK
  <2>9. \A y \in access' : AccessOK(y)
    BY <2>5, <2>7, <2>8
  <2>10. \A y, z \in access' : y.key = z.key /\ y.email = z.email => y = z
    <3> SUFFICES ASSUME NEW y \in access', NEW z \in access', y.key = z.key, y.email = z.email
                 PROVE  y = z
      OBVIOUS
    <3>1. CASE y \in access /\ z \in access
      BY <3>1 DEF Inv, Holds, TypeOK
    <3>2. CASE y \notin access /\ z \notin access
      BY <2>5, <2>6, <3>2
    <3>3. CASE (y \in access /\ z \notin access) \/ (y \notin access /\ z \in access)
      BY <2>4, <2>5, <2>6, <3>3
    <3>4. QED
      BY <3>1, <3>2, <3>3
  <2>11. Holds' /\ Grows(users, keys, users', keys')
    BY <1>2, <2>9, <2>10, AccessChange
  <2>12. QED
    BY <1>1, <1>2, <2>1, <2>11, OneCall DEF c
<1>5. QED
  BY <1>3, <1>4

LEMMA LiveRowsKnown ==
  ASSUME Inv, NEW e, LiveRows(e) # {}
  PROVE  Max(LiveRows(e)) \in LiveRows(e)
BY RowsKnown, MinMaxOfRows DEF LiveRows

LEMMA FindAdoptableStep ==
  ASSUME Inv, NEW a \in Callers, FindAdoptable(a)
  PROVE  Inv'
<1> DEFINE c == call[a]
           r == Max(LiveRows(c.email))
           d1 == [c EXCEPT !.at = "user"]
           d2 == [c EXCEPT !.at = "adopt", !.row = r]
<1>1. c.at = "adoptable" /\ CallOK(c, users, keys) /\ DOMAIN c = Fields /\ UNCHANGED <<clerk, tables>>
  BY AtCall DEF FindAdoptable, At
<1>2. /\ c.id \in Ids /\ c.email \in Addresses /\ PersonOf(c.email) = PersonOf(c.id)
      /\ c.then \in {"done", "ensure", "grant"} /\ (c.then = "grant" => c.me \in DOMAIN users)
  BY <1>1 DEF CallOK, ResolvingOK, Resolving
<1>3. CASE LiveRows(c.email) = {}
  <2>1. Becomes(a, d1)
    BY <1>3 DEF FindAdoptable
  <2>2. d1.at = "user" /\ d1.id = c.id /\ d1.email = c.email /\ d1.then = c.then /\ d1.me = c.me /\ DOMAIN d1 = Fields
    BY <1>1 DEF Fields
  <2> HIDE DEF d1, c
  <2>3. CallOK(d1, users, keys)
    BY <1>2, <2>2 DEF CallOK, ResolvingOK, SyncingOK, GrantingOK, OwningOK, Resolving, Syncing, ForOwn, Retiring
  <2>4. QED
    BY <1>1, <2>1, <2>3, Moves
<1>4. CASE LiveRows(c.email) # {}
  <2>1. r \in DOMAIN users /\ users[r].email = c.email
    BY <1>4, LiveRowsKnown DEF LiveRows
  <2>2. PersonOf(c.email) = PersonAt(users, r)
    BY <2>1, RowsKnown
  <2>3. Becomes(a, d2)
    BY <1>4 DEF FindAdoptable
  <2> HIDE DEF r
  <2>4. /\ d2.at = "adopt" /\ d2.id = c.id /\ d2.email = c.email /\ d2.then = c.then /\ d2.me = c.me /\ d2.row = r
        /\ DOMAIN d2 = Fields
    BY <1>1 DEF Fields
  <2> HIDE DEF d2, c
  <2>5. CallOK(d2, users, keys)
    BY <1>2, <2>1, <2>2, <2>4 DEF CallOK, ResolvingOK, SyncingOK, GrantingOK, OwningOK, Resolving, Syncing, ForOwn, Retiring, Located
  <2>6. QED
    BY <1>1, <2>3, <2>5, Moves
<1>5. QED
  BY <1>3, <1>4

LEMMA AdoptStep ==
  ASSUME Inv, NEW a \in Callers, Adopt(a)
  PROVE  Inv'
<1> DEFINE c == call[a]
           q == [users[c.row] EXCEPT !.clerk = c.id]
<1>0. c.at = "adopt" /\ c.at \in Resolving \ {"byid", "adoptable", "user"}
  BY DEF Adopt, At, Resolving
<1>1. /\ c.id \in Ids /\ c.email \in Addresses /\ PersonOf(c.email) = PersonOf(c.id)
      /\ c.row \in DOMAIN users /\ PersonOf(c.email) = PersonAt(users, c.row) /\ DOMAIN c = Fields
      /\ users[c.row] \in RowRecord /\ CallOK(Resolved(c, c.row), users, keys)
  BY <1>0, AtRow
<1>2. UNCHANGED <<clerk, keys, access, active, revoked>>
  BY DEF Adopt
<1>3. CASE ById(c.id) \ {c.row} # {}
  <2>1. Becomes(a, Idle) /\ UNCHANGED users
    BY <1>3 DEF Adopt, Ends
  <2>2. QED
    BY <1>2, <2>1, IdleOK, Moves DEF tables
<1>4. CASE ById(c.id) \ {c.row} = {}
  <2>1. users' = [users EXCEPT ![c.row] = q] /\ Becomes(a, Resolved(c, c.row))
    <3>1. users' = [users EXCEPT ![c.row].clerk = c.id] /\ Becomes(a, Resolved(c, c.row))
      BY <1>4 DEF Adopt
    <3>2. QED
      BY <3>1
  <2>2. q \in RowRecord /\ q.email = users[c.row].email /\ q.clerk = c.id
    BY <1>1 DEF RowRecord
  <2>3. \A s \in DOMAIN users \ {c.row} : users[s].clerk # q.clerk
    BY <1>4, <2>2 DEF ById
  <2>4. PersonOf(q.email) = PersonOf(q.clerk) /\ PersonOf(q.clerk) = PersonAt(users, c.row)
    BY <1>1, <2>2, RowsKnown
  <2> HIDE DEF q, c
  <2>5. Holds' /\ Grows(users, keys, users', keys')
    BY <1>1, <1>2, <2>1, <2>2, <2>3, <2>4, RowWritten
  <2>6. CallOK(Resolved(c, c.row), users', keys')
    BY <1>1, <2>5, CallStays, Zenon
  <2>7. QED
    BY <2>1, <2>5, <2>6, OneCall
<1>5. QED
  BY <1>3, <1>4

LEMMA InsertUserStep ==
  ASSUME Inv, NEW a \in Callers, InsertUser(a)
  PROVE  Inv'
<1> DEFINE c == call[a]
           q == Row(c.id, c.email)
           d == [c EXCEPT !.at = "firstkey", !.row = Len(users) + 1]
<1>1. c.at = "user" /\ CallOK(c, users, keys) /\ DOMAIN c = Fields /\ UNCHANGED <<clerk, keys, access, active, revoked>>
  BY AtCall DEF InsertUser, At
<1>2. /\ c.id \in Ids /\ c.email \in Addresses /\ PersonOf(c.email) = PersonOf(c.id)
      /\ c.then \in {"done", "ensure", "grant"} /\ (c.then = "grant" => c.me \in DOMAIN users)
  BY <1>1 DEF CallOK, ResolvingOK, Resolving
<1>3. CASE ById(c.id) # {}
  <2>1. Becomes(a, Idle) /\ UNCHANGED users
    BY <1>3 DEF InsertUser, Ends
  <2>2. QED
    BY <1>1, <2>1, IdleOK, Moves DEF tables
<1>4. CASE ById(c.id) = {}
  <2>1. users' = Append(users, q) /\ Becomes(a, d)
    BY <1>4 DEF InsertUser
  <2>2. q \in RowRecord /\ q.email = c.email /\ q.clerk = c.id
    BY <1>2 DEF Row, RowRecord
  <2>3. \A s \in DOMAIN users : users[s].clerk # c.id
    BY <1>4 DEF ById
  <2>4. /\ d.at = "firstkey" /\ d.id = c.id /\ d.email = c.email /\ d.then = c.then /\ d.me = c.me
        /\ d.row = Len(users) + 1 /\ DOMAIN d = Fields
    BY <1>1 DEF Fields
  <2> HIDE DEF q, c, d
  <2>5. users \in Seq(RowRecord) /\ Len(users) \in Nat /\ DOMAIN users = 1..Len(users)
    BY RowsKnown
  <2>6. /\ users' \in Seq(RowRecord) /\ DOMAIN users' = DOMAIN users \cup {Len(users) + 1}
        /\ users'[Len(users) + 1] = q /\ \A s \in DOMAIN users : users'[s] = users[s]
    BY <2>1, <2>2, <2>5
  <2>7. \A s \in DOMAIN users : PersonAt(users', s) = PersonAt(users, s)
    BY <2>6 DEF PersonAt
  <2>8. \A s \in DOMAIN users' : PersonOf(users'[s].email) = PersonAt(users', s)
    BY <1>2, <2>2, <2>6, RowsKnown DEF PersonAt
  <2>9. \A s, t \in DOMAIN users' : users'[s].clerk = users'[t].clerk => s = t
    BY <2>2, <2>3, <2>6 DEF Inv, Holds, TypeOK
  <2>10. Holds' /\ Grows(users, keys, users', keys')
    BY <1>1, <2>6, <2>7, <2>8, <2>9, UsersChange
  <2>11. d.row \in DOMAIN users' /\ PersonOf(d.email) = PersonAt(users', d.row) /\ DOMAIN users \subseteq DOMAIN users'
    BY <1>2, <2>2, <2>4, <2>6 DEF PersonAt
  <2>12. CallOK(d, users', keys')
    BY <1>2, <2>4, <2>11 DEF CallOK, ResolvingOK, SyncingOK, GrantingOK, OwningOK, Resolving, Syncing, ForOwn, Retiring, Located
  <2>13. QED
    BY <2>1, <2>10, <2>12, OneCall
<1>5. QED
  BY <1>3, <1>4

(* A new profile.                                                          *)
LEMMA OneMoreKey ==
  ASSUME Inv, NEW r \in DOMAIN users, NEW kind \in Kinds, keys' = Append(keys, Key(r, kind)),
         UNCHANGED <<clerk, users, access, active, revoked>>
  PROVE  /\ Holds' /\ Grows(users, keys, users', keys')
         /\ Len(keys) + 1 \in DOMAIN keys' /\ keys'[Len(keys) + 1].user = r
<1>1. keys \in Seq(KeyRecord) /\ Len(keys) \in Nat /\ DOMAIN keys = 1..Len(keys) /\ r \in Nat
  BY RowsKnown
<1>2. Key(r, kind) \in KeyRecord /\ Key(r, kind).user = r
  BY <1>1 DEF Key, KeyRecord
<1>3. /\ keys' \in Seq(KeyRecord) /\ DOMAIN keys' = DOMAIN keys \cup {Len(keys) + 1}
      /\ keys'[Len(keys) + 1] = Key(r, kind) /\ \A k \in DOMAIN keys : keys'[k] = keys[k]
  BY <1>1, <1>2
<1>4. \A k \in DOMAIN keys' : keys'[k].user \in DOMAIN users
  BY <1>2, <1>3, RowsKnown
<1>5. Holds' /\ Grows(users, keys, users', keys')
  BY <1>3, <1>4, KeysChange
<1>6. QED
  BY <1>2, <1>3, <1>5

LEMMA InsertFirstKeyStep ==
  ASSUME Inv, NEW a \in Callers, InsertFirstKey(a)
  PROVE  Inv'
<1> DEFINE c == call[a]
           d == [c EXCEPT !.at = "firstrow", !.key = Len(keys) + 1]
<1>0. c.at = "firstkey" /\ c.at \in Resolving \ {"byid", "adoptable", "user"}
  BY DEF InsertFirstKey, At, Resolving
<1>1. /\ c.id \in Ids /\ c.email \in Addresses /\ PersonOf(c.email) = PersonOf(c.id)
      /\ c.then \in {"done", "ensure", "grant"} /\ (c.then = "grant" => c.me \in DOMAIN users)
      /\ c.row \in DOMAIN users /\ PersonOf(c.email) = PersonAt(users, c.row) /\ DOMAIN c = Fields
  BY <1>0, AtRow
<1>2. /\ Becomes(a, d) /\ keys' = Append(keys, Key(c.row, "default")) /\ UNCHANGED <<clerk, users, access, active, revoked>>
  BY DEF InsertFirstKey
<1>3. /\ d.at = "firstrow" /\ d.id = c.id /\ d.email = c.email /\ d.then = c.then /\ d.me = c.me /\ d.row = c.row
      /\ d.key = Len(keys) + 1 /\ DOMAIN d = Fields
  BY <1>1 DEF Fields
<1> HIDE DEF c, d
<1>4. "default" \in Kinds
  BY DEF Kinds
<1>5. /\ Holds' /\ Grows(users, keys, users', keys')
      /\ Len(keys) + 1 \in DOMAIN keys' /\ keys'[Len(keys) + 1].user = c.row
  BY <1>1, <1>2, <1>4, OneMoreKey
<1>6. CallOK(d, users', keys')
  BY <1>1, <1>2, <1>3, <1>5 DEF CallOK, ResolvingOK, SyncingOK, GrantingOK, OwningOK, Resolving, Syncing, ForOwn, Retiring, Located, KeyOfRow
<1>7. QED
  BY <1>2, <1>5, <1>6, OneCall

LEMMA InsertFirstRowStep ==
  ASSUME Inv, NEW a \in Callers, InsertFirstRow(a)
  PROVE  Inv'
<1> DEFINE c == call[a]
           d == [c EXCEPT !.at = "sync"]
<1>0. c.at = "firstrow" /\ c.at \in Resolving \ {"byid", "adoptable", "user"}
  BY DEF InsertFirstRow, At, Resolving
<1>1. /\ c.id \in Ids /\ c.email \in Addresses /\ PersonOf(c.email) = PersonOf(c.id)
      /\ c.then \in {"done", "ensure", "grant"} /\ (c.then = "grant" => c.me \in DOMAIN users)
      /\ c.row \in DOMAIN users /\ PersonOf(c.email) = PersonAt(users, c.row) /\ DOMAIN c = Fields
      /\ CallOK(c, users, keys)
  BY <1>0, AtRow
<1>2. c.key \in DOMAIN keys /\ keys[c.key].user = c.row
  BY <1>0, <1>1 DEF CallOK, OwningOK, KeyOfRow
<1>3. UNCHANGED <<clerk, users, keys, active, revoked>>
  BY DEF InsertFirstRow
<1>4. CASE Has(c.key, c.email)
  <2>1. Becomes(a, Idle) /\ UNCHANGED access
    BY <1>4 DEF InsertFirstRow, Ends
  <2>2. QED
    BY <1>3, <2>1, IdleOK, Moves DEF tables
<1>5. CASE ~Has(c.key, c.email)
  <2>1. access' = access \cup {Grants(c.key, c.email, Own)} /\ Becomes(a, d)
    BY <1>5 DEF InsertFirstRow
  <2>2. access' = InsertOr(access, c.key, c.email, Own)
    BY <1>5, <2>1 DEF InsertOr
  <2>3. PersonOf(c.email) = PersonAt(users, keys[c.key].user)
    BY <1>1, <1>2
  <2>4. /\ d.at = "sync" /\ d.id = c.id /\ d.email = c.email /\ d.then = c.then /\ d.me = c.me /\ d.row = c.row
        /\ d.rows = c.rows /\ DOMAIN d = Fields
    BY <1>1 DEF Fields
  <2> HIDE DEF c, d
  <2>5. Holds' /\ Grows(users, keys, users', keys')
    BY <1>1, <1>2, <1>3, <2>2, <2>3, OneMoreRow
  <2>6. CallOK(d, users, keys)
    BY <1>1, <2>4 DEF CallOK, ResolvingOK, SyncingOK, GrantingOK, OwningOK, Resolving, Syncing, ForOwn, Retiring, Located
  <2>7. QED
    BY <1>3, <2>1, <2>5, <2>6, OneCall
<1>6. QED
  BY <1>4, <1>5
------------------------------------------------------------------------------
(* The sync of the Default Profiles.                                       *)
LEMMA AtSync ==
  ASSUME Inv, NEW a \in Callers, call[a].at \in Syncing
  PROVE  LET c == call[a]
         IN  /\ c.then \in {"done", "ensure", "grant", "synced"} /\ (c.then # "synced" => Located(c, users))
      /\ (c.then = "grant" => c.me \in DOMAIN users) /\ DOMAIN c = Fields
      /\ (c.at # "sync" => c.rows \subseteq DOMAIN users)
      /\ (c.at = "delegations" => c.key \in DOMAIN keys)
      /\ (c.at = "insert" => \A x \in c.due : /\ x = Grants(x.key, x.email, x.by) /\ x.key \in DOMAIN keys
                                              /\ x.email \in Addresses /\ x.by \in Nat \X Nat)
BY AtCall DEF CallOK, SyncingOK, ResolvingOK

LEMMA SyncedOK ==
  ASSUME NEW U, NEW K, NEW c, DOMAIN c = Fields, c.then \in {"done", "ensure", "grant", "synced"},
         c.then # "synced" => Located(c, U), c.then = "grant" => c.me \in DOMAIN U, c.rows \subseteq DOMAIN U
  PROVE  CallOK(Synced(c), U, K)
<1>1. CASE c.rows # {}
  <2> DEFINE d == [c EXCEPT !.at = "nextrow"]
  <2>1. /\ d.at = "nextrow" /\ d.then = c.then /\ d.row = c.row /\ d.email = c.email /\ d.me = c.me /\ d.rows = c.rows
        /\ DOMAIN d = Fields
    BY DEF Fields
  <2>2. Synced(c) = d
    BY <1>1 DEF Synced
  <2> HIDE DEF d
  <2>3. CallOK(d, U, K)
    BY <2>1 DEF CallOK, ResolvingOK, SyncingOK, GrantingOK, OwningOK, Resolving, Syncing, ForOwn, Retiring, Located
  <2>4. QED
    BY <2>2, <2>3
<1>2. CASE c.rows = {} /\ c.then = "synced"
  BY <1>2, IdleOK DEF Synced
<1>3. CASE c.rows = {} /\ c.then # "synced"
  <2>1. Synced(c) = Resolved(c, c.row)
    BY <1>3 DEF Synced
  <2>2. CallOK(Resolved(c, c.row), U, K)
    BY <1>3, ResolvedOK DEF Located
  <2>3. QED
    BY <2>1, <2>2
<1>4. QED
  BY <1>1, <1>2, <1>3

LEMMA FindRowsStep ==
  ASSUME Inv, NEW a \in Callers, FindRows(a)
  PROVE  Inv'
<1> DEFINE c == call[a]
           rows == LiveRows(c.email)
           d == [c EXCEPT !.rows = rows]
<1>1. c.at = "sync" /\ UNCHANGED <<clerk, tables>> /\ Becomes(a, Synced(d)) /\ c.at \in Syncing
  BY DEF FindRows, At, Syncing
<1>2. /\ c.then \in {"done", "ensure", "grant", "synced"} /\ (c.then # "synced" => Located(c, users))
      /\ (c.then = "grant" => c.me \in DOMAIN users) /\ DOMAIN c = Fields
  BY <1>1, AtSync
<1>3. rows \subseteq DOMAIN users
  BY DEF LiveRows
<1> HIDE DEF rows
<1>4. /\ d.then = c.then /\ d.row = c.row /\ d.email = c.email /\ d.me = c.me /\ d.rows = rows /\ DOMAIN d = Fields
  BY <1>2 DEF Fields
<1> HIDE DEF c, d
<1>5. CallOK(Synced(d), users, keys)
  BY <1>2, <1>3, <1>4, SyncedOK DEF Located
<1>6. QED
  BY <1>1, <1>5, Moves

LEMMA FindDefaultStep ==
  ASSUME Inv, NEW a \in Callers, FindDefault(a)
  PROVE  Inv'
<1> DEFINE c == call[a]
<1>1. c.at = "nextrow" /\ UNCHANGED <<clerk, tables>> /\ c.at \in Syncing
  BY DEF FindDefault, At, Syncing
<1>2. /\ c.then \in {"done", "ensure", "grant", "synced"} /\ (c.then # "synced" => Located(c, users))
      /\ (c.then = "grant" => c.me \in DOMAIN users) /\ DOMAIN c = Fields
      /\ c.rows \subseteq DOMAIN users
  BY <1>1, AtSync
<1>3. PICK r \in c.rows :
        LET d == [c EXCEPT !.rows = @ \ {r}]
        IN  Becomes(a, IF Default(r) = {} THEN Synced(d) ELSE [d EXCEPT !.at = "delegations", !.key = Min(Default(r))])
  BY DEF FindDefault
<1> DEFINE d == [c EXCEPT !.rows = @ \ {r}]
           k == Min(Default(r))
           e == [d EXCEPT !.at = "delegations", !.key = k]
<1>4. Becomes(a, Synced(d)) \/ (Default(r) # {} /\ Becomes(a, e))
  BY <1>3
<1>5. Default(r) # {} => k \in DOMAIN keys
  <2>1. Default(r) \subseteq DOMAIN keys
    BY DEF Default, Profiles
  <2>2. QED
    BY <2>1, RowsKnown, MinMaxOfRows
<1> HIDE DEF k
<1>6. /\ d.then = c.then /\ d.row = c.row /\ d.email = c.email /\ d.me = c.me /\ d.rows \subseteq DOMAIN users
      /\ DOMAIN d = Fields
  BY <1>2 DEF Fields
<1> HIDE DEF c, d
<1>7. /\ e.at = "delegations" /\ e.key = k /\ e.then = c.then /\ e.row = c.row /\ e.email = c.email /\ e.me = c.me
      /\ e.rows = d.rows /\ DOMAIN e = Fields
  BY <1>6 DEF Fields
<1> HIDE DEF e
<1>8. CallOK(Synced(d), users, keys)
  BY <1>2, <1>6, SyncedOK DEF Located
<1>9. Default(r) # {} => CallOK(e, users, keys)
  BY <1>2, <1>5, <1>6, <1>7 DEF CallOK, ResolvingOK, SyncingOK, GrantingOK, OwningOK, Resolving, Syncing, ForOwn, Retiring, Located
<1>10. QED
  BY <1>1, <1>4, <1>8, <1>9, Moves

LEMMA ListDelegationsStep ==
  ASSUME Inv, NEW a \in Callers, ListDelegations(a)
  PROVE  Inv'
<1> DEFINE c == call[a]
           due == {Grants(c.key, users[p[1]].email, p) : p \in Newest(ToAddress(c.email))}
           d == [c EXCEPT !.at = "insert", !.due = due]
<1>1. /\ c.at = "delegations" /\ UNCHANGED <<clerk, tables>> /\ c.at \in Syncing
      /\ (Becomes(a, Synced(c)) \/ Becomes(a, d))
  BY DEF ListDelegations, At, Syncing
<1>2. /\ c.then \in {"done", "ensure", "grant", "synced"} /\ (c.then # "synced" => Located(c, users))
      /\ (c.then = "grant" => c.me \in DOMAIN users) /\ DOMAIN c = Fields
      /\ c.rows \subseteq DOMAIN users /\ c.key \in DOMAIN keys
  BY <1>1, AtSync
<1>3. \A x \in due : /\ x = Grants(x.key, x.email, x.by) /\ x.key \in DOMAIN keys
                     /\ x.email \in Addresses /\ x.by \in Nat \X Nat
  <2> SUFFICES ASSUME NEW p \in Newest(ToAddress(c.email))
               PROVE  LET x == Grants(c.key, users[p[1]].email, p)
                      IN  /\ x = Grants(x.key, x.email, x.by) /\ x.key \in DOMAIN keys
                          /\ x.email \in Addresses /\ x.by \in Nat \X Nat
    OBVIOUS
  <2>1. p \in active /\ p \in (DOMAIN users) \X (DOMAIN users)
    BY DEF Newest, ToAddress, Inv, Holds, PairsOK
  <2>2. p[1] \in DOMAIN users /\ p \in Nat \X Nat
    <3>1. \A r \in DOMAIN users : r \in Nat
      BY RowsKnown
    <3>2. QED
      BY <2>1, <3>1
  <2>3. users[p[1]].email \in Addresses
    BY <2>2, RowsKnown DEF RowRecord
  <2>4. QED
    BY <1>2, <2>2, <2>3 DEF Grants
<1> HIDE DEF due
<1>4. /\ d.at = "insert" /\ d.due = due /\ d.then = c.then /\ d.row = c.row /\ d.email = c.email /\ d.me = c.me
      /\ d.rows = c.rows /\ DOMAIN d = Fields
  BY <1>2 DEF Fields
<1> HIDE DEF c, d
<1>5. CallOK(Synced(c), users, keys)
  BY <1>2, SyncedOK
<1>6. CallOK(d, users, keys)
  BY <1>2, <1>3, <1>4 DEF CallOK, ResolvingOK, SyncingOK, GrantingOK, OwningOK, Resolving, Syncing, ForOwn, Retiring, Located
<1>7. QED
  BY <1>1, <1>5, <1>6, Moves

LEMMA InsertDelegatedStep ==
  ASSUME Inv, NEW a \in Callers, InsertDelegated(a)
  PROVE  Inv'
<1> DEFINE c == call[a]
<1>1. c.at = "insert" /\ UNCHANGED <<clerk, users, keys, active, revoked>> /\ c.at \in Syncing
  BY DEF InsertDelegated, At, Syncing
<1>2. /\ c.then \in {"done", "ensure", "grant", "synced"} /\ (c.then # "synced" => Located(c, users))
      /\ (c.then = "grant" => c.me \in DOMAIN users) /\ DOMAIN c = Fields
      /\ c.rows \subseteq DOMAIN users
      /\ \A x \in c.due : /\ x = Grants(x.key, x.email, x.by) /\ x.key \in DOMAIN keys
                          /\ x.email \in Addresses /\ x.by \in Nat \X Nat
  BY <1>1, AtSync
<1>3. PICK x \in c.due :
        LET d == [c EXCEPT !.due = @ \ {x}]
        IN  /\ access' = InsertOr(access, x.key, x.email, x.by)
            /\ Becomes(a, IF d.due = {} THEN Synced(d) ELSE d)
  BY DEF InsertDelegated
<1> DEFINE d == [c EXCEPT !.due = @ \ {x}]
<1>4. access' = InsertOr(access, x.key, x.email, x.by) /\ (Becomes(a, Synced(d)) \/ Becomes(a, d))
  BY <1>3
<1>5. /\ d.at = "insert" /\ d.due \subseteq c.due /\ d.then = c.then /\ d.row = c.row /\ d.email = c.email /\ d.me = c.me
      /\ d.rows = c.rows /\ DOMAIN d = Fields
  BY <1>1, <1>2 DEF Fields
<1> HIDE DEF c, d
<1>6. x.key \in DOMAIN keys /\ x.email \in Addresses /\ x.by # Own
  BY <1>2, OwnIsNoPair
<1>7. Holds' /\ Grows(users, keys, users', keys')
  BY <1>1, <1>4, <1>6, OneMoreRow
<1>8. CallOK(Synced(d), users, keys)
  BY <1>2, <1>5, SyncedOK DEF Located
<1>9. CallOK(d, users, keys)
  BY <1>2, <1>5 DEF CallOK, ResolvingOK, SyncingOK, GrantingOK, OwningOK, Resolving, Syncing, ForOwn, Retiring, Located
<1>10. QED
  BY <1>1, <1>4, <1>7, <1>8, <1>9, OneCall
------------------------------------------------------------------------------
(* An agent that connects.                                                 *)
LEMMA AtOwn ==
  ASSUME Inv, NEW a \in Callers, call[a].at \in ForOwn
  PROVE  LET c == call[a]
         IN  /\ c.row \in DOMAIN users /\ c.email \in Addresses /\ PersonOf(c.email) = PersonAt(users, c.row)
             /\ c.rows = {} /\ (c.then = "grant" => c.me \in DOMAIN users) /\ DOMAIN c = Fields
             /\ (c.at \in {"flag", "own", "attach"} => c.key \in DOMAIN keys /\ keys[c.key].user = c.row)
             /\ (c.at = "mailbox" =>
                   IF c.key = 0 THEN c.then \in Kinds ELSE c.key \in DOMAIN keys /\ keys[c.key].user = c.row)
             /\ (c.at = "profile" => c.then \in Kinds)
             /\ (c.at \in {"mailbox", "profile", "attach"} => c.old \in Addresses)
             /\ (c.at \in {"profile", "attach"} => \A g \in c.due : g \in Nat \X Nat \/ (g = Own /\ c.old = c.email))
BY AtCall DEF CallOK, OwningOK, ResolvingOK, Located, KeyOfRow

LEMMA ProfilesKnown ==
  ASSUME Inv, NEW r, NEW kinds, Profiles(r, kinds) # {}
  PROVE  LET k == Min(Profiles(r, kinds)) IN k \in DOMAIN keys /\ keys[k].user = r
<1>1. Min(Profiles(r, kinds)) \in Profiles(r, kinds)
  <2>1. Profiles(r, kinds) \subseteq DOMAIN keys
    BY DEF Profiles
  <2>2. QED
    BY <2>1, RowsKnown, MinMaxOfRows
<1>2. QED
  BY <1>1 DEF Profiles

LEMMA EnsureDefaultStep ==
  ASSUME Inv, NEW a \in Callers, EnsureDefault(a)
  PROVE  Inv'
<1> DEFINE c == call[a]
           k == Min(Profiles(c.row, {"default"}))
           d1 == [c EXCEPT !.at = "named"]
           d2 == [c EXCEPT !.at = "own", !.key = k]
<1>1. /\ c.at = "default" /\ UNCHANGED <<clerk, tables>> /\ c.at \in ForOwn
      /\ (Becomes(a, d1) \/ (Profiles(c.row, {"default"}) # {} /\ Becomes(a, d2)))
  BY DEF EnsureDefault, At, ForOwn, Default
<1>2. /\ c.row \in DOMAIN users /\ c.email \in Addresses /\ PersonOf(c.email) = PersonAt(users, c.row)
      /\ c.rows = {} /\ (c.then = "grant" => c.me \in DOMAIN users) /\ DOMAIN c = Fields
  BY <1>1, AtOwn
<1>3. Profiles(c.row, {"default"}) # {} => k \in DOMAIN keys /\ keys[k].user = c.row
  BY ProfilesKnown
<1> HIDE DEF k
<1>4. /\ d1.at = "named" /\ d1.row = c.row /\ d1.email = c.email /\ d1.then = c.then /\ d1.me = c.me /\ d1.rows = c.rows
      /\ DOMAIN d1 = Fields
  BY <1>2 DEF Fields
<1>5. /\ d2.at = "own" /\ d2.row = c.row /\ d2.email = c.email /\ d2.then = c.then /\ d2.me = c.me /\ d2.rows = c.rows
      /\ d2.key = k /\ DOMAIN d2 = Fields
  BY <1>2 DEF Fields
<1> HIDE DEF c, d1, d2
<1>6. CallOK(d1, users, keys)
  BY <1>2, <1>4 DEF CallOK, ResolvingOK, SyncingOK, GrantingOK, OwningOK, Resolving, Syncing, ForOwn, Retiring, Located
<1>7. Profiles(c.row, {"default"}) # {} => CallOK(d2, users, keys)
  BY <1>2, <1>3, <1>5 DEF CallOK, ResolvingOK, SyncingOK, GrantingOK, OwningOK, Resolving, Syncing, ForOwn, Retiring, Located, KeyOfRow
<1>8. QED
  BY <1>1, <1>6, <1>7, Moves

LEMMA FindNamedStep ==
  ASSUME Inv, NEW a \in Callers, FindNamed(a)
  PROVE  Inv'
<1> DEFINE c == call[a]
           k == Min(Profiles(c.row, {"default", "named"}))
           d1 == [c EXCEPT !.at = "newkey"]
           d2 == [c EXCEPT !.at = "flag", !.key = k]
<1>1. /\ c.at = "named" /\ UNCHANGED <<clerk, tables>> /\ c.at \in ForOwn
      /\ (Becomes(a, d1) \/ (Profiles(c.row, {"default", "named"}) # {} /\ Becomes(a, d2)))
  BY DEF FindNamed, At, ForOwn
<1>2. /\ c.row \in DOMAIN users /\ c.email \in Addresses /\ PersonOf(c.email) = PersonAt(users, c.row)
      /\ c.rows = {} /\ (c.then = "grant" => c.me \in DOMAIN users) /\ DOMAIN c = Fields
  BY <1>1, AtOwn
<1>3. Profiles(c.row, {"default", "named"}) # {} => k \in DOMAIN keys /\ keys[k].user = c.row
  BY ProfilesKnown
<1> HIDE DEF k
<1>4. /\ d1.at = "newkey" /\ d1.row = c.row /\ d1.email = c.email /\ d1.then = c.then /\ d1.me = c.me /\ d1.rows = c.rows
      /\ DOMAIN d1 = Fields
  BY <1>2 DEF Fields
<1>5. /\ d2.at = "flag" /\ d2.row = c.row /\ d2.email = c.email /\ d2.then = c.then /\ d2.me = c.me /\ d2.rows = c.rows
      /\ d2.key = k /\ DOMAIN d2 = Fields
  BY <1>2 DEF Fields
<1> HIDE DEF c, d1, d2
<1>6. CallOK(d1, users, keys)
  BY <1>2, <1>4 DEF CallOK, ResolvingOK, SyncingOK, GrantingOK, OwningOK, Resolving, Syncing, ForOwn, Retiring, Located
<1>7. Profiles(c.row, {"default", "named"}) # {} => CallOK(d2, users, keys)
  BY <1>2, <1>3, <1>5 DEF CallOK, ResolvingOK, SyncingOK, GrantingOK, OwningOK, Resolving, Syncing, ForOwn, Retiring, Located, KeyOfRow
<1>8. QED
  BY <1>1, <1>6, <1>7, Moves

(* One profile is written.                                                 *)
LEMMA KeyWritten ==
  ASSUME Inv, NEW k \in DOMAIN keys, NEW q \in KeyRecord, q.user = keys[k].user, keys' = [keys EXCEPT ![k] = q],
         UNCHANGED <<clerk, users, access, active, revoked>>
  PROVE  Holds' /\ Grows(users, keys, users', keys')
<1>1. keys \in Seq(KeyRecord) /\ Len(keys) \in Nat /\ DOMAIN keys = 1..Len(keys)
  BY RowsKnown
<1>2. /\ keys' \in Seq(KeyRecord) /\ DOMAIN keys' = DOMAIN keys
      /\ keys'[k] = q /\ \A j \in DOMAIN keys \ {k} : keys'[j] = keys[j]
  BY <1>1
<1>3. \A j \in DOMAIN keys : keys'[j].user = keys[j].user
  BY <1>2
<1>4. \A j \in DOMAIN keys' : keys'[j].user \in DOMAIN users
  BY <1>2, <1>3, RowsKnown
<1>5. QED
  BY <1>2, <1>3, <1>4, KeysChange

LEMMA FlagNamedStep ==
  ASSUME Inv, NEW a \in Callers, FlagNamed(a)
  PROVE  Inv'
<1> DEFINE c == call[a]
           q == [keys[c.key] EXCEPT !.kind = "default"]
           d == [c EXCEPT !.at = "own"]
<1>1. c.at = "flag" /\ c.at \in ForOwn /\ UNCHANGED <<clerk, users, access, active, revoked>> /\ Becomes(a, d)
  BY DEF FlagNamed, At, ForOwn
<1>2. /\ c.row \in DOMAIN users /\ c.email \in Addresses /\ PersonOf(c.email) = PersonAt(users, c.row)
      /\ c.rows = {} /\ (c.then = "grant" => c.me \in DOMAIN users) /\ DOMAIN c = Fields
      /\ c.key \in DOMAIN keys /\ keys[c.key].user = c.row
  BY <1>1, AtOwn
<1>3. keys' = [keys EXCEPT ![c.key] = q]
  <2>1. keys' = [keys EXCEPT ![c.key].kind = "default"]
    BY DEF FlagNamed
  <2>2. QED
    BY <2>1
<1>4. q \in KeyRecord /\ q.user = keys[c.key].user
  BY <1>2, RowsKnown DEF KeyRecord, Kinds
<1>5. /\ d.at = "own" /\ d.row = c.row /\ d.email = c.email /\ d.then = c.then /\ d.me = c.me /\ d.rows = c.rows
      /\ d.key = c.key /\ DOMAIN d = Fields
  BY <1>2 DEF Fields
<1> HIDE DEF c, d, q
<1>6. Holds' /\ Grows(users, keys, users', keys')
  BY <1>1, <1>2, <1>3, <1>4, KeyWritten
<1>7. CallOK(d, users, keys)
  BY <1>2, <1>5 DEF CallOK, ResolvingOK, SyncingOK, GrantingOK, OwningOK, Resolving, Syncing, ForOwn, Retiring, Located, KeyOfRow
<1>8. CallOK(d, users', keys')
  BY <1>6, <1>7, CallStays, Zenon
<1>9. QED
  BY <1>1, <1>6, <1>8, OneCall

LEMMA InsertDefaultStep ==
  ASSUME Inv, NEW a \in Callers, InsertDefault(a)
  PROVE  Inv'
<1> DEFINE c == call[a]
           d == [c EXCEPT !.at = "own", !.key = Len(keys) + 1]
<1>1. /\ c.at = "newkey" /\ c.at \in ForOwn /\ UNCHANGED <<clerk, users, access, active, revoked>> /\ Becomes(a, d)
      /\ keys' = Append(keys, Key(c.row, "default"))
  BY DEF InsertDefault, At, ForOwn
<1>2. /\ c.row \in DOMAIN users /\ c.email \in Addresses /\ PersonOf(c.email) = PersonAt(users, c.row)
      /\ c.rows = {} /\ (c.then = "grant" => c.me \in DOMAIN users) /\ DOMAIN c = Fields
  BY <1>1, AtOwn
<1>3. /\ d.at = "own" /\ d.row = c.row /\ d.email = c.email /\ d.then = c.then /\ d.me = c.me /\ d.rows = c.rows
      /\ d.key = Len(keys) + 1 /\ DOMAIN d = Fields
  BY <1>2 DEF Fields
<1>4. "default" \in Kinds
  BY DEF Kinds
<1> HIDE DEF c, d
<1>5. /\ Holds' /\ Grows(users, keys, users', keys')
      /\ Len(keys) + 1 \in DOMAIN keys' /\ keys'[Len(keys) + 1].user = c.row
  BY <1>1, <1>2, <1>4, OneMoreKey
<1>6. CallOK(d, users', keys')
  BY <1>1, <1>2, <1>3, <1>5 DEF CallOK, ResolvingOK, SyncingOK, GrantingOK, OwningOK, Resolving, Syncing, ForOwn, Retiring, Located, KeyOfRow
<1>7. QED
  BY <1>1, <1>5, <1>6, OneCall

LEMMA EnsureOwnRowStep ==
  ASSUME Inv, NEW a \in Callers, EnsureOwnRow(a)
  PROVE  Inv'
<1> DEFINE c == call[a]
           d == [c EXCEPT !.at = "delegations", !.then = "synced"]
<1>1. /\ c.at = "own" /\ c.at \in ForOwn /\ UNCHANGED <<clerk, users, keys, active, revoked>> /\ Becomes(a, d)
      /\ access' = InsertOr(access, c.key, c.email, Own)
  BY DEF EnsureOwnRow, At, ForOwn
<1>2. /\ c.row \in DOMAIN users /\ c.email \in Addresses /\ PersonOf(c.email) = PersonAt(users, c.row)
      /\ c.rows = {} /\ (c.then = "grant" => c.me \in DOMAIN users) /\ DOMAIN c = Fields
      /\ c.key \in DOMAIN keys /\ keys[c.key].user = c.row
  BY <1>1, AtOwn
<1>3. /\ d.at = "delegations" /\ d.row = c.row /\ d.email = c.email /\ d.then = "synced" /\ d.me = c.me /\ d.rows = c.rows
      /\ d.key = c.key /\ DOMAIN d = Fields
  BY <1>2 DEF Fields
<1> HIDE DEF c, d
<1>4. Holds' /\ Grows(users, keys, users', keys')
  BY <1>1, <1>2, OneMoreRow
<1>5. CallOK(d, users, keys)
  BY <1>2, <1>3 DEF CallOK, ResolvingOK, SyncingOK, GrantingOK, OwningOK, Resolving, Syncing, ForOwn, Retiring, Located
<1>6. QED
  BY <1>1, <1>4, <1>5, OneCall
------------------------------------------------------------------------------
(* Grants, and mailboxes put on profiles.                                  *)
LEMMA FindDelegateStep ==
  ASSUME Inv, NEW a \in Callers, FindDelegate(a)
  PROVE  Inv'
<1> DEFINE c == call[a]
           r == Max(LiveRows(c.email))
           d == [c EXCEPT !.at = "ask"]
<1>1. c.at = "delegate" /\ CallOK(c, users, keys) /\ DOMAIN c = Fields /\ UNCHANGED <<clerk, tables>>
  BY AtCall DEF FindDelegate, At
<1>2. c.then = "grant" /\ c.me \in DOMAIN users
  BY <1>1 DEF CallOK, ResolvingOK, GrantingOK
<1>3. Becomes(a, d) \/ (LiveRows(c.email) # {} /\ Becomes(a, Resolved(c, r)))
  BY DEF FindDelegate
<1>4. d.at = "ask" /\ d.then = c.then /\ d.me = c.me /\ DOMAIN d = Fields
  BY <1>1 DEF Fields
<1>5. LiveRows(c.email) # {} => r \in DOMAIN users /\ users[r].email = c.email
  BY LiveRowsKnown DEF LiveRows
<1>6. LiveRows(c.email) # {} => c.email \in Addresses /\ PersonOf(c.email) = PersonAt(users, r)
  BY <1>5, RowsKnown DEF RowRecord
<1> HIDE DEF c, d, r
<1>7. CallOK(d, users, keys)
  BY <1>2, <1>4 DEF CallOK, ResolvingOK, SyncingOK, GrantingOK, OwningOK, Resolving, Syncing, ForOwn, Retiring
<1>8. LiveRows(c.email) # {} => CallOK(Resolved(c, r), users, keys)
  BY <1>2, <1>5, <1>6, ResolvedOK
<1>9. QED
  BY <1>1, <1>3, <1>7, <1>8, Moves

LEMMA LiveIdsKnown ==
  ASSUME Inv, NEW p, NEW id \in LiveIds(p)
  PROVE  id \in Ids /\ PersonOf(id) = p /\ clerk[id].status = "live" /\ clerk[id].email \in Addresses /\ PersonOf(clerk[id].email) = p
BY DEF LiveIds, Inv, Holds, ClerkOK

LEMMA AskClerkStep ==
  ASSUME Inv, NEW a \in Callers, AskClerk(a)
  PROVE  Inv'
<1> DEFINE c == call[a]
<1>1. c.at = "ask" /\ CallOK(c, users, keys) /\ DOMAIN c = Fields /\ UNCHANGED <<clerk, tables>>
  BY AtCall DEF AskClerk, At
<1>2. c.then = "grant" /\ c.me \in DOMAIN users
  BY <1>1 DEF CallOK, ResolvingOK, GrantingOK
<1>3. CASE Becomes(a, Idle)
  BY <1>1, <1>3, IdleOK, Moves
<1>4. ASSUME NEW id \in LiveIds(PersonOf(c.email)), Becomes(a, [c EXCEPT !.at = "byid", !.id = id, !.email = clerk[id].email])
      PROVE  Inv'
  <2> DEFINE d == [c EXCEPT !.at = "byid", !.id = id, !.email = clerk[id].email]
  <2>1. d.at = "byid" /\ d.id = id /\ d.email = clerk[id].email /\ d.then = "grant" /\ d.me = c.me /\ DOMAIN d = Fields
    BY <1>1, <1>2 DEF Fields
  <2>2. id \in Ids /\ clerk[id].email \in Addresses /\ PersonOf(clerk[id].email) = PersonOf(id)
    BY LiveIdsKnown
  <2>3. Becomes(a, d)
    BY <1>4
  <2> HIDE DEF c, d
  <2>4. CallOK(d, users, keys)
    BY <1>2, <2>1, <2>2 DEF CallOK, ResolvingOK, SyncingOK, GrantingOK, OwningOK, Resolving, Syncing, ForOwn, Retiring
  <2>5. QED
    BY <1>1, <2>3, <2>4, Moves
<1>5. QED
  <2>1. Becomes(a, Idle) \/ \E id \in LiveIds(PersonOf(c.email)) :
                              Becomes(a, [c EXCEPT !.at = "byid", !.id = id, !.email = clerk[id].email])
    BY DEF AskClerk, Ends
  <2>2. QED
    BY <1>3, <1>4, <2>1

LEMMA FindGrantStep ==
  ASSUME Inv, NEW a \in Callers, FindGrant(a)
  PROVE  Inv'
<1> DEFINE c == call[a]
           at == IF <<c.me, c.row>> \in active THEN "sync" ELSE "grant"
           d == [c EXCEPT !.at = at, !.then = "synced"]
<1>1. /\ c.at = "existing" /\ CallOK(c, users, keys) /\ DOMAIN c = Fields /\ UNCHANGED <<clerk, tables>> /\ Becomes(a, d)
  BY AtCall DEF FindGrant, At
<1>2. c.me \in DOMAIN users /\ c.row \in DOMAIN users
  BY <1>1 DEF CallOK, GrantingOK
<1>3. at \in {"sync", "grant"}
  OBVIOUS
<1> HIDE DEF at
<1>4. d.at = at /\ d.then = "synced" /\ d.me = c.me /\ d.row = c.row /\ DOMAIN d = Fields
  BY <1>1 DEF Fields
<1> HIDE DEF c, d
<1>5. CallOK(d, users, keys)
  BY <1>2, <1>3, <1>4 DEF CallOK, ResolvingOK, SyncingOK, GrantingOK, OwningOK, Resolving, Syncing, ForOwn, Retiring
<1>6. QED
  BY <1>1, <1>5, Moves

LEMMA WriteGrantStep ==
  ASSUME Inv, NEW a \in Callers, WriteGrant(a)
  PROVE  Inv'
<1> DEFINE c == call[a]
           p == <<c.me, c.row>>
           d == [c EXCEPT !.at = "sync"]
<1>1. /\ c.at = "grant" /\ CallOK(c, users, keys) /\ DOMAIN c = Fields /\ UNCHANGED <<clerk, users, keys, access>>
      /\ Becomes(a, d) /\ active' = active \cup {p} /\ revoked' = revoked \ {p}
  BY AtCall DEF WriteGrant, At
<1>2. c.me \in DOMAIN users /\ c.row \in DOMAIN users /\ c.then = "synced"
  BY <1>1 DEF CallOK, GrantingOK
<1>3. d.at = "sync" /\ d.then = c.then /\ d.me = c.me /\ d.row = c.row /\ DOMAIN d = Fields
  BY <1>1 DEF Fields
<1>4. p \in (DOMAIN users) \X (DOMAIN users)
  BY <1>2
<1> HIDE DEF c, d, p
<1>5. active' \cup revoked' \subseteq (DOMAIN users) \X (DOMAIN users) /\ active' \cap revoked' = {}
  BY <1>1, <1>4 DEF Inv, Holds, PairsOK, TypeOK
<1>6. Holds' /\ Grows(users, keys, users', keys')
  BY <1>1, <1>5, PairsChange
<1>7. CallOK(d, users, keys)
  BY <1>2, <1>3 DEF CallOK, ResolvingOK, SyncingOK, GrantingOK, OwningOK, Resolving, Syncing, ForOwn, Retiring
<1>8. QED
  BY <1>1, <1>6, <1>7, OneCall

LEMMA TeardownStep ==
  ASSUME Inv, NEW a \in Callers, Teardown(a)
  PROVE  Inv'
<1>1. Becomes(a, Idle) /\ access' \subseteq access /\ UNCHANGED <<clerk, users, keys, active, revoked>>
  BY DEF Teardown, Ends
<1>2. QED
  BY <1>1, IdleOK, FewerRows, OneCall

LEMMA PairsKnown ==
  Inv => \A p \in active \cup revoked : p \in Nat \X Nat /\ p # Own /\ p[1] \in DOMAIN users /\ p[2] \in DOMAIN users
<1> SUFFICES ASSUME Inv, NEW p \in active \cup revoked
             PROVE  p \in Nat \X Nat /\ p # Own /\ p[1] \in DOMAIN users /\ p[2] \in DOMAIN users
  OBVIOUS
<1>1. \A r \in DOMAIN users : r \in Nat
  BY RowsKnown
<1>2. p \in (DOMAIN users) \X (DOMAIN users)
  BY DEF Inv, Holds, PairsOK
<1>3. QED
  BY <1>1, <1>2, OwnIsNoPair

LEMMA ResolveMailboxStep ==
  ASSUME Inv, NEW a \in Callers, ResolveMailbox(a)
  PROVE  Inv'
<1> DEFINE c == call[a]
           grants == IF c.old = c.email THEN {Own} ELSE {p \in ToAddress(c.email) : users[p[1]].email = c.old}
           at == IF c.key = 0 THEN "profile" ELSE "attach"
<1>1. c.at = "mailbox" /\ c.at \in ForOwn /\ UNCHANGED <<clerk, tables>>
  BY DEF ResolveMailbox, At, ForOwn
<1>2. /\ c.row \in DOMAIN users /\ c.email \in Addresses /\ PersonOf(c.email) = PersonAt(users, c.row)
      /\ c.rows = {} /\ (c.then = "grant" => c.me \in DOMAIN users) /\ DOMAIN c = Fields
      /\ (IF c.key = 0 THEN c.then \in Kinds ELSE c.key \in DOMAIN keys /\ keys[c.key].user = c.row)
      /\ c.old \in Addresses
  BY <1>1, AtOwn
<1>3. Becomes(a, Idle) \/ \E g \in grants : Becomes(a, [c EXCEPT !.at = at, !.due = {g}])
  BY DEF ResolveMailbox, Ends
<1>4. \A g \in grants : g \in Nat \X Nat \/ (g = Own /\ c.old = c.email)
  BY PairsKnown DEF ToAddress
<1> HIDE DEF grants
<1>5. ASSUME NEW g \in grants, Becomes(a, [c EXCEPT !.at = at, !.due = {g}])
      PROVE  Inv'
  <2> DEFINE d == [c EXCEPT !.at = at, !.due = {g}]
  <2>1. /\ d.at = at /\ d.row = c.row /\ d.email = c.email /\ d.then = c.then /\ d.me = c.me /\ d.rows = c.rows
        /\ d.key = c.key /\ d.old = c.old /\ d.due = {g} /\ DOMAIN d = Fields
    BY <1>2 DEF Fields
  <2>2. \A h \in d.due : h \in Nat \X Nat \/ (h = Own /\ d.old = d.email)
    BY <1>4, <2>1
  <2>3. (d.at = "profile" /\ c.then \in Kinds) \/ (d.at = "attach" /\ c.key \in DOMAIN keys /\ keys[c.key].user = c.row)
    BY <1>2, <2>1
  <2>4. Becomes(a, d)
    BY <1>5
  <2> HIDE DEF c, d, at
  <2>5. CallOK(d, users, keys)
    BY <1>2, <2>1, <2>2, <2>3 DEF CallOK, ResolvingOK, SyncingOK, GrantingOK, OwningOK, Resolving, Syncing, ForOwn, Retiring, Located, KeyOfRow
  <2>6. QED
    BY <1>1, <2>4, <2>5, Moves
<1>6. CASE Becomes(a, Idle)
  BY <1>1, <1>6, IdleOK, Moves
<1>7. QED
  BY <1>3, <1>5, <1>6

LEMMA InsertProfileStep ==
  ASSUME Inv, NEW a \in Callers, InsertProfile(a)
  PROVE  Inv'
<1> DEFINE c == call[a]
           d == [c EXCEPT !.at = "attach", !.key = Len(keys) + 1]
<1>1. /\ c.at = "profile" /\ c.at \in ForOwn /\ UNCHANGED <<clerk, users, access, active, revoked>> /\ Becomes(a, d)
      /\ keys' = Append(keys, Key(c.row, c.then))
  BY DEF InsertProfile, At, ForOwn
<1>2. /\ c.row \in DOMAIN users /\ c.email \in Addresses /\ PersonOf(c.email) = PersonAt(users, c.row)
      /\ c.rows = {} /\ (c.then = "grant" => c.me \in DOMAIN users) /\ DOMAIN c = Fields
      /\ c.then \in Kinds /\ c.old \in Addresses /\ \A g \in c.due : g \in Nat \X Nat \/ (g = Own /\ c.old = c.email)
  BY <1>1, AtOwn
<1>3. /\ d.at = "attach" /\ d.row = c.row /\ d.email = c.email /\ d.then = c.then /\ d.me = c.me /\ d.rows = c.rows
      /\ d.key = Len(keys) + 1 /\ d.old = c.old /\ d.due = c.due /\ DOMAIN d = Fields
  BY <1>2 DEF Fields
<1> HIDE DEF c, d
<1>4. /\ Holds' /\ Grows(users, keys, users', keys')
      /\ Len(keys) + 1 \in DOMAIN keys' /\ keys'[Len(keys) + 1].user = c.row
  BY <1>1, <1>2, OneMoreKey
<1>5. CallOK(d, users', keys')
  BY <1>1, <1>2, <1>3, <1>4 DEF CallOK, ResolvingOK, SyncingOK, GrantingOK, OwningOK, Resolving, Syncing, ForOwn, Retiring, Located, KeyOfRow
<1>6. QED
  BY <1>1, <1>4, <1>5, OneCall

LEMMA AttachStep ==
  ASSUME Inv, NEW a \in Callers, Attach(a)
  PROVE  Inv'
<1> DEFINE c == call[a]
<1>1. c.at = "attach" /\ c.at \in ForOwn /\ UNCHANGED <<clerk, users, keys, active, revoked>> /\ Becomes(a, Idle)
  BY DEF Attach, At, ForOwn, Ends
<1>2. /\ c.row \in DOMAIN users /\ c.email \in Addresses /\ PersonOf(c.email) = PersonAt(users, c.row)
      /\ c.rows = {} /\ (c.then = "grant" => c.me \in DOMAIN users) /\ DOMAIN c = Fields
      /\ c.key \in DOMAIN keys /\ keys[c.key].user = c.row /\ c.old \in Addresses
      /\ \A g \in c.due : g \in Nat \X Nat \/ (g = Own /\ c.old = c.email)
  BY <1>1, AtOwn
<1>3. PICK g \in c.due : access' = InsertOr(access, c.key, c.old, g)
  BY DEF Attach
<1> HIDE DEF c
<1>4. g = Own => PersonOf(c.old) = PersonAt(users, keys[c.key].user)
  BY <1>2, OwnIsNoPair
<1>5. Holds' /\ Grows(users, keys, users', keys')
  BY <1>1, <1>2, <1>3, <1>4, OneMoreRow
<1>6. QED
  BY <1>1, <1>5, IdleOK, OneCall
------------------------------------------------------------------------------
(* The webhook.                                                            *)
LEMMA FindRetiredStep ==
  ASSUME Inv, NEW a \in Callers, FindRetired(a)
  PROVE  Inv'
<1> DEFINE c == call[a]
           found == {r \in ById(c.id) : ~users[r].deleted}
           d == [c EXCEPT !.at = "revokekeys", !.row = Max(found)]
<1>1. c.at = "retired" /\ CallOK(c, users, keys) /\ DOMAIN c = Fields /\ UNCHANGED <<clerk, tables>>
  BY AtCall DEF FindRetired, At
<1>2. Becomes(a, Idle) \/ (found # {} /\ Becomes(a, d))
  BY DEF FindRetired, Acknowledge, Ends
<1>3. found # {} => Max(found) \in DOMAIN users
  <2>1. found \subseteq DOMAIN users
    BY DEF ById
  <2>2. QED
    BY <2>1, RowsKnown, MinMaxOfRows
<1>4. c.then = "grant" => c.me \in DOMAIN users
  BY <1>1 DEF CallOK, ResolvingOK
<1> HIDE DEF found
<1>5. d.at = "revokekeys" /\ d.row = Max(found) /\ d.then = c.then /\ d.me = c.me /\ DOMAIN d = Fields
  BY <1>1 DEF Fields
<1> HIDE DEF c, d
<1>6. found # {} => CallOK(d, users, keys)
  BY <1>3, <1>4, <1>5 DEF CallOK, ResolvingOK, SyncingOK, GrantingOK, OwningOK, Resolving, Syncing, ForOwn, Retiring
<1>7. QED
  BY <1>1, <1>2, <1>6, IdleOK, Moves

LEMMA AtRetiring ==
  ASSUME Inv, NEW a \in Callers, call[a].at \in Retiring
  PROVE  LET c == call[a]
         IN  c.row \in DOMAIN users /\ (c.then = "grant" => c.me \in DOMAIN users) /\ DOMAIN c = Fields
BY AtCall DEF CallOK, GrantingOK, ResolvingOK

LEMMA RetiringOK ==
  ASSUME NEW U, NEW K, NEW c, DOMAIN c = Fields, c.at \in Retiring, c.row \in DOMAIN U, c.then = "grant" => c.me \in DOMAIN U
  PROVE  CallOK(c, U, K)
BY DEF CallOK, ResolvingOK, SyncingOK, GrantingOK, OwningOK, Resolving, Syncing, ForOwn, Retiring

LEMMA RevokeKeysStep ==
  ASSUME Inv, NEW a \in Callers, RevokeKeys(a)
  PROVE  Inv'
<1> DEFINE c == call[a]
           d == [c EXCEPT !.at = "revokeout"]
           write(k) == IF keys[k].user = c.row THEN [keys[k] EXCEPT !.live = FALSE] ELSE keys[k]
<1>1. /\ c.at = "revokekeys" /\ c.at \in Retiring /\ UNCHANGED <<clerk, users, access, active, revoked>> /\ Becomes(a, d)
      /\ keys' = [k \in DOMAIN keys |-> write(k)]
  BY DEF RevokeKeys, At, Retiring
<1>2. c.row \in DOMAIN users /\ (c.then = "grant" => c.me \in DOMAIN users) /\ DOMAIN c = Fields
  BY <1>1, AtRetiring
<1>3. d.at \in Retiring /\ d.row = c.row /\ d.then = c.then /\ d.me = c.me /\ DOMAIN d = Fields
  BY <1>2 DEF Fields, Retiring
<1>4. ASSUME NEW k \in DOMAIN keys
      PROVE  write(k) \in KeyRecord /\ write(k).user = keys[k].user
  BY RowsKnown DEF KeyRecord
<1> HIDE DEF c, d, write
<1>5. keys \in Seq(KeyRecord) /\ Len(keys) \in Nat /\ DOMAIN keys = 1..Len(keys)
  BY RowsKnown
<1>6. keys' \in Seq(KeyRecord) /\ DOMAIN keys' = DOMAIN keys /\ \A k \in DOMAIN keys : keys'[k].user = keys[k].user
  <2>1. keys' \in [1..Len(keys) -> KeyRecord]
    BY <1>1, <1>4, <1>5
  <2>2. keys' \in Seq(KeyRecord)
    BY <1>5, <2>1, SeqDef
  <2>3. QED
    BY <1>1, <1>4, <2>2
<1>7. \A k \in DOMAIN keys' : keys'[k].user \in DOMAIN users
  BY <1>6, RowsKnown
<1>8. Holds' /\ Grows(users, keys, users', keys')
  BY <1>1, <1>6, <1>7, KeysChange
<1>9. CallOK(d, users', keys')
  BY <1>1, <1>2, <1>3, RetiringOK
<1>10. QED
  BY <1>1, <1>8, <1>9, OneCall

LEMMA RevokeOutAndInStep ==
  ASSUME Inv, NEW a \in Callers, RevokeOutAndIn(a)
  PROVE  Inv'
<1> DEFINE c == call[a]
<1>1. PICK side \in {1, 2} :
        /\ At(a, IF side = 1 THEN "revokeout" ELSE "revokein")
        /\ LET pairs == {p \in active : p[side] = c.row}
           IN  /\ active' = active \ pairs /\ revoked' = revoked \cup pairs
               /\ Becomes(a, [c EXCEPT !.at = IF side = 1 THEN "revokein" ELSE "removerows", !.due = @ \cup pairs])
        /\ UNCHANGED <<clerk, events, users, keys, access, left>>
  BY DEF RevokeOutAndIn
<1> DEFINE pairs == {p \in active : p[side] = c.row}
           at == IF side = 1 THEN "revokein" ELSE "removerows"
           d == [c EXCEPT !.at = at, !.due = @ \cup pairs]
<1>2. /\ c.at \in Retiring /\ Becomes(a, d) /\ UNCHANGED <<clerk, users, keys, access>>
      /\ active' = active \ pairs /\ revoked' = revoked \cup pairs
  BY <1>1 DEF At, Retiring
<1>3. c.row \in DOMAIN users /\ (c.then = "grant" => c.me \in DOMAIN users) /\ DOMAIN c = Fields
  BY <1>2, AtRetiring
<1>4. at \in Retiring /\ pairs \subseteq active
  BY DEF Retiring
<1> HIDE DEF pairs, at
<1>5. d.at = at /\ d.row = c.row /\ d.then = c.then /\ d.me = c.me /\ DOMAIN d = Fields
  BY <1>3 DEF Fields
<1> HIDE DEF c, d
<1>6. active' \cup revoked' \subseteq (DOMAIN users) \X (DOMAIN users) /\ active' \cap revoked' = {}
  BY <1>2, <1>4 DEF Inv, Holds, PairsOK, TypeOK
<1>7. Holds' /\ Grows(users, keys, users', keys')
  BY <1>2, <1>6, PairsChange
<1>8. CallOK(d, users', keys')
  BY <1>2, <1>3, <1>4, <1>5, RetiringOK
<1>9. QED
  BY <1>2, <1>7, <1>8, OneCall

LEMMA RemoveRowsStep ==
  ASSUME Inv, NEW a \in Callers, RemoveRows(a)
  PROVE  Inv'
<1> DEFINE c == call[a]
           d1 == [c EXCEPT !.at = "tombstone"]
           d2(p) == [c EXCEPT !.due = @ \ {p}]
<1>1. /\ c.at = "removerows" /\ c.at \in Retiring /\ UNCHANGED <<clerk, users, keys, active, revoked>>
      /\ access' \subseteq access /\ (Becomes(a, d1) \/ \E p \in c.due : Becomes(a, d2(p)))
  BY DEF RemoveRows, At, Retiring
<1>2. c.row \in DOMAIN users /\ (c.then = "grant" => c.me \in DOMAIN users) /\ DOMAIN c = Fields
  BY <1>1, AtRetiring
<1>3. d1.at \in Retiring /\ d1.row = c.row /\ d1.then = c.then /\ d1.me = c.me /\ DOMAIN d1 = Fields
  BY <1>2 DEF Fields, Retiring
<1>4. ASSUME NEW p
      PROVE  d2(p).at \in Retiring /\ d2(p).row = c.row /\ d2(p).then = c.then /\ d2(p).me = c.me /\ DOMAIN d2(p) = Fields
  BY <1>1, <1>2 DEF Fields, Retiring
<1> HIDE DEF c, d1, d2
<1>5. Holds' /\ Grows(users, keys, users', keys')
  BY <1>1, FewerRows
<1>6. CallOK(d1, users', keys')
  BY <1>1, <1>2, <1>3, RetiringOK
<1>7. \A p : CallOK(d2(p), users', keys')
  BY <1>1, <1>2, <1>4, RetiringOK
<1>8. QED
  BY <1>1, <1>5, <1>6, <1>7, OneCall

LEMMA TombstoneStep ==
  ASSUME Inv, NEW a \in Callers, Tombstone(a)
  PROVE  Inv'
<1> DEFINE c == call[a]
           q == [users[c.row] EXCEPT !.deleted = TRUE]
<1>1. /\ c.at \in Retiring /\ UNCHANGED <<clerk, keys, access, active, revoked>> /\ Becomes(a, Idle)
  BY DEF Tombstone, At, Retiring, Acknowledge, Ends
<1>2. users' = [users EXCEPT ![c.row] = q]
  <2>1. users' = [users EXCEPT ![c.row].deleted = TRUE]
    BY DEF Tombstone
  <2>2. QED
    BY <2>1
<1>3. c.row \in DOMAIN users /\ users[c.row] \in RowRecord /\ PersonOf(users[c.row].email) = PersonAt(users, c.row)
  BY <1>1, AtRetiring, RowsKnown
<1>4. q \in RowRecord /\ q.email = users[c.row].email /\ q.clerk = users[c.row].clerk
  BY <1>3 DEF RowRecord
<1>5. \A s \in DOMAIN users \ {c.row} : users[s].clerk # q.clerk
  BY <1>3, <1>4 DEF Inv, Holds, TypeOK
<1> HIDE DEF c, q
<1>6. Holds' /\ Grows(users, keys, users', keys')
  BY <1>1, <1>2, <1>3, <1>4, <1>5, RowWritten DEF PersonAt
<1>7. QED
  BY <1>1, <1>6, IdleOK, OneCall

LEMMA DieStep ==
  ASSUME Inv, NEW a \in Callers, Die(a)
  PROVE  Inv'
BY IdleOK, Moves DEF Die, Ends
------------------------------------------------------------------------------
(* What people start, and what happens at Clerk.                           *)
LEMMA NoCall ==
  ASSUME Inv, call' = call, Holds', Grows(users, keys, users', keys')
  PROVE  Inv'
<1>1. \A a \in Callers : CallOK(call[a], users', keys')
  BY CallStays DEF Inv
<1>2. QED
  BY <1>1 DEF Inv

LEMMA SignInKept ==
  ASSUME Inv, NEW a \in People, SignIn(a)
  PROVE  Inv'
<1>1. a \in Callers
  BY DEF Callers
<1>2. PICK id \in LiveIds(a) : Becomes(a, [Idle EXCEPT !.at = "byid", !.id = id, !.email = clerk[id].email])
  BY DEF SignIn, Starts
<1> DEFINE d == [Idle EXCEPT !.at = "byid", !.id = id, !.email = clerk[id].email]
<1>3. d.at = "byid" /\ d.id = id /\ d.email = clerk[id].email /\ d.then = "done" /\ DOMAIN d = Fields
  BY DEF Idle, Fields
<1>4. id \in Ids /\ clerk[id].email \in Addresses /\ PersonOf(clerk[id].email) = PersonOf(id)
  BY LiveIdsKnown
<1> HIDE DEF d
<1>5. CallOK(d, users, keys)
  BY <1>3, <1>4 DEF CallOK, ResolvingOK, SyncingOK, GrantingOK, OwningOK, Resolving, Syncing, ForOwn, Retiring
<1>6. Becomes(a, d) /\ UNCHANGED <<clerk, tables>>
  BY <1>2 DEF SignIn, d
<1>7. QED
  BY <1>1, <1>5, <1>6, Moves

LEMMA ConnectKept ==
  ASSUME Inv, Connect
  PROVE  Inv'
<1>1. PICK id \in LiveIds("delegate") :
        Becomes("delegate",
          IF ById(id) = {} THEN [Idle EXCEPT !.at = "byid", !.id = id, !.email = clerk[id].email, !.then = "ensure"]
          ELSE [Idle EXCEPT !.at = "default", !.row = Max(ById(id)), !.email = users[Max(ById(id))].email])
  BY DEF Connect, Starts
<1> DEFINE r == Max(ById(id))
           d1 == [Idle EXCEPT !.at = "byid", !.id = id, !.email = clerk[id].email, !.then = "ensure"]
           d2 == [Idle EXCEPT !.at = "default", !.row = r, !.email = users[r].email]
<1>2. Becomes("delegate", d1) \/ (ById(id) # {} /\ Becomes("delegate", d2))
  BY <1>1
<1>3. "delegate" \in Callers /\ UNCHANGED <<clerk, tables>>
  BY DEF Connect, Callers, People
<1>4. id \in Ids /\ clerk[id].email \in Addresses /\ PersonOf(clerk[id].email) = PersonOf(id)
  BY LiveIdsKnown
<1>5. ById(id) # {} => r \in DOMAIN users
  <2>1. ById(id) \subseteq DOMAIN users
    BY DEF ById
  <2>2. QED
    BY <2>1, RowsKnown, MinMaxOfRows
<1> HIDE DEF r
<1>6. ById(id) # {} => users[r].email \in Addresses /\ PersonOf(users[r].email) = PersonAt(users, r)
  BY <1>5, RowsKnown DEF RowRecord
<1>7. d1.at = "byid" /\ d1.id = id /\ d1.email = clerk[id].email /\ d1.then = "ensure" /\ DOMAIN d1 = Fields
  BY DEF Idle, Fields
<1>8. /\ d2.at = "default" /\ d2.row = r /\ d2.email = users[r].email /\ d2.then = "done" /\ d2.rows = {}
      /\ DOMAIN d2 = Fields
  BY DEF Idle, Fields
<1> HIDE DEF d1, d2
<1>9. CallOK(d1, users, keys)
  BY <1>4, <1>7 DEF CallOK, ResolvingOK, SyncingOK, GrantingOK, OwningOK, Resolving, Syncing, ForOwn, Retiring
<1>10. ById(id) # {} => CallOK(d2, users, keys)
  BY <1>5, <1>6, <1>8 DEF CallOK, ResolvingOK, SyncingOK, GrantingOK, OwningOK, Resolving, Syncing, ForOwn, Retiring, Located
<1>11. QED
  BY <1>2, <1>3, <1>9, <1>10, Moves

LEMMA CreateProxyKeyKept ==
  ASSUME Inv, CreateProxyKey
  PROVE  Inv'
<1>1. PICK r \in DOMAIN users, kind \in {"named", "custom"}, target \in Addresses :
        Becomes("delegate", [Idle EXCEPT !.at = "mailbox", !.row = r, !.email = users[r].email, !.old = target, !.then = kind])
  BY DEF CreateProxyKey, Starts, ById
<1> DEFINE d == [Idle EXCEPT !.at = "mailbox", !.row = r, !.email = users[r].email, !.old = target, !.then = kind]
<1>2. "delegate" \in Callers /\ UNCHANGED <<clerk, tables>> /\ kind \in Kinds /\ kind # "grant"
  BY DEF CreateProxyKey, Callers, People, Kinds
<1>3. users[r].email \in Addresses /\ PersonOf(users[r].email) = PersonAt(users, r)
  BY <1>2, RowsKnown DEF RowRecord
<1>4. /\ d.at = "mailbox" /\ d.row = r /\ d.email = users[r].email /\ d.then = kind /\ d.rows = {} /\ d.old = target
      /\ d.key = 0 /\ DOMAIN d = Fields
  BY DEF Idle, Fields
<1>5. Becomes("delegate", d)
  BY <1>1
<1> HIDE DEF d
<1>6. CallOK(d, users, keys)
  BY <1>2, <1>3, <1>4 DEF CallOK, ResolvingOK, SyncingOK, GrantingOK, OwningOK, Resolving, Syncing, ForOwn, Retiring, Located
<1>7. QED
  BY <1>2, <1>5, <1>6, Moves

LEMMA AddMailboxKept ==
  ASSUME Inv, AddMailbox
  PROVE  Inv'
<1>1. PICK r \in DOMAIN users, target \in Addresses, k \in DOMAIN keys :
        /\ keys[k].user = r
        /\ Becomes("delegate", [Idle EXCEPT !.at = "mailbox", !.row = r, !.key = k, !.email = users[r].email, !.old = target])
  BY DEF AddMailbox, Starts, ById, Profiles
<1> DEFINE d == [Idle EXCEPT !.at = "mailbox", !.row = r, !.key = k, !.email = users[r].email, !.old = target]
<1>2. "delegate" \in Callers /\ UNCHANGED <<clerk, tables>> /\ k \in DOMAIN keys /\ keys[k].user = r
  BY <1>1 DEF AddMailbox, Callers, People
<1>3. users[r].email \in Addresses /\ PersonOf(users[r].email) = PersonAt(users, r)
  BY <1>2, RowsKnown DEF RowRecord
<1>4. /\ d.at = "mailbox" /\ d.row = r /\ d.email = users[r].email /\ d.then = "done" /\ d.rows = {} /\ d.old = target
      /\ d.key = k /\ DOMAIN d = Fields
  BY DEF Idle, Fields
<1>5. Becomes("delegate", d)
  BY <1>1
<1>6. k # 0
  BY <1>2, RowsKnown
<1> HIDE DEF d
<1>7. CallOK(d, users, keys)
  BY <1>2, <1>3, <1>4, <1>6 DEF CallOK, ResolvingOK, SyncingOK, GrantingOK, OwningOK, Resolving, Syncing, ForOwn, Retiring, Located, KeyOfRow
<1>8. QED
  BY <1>2, <1>5, <1>7, Moves

LEMMA RevokeProxyKeyKept ==
  ASSUME Inv, RevokeProxyKey
  PROVE  Inv'
<1>1. PICK k \in DOMAIN keys : keys' = [keys EXCEPT ![k].live = FALSE]
  BY DEF RevokeProxyKey, Profiles
<1>2. UNCHANGED <<clerk, users, access, active, revoked, call>>
  BY DEF RevokeProxyKey
<1> DEFINE q == [keys[k] EXCEPT !.live = FALSE]
<1>3. q \in KeyRecord /\ q.user = keys[k].user
  BY <1>2, RowsKnown DEF KeyRecord
<1>4. keys' = [keys EXCEPT ![k] = q]
  BY <1>1
<1> HIDE DEF q
<1>5. Holds' /\ Grows(users, keys, users', keys')
  BY <1>2, <1>3, <1>4, KeyWritten
<1>6. QED
  BY <1>2, <1>5, NoCall

LEMMA GrantKept ==
  ASSUME Inv, Grant
  PROVE  Inv'
<1>1. PICK r \in DOMAIN users, email \in Addresses :
        Becomes("owner", [Idle EXCEPT !.at = "delegate", !.email = email, !.me = r, !.then = "grant"])
  BY DEF Grant, Starts, ById
<1> DEFINE d == [Idle EXCEPT !.at = "delegate", !.email = email, !.me = r, !.then = "grant"]
<1>2. "owner" \in Callers /\ UNCHANGED <<clerk, tables>>
  BY DEF Grant, Callers, People
<1>3. d.at = "delegate" /\ d.me = r /\ d.then = "grant" /\ DOMAIN d = Fields
  BY DEF Idle, Fields
<1>4. Becomes("owner", d)
  BY <1>1
<1> HIDE DEF d
<1>5. CallOK(d, users, keys)
  BY <1>3 DEF CallOK, ResolvingOK, SyncingOK, GrantingOK, OwningOK, Resolving, Syncing, ForOwn, Retiring
<1>6. QED
  BY <1>2, <1>4, <1>5, Moves

LEMMA RevokeKept ==
  ASSUME Inv, Revoke
  PROVE  Inv'
<1>1. PICK r \in DOMAIN users, p \in active \cup revoked :
        /\ active' = active \ {p} /\ revoked' = revoked \cup {p}
        /\ Becomes("owner", [Idle EXCEPT !.at = "teardown", !.me = r, !.row = p[2]])
  BY DEF Revoke, Starts, ById
<1> DEFINE d == [Idle EXCEPT !.at = "teardown", !.me = r, !.row = p[2]]
<1>2. "owner" \in Callers /\ UNCHANGED <<clerk, users, keys, access>>
  BY DEF Revoke, Callers, People
<1>3. d.at = "teardown" /\ d.then = "done" /\ DOMAIN d = Fields
  BY DEF Idle, Fields
<1>4. Becomes("owner", d)
  BY <1>1
<1> HIDE DEF d
<1>5. CallOK(d, users', keys')
  BY <1>3 DEF CallOK, ResolvingOK, SyncingOK, GrantingOK, OwningOK, Resolving, Syncing, ForOwn, Retiring
<1>6. active' \cup revoked' \subseteq (DOMAIN users) \X (DOMAIN users) /\ active' \cap revoked' = {}
  BY <1>1 DEF Inv, Holds, PairsOK, TypeOK
<1>7. Holds' /\ Grows(users, keys, users', keys')
  BY <1>2, <1>6, PairsChange
<1>8. QED
  BY <1>2, <1>4, <1>5, <1>7, OneCall

LEMMA ReceiveDeletedKept ==
  ASSUME Inv, ReceiveDeleted
  PROVE  Inv'
<1>1. PICK id \in events : Becomes("webhook", [Idle EXCEPT !.at = "retired", !.id = id])
  BY DEF ReceiveDeleted, Starts
<1> DEFINE d == [Idle EXCEPT !.at = "retired", !.id = id]
<1>2. "webhook" \in Callers /\ UNCHANGED <<clerk, tables>>
  BY DEF ReceiveDeleted, Callers
<1>3. d.at = "retired" /\ d.then = "done" /\ DOMAIN d = Fields
  BY DEF Idle, Fields
<1>4. Becomes("webhook", d)
  BY <1>1
<1> HIDE DEF d
<1>5. CallOK(d, users, keys)
  BY <1>3 DEF CallOK, ResolvingOK, SyncingOK, GrantingOK, OwningOK, Resolving, Syncing, ForOwn, Retiring
<1>6. QED
  BY <1>2, <1>4, <1>5, Moves

AtClerk(a) == ChangePrimary(a) \/ Reissue(a) \/ DeleteAccount(a) \/ SignUpAgain(a)

ClerkRecord == [status : {"unborn", "live", "vanished", "gone"}, email : Addresses \cup {Nobody}]

LEMMA ClerkChange ==
  ASSUME Inv, NEW a, AtClerk(a)
  PROVE  ClerkOK' /\ UNCHANGED <<tables, call>>
<1>1. UNCHANGED <<tables, call>>
  BY DEF AtClerk, ChangePrimary, Reissue, DeleteAccount, SignUpAgain
<1>2. clerk \in [Ids -> ClerkRecord]
  BY DEF Inv, Holds, ClerkOK, ClerkRecord
<1>3. \A i \in Ids : clerk[i].status = "live" => clerk[i].email \in Addresses /\ PersonOf(clerk[i].email) = PersonOf(i)
  BY DEF Inv, Holds, ClerkOK
<1>4. ASSUME NEW i \in Ids, NEW q \in ClerkRecord, clerk' = [clerk EXCEPT ![i] = q],
             q.status = "live" => q.email \in Addresses /\ PersonOf(q.email) = PersonOf(i)
      PROVE  ClerkOK'
  <2>1. clerk' \in [Ids -> ClerkRecord]
    BY <1>2, <1>4
  <2>2. \A j \in Ids : clerk'[j].status = "live" => clerk'[j].email \in Addresses /\ PersonOf(clerk'[j].email) = PersonOf(j)
    BY <1>2, <1>3, <1>4
  <2>3. QED
    BY <2>1, <2>2 DEF ClerkOK, ClerkRecord
<1>5. CASE ChangePrimary(a)
  <2>1. PICK i \in LiveIds(a), e \in Addresses : PersonOf(e) = a /\ clerk' = [clerk EXCEPT ![i].email = e]
    BY <1>5 DEF ChangePrimary
  <2>2. i \in Ids /\ PersonOf(i) = a
    BY LiveIdsKnown
  <2> DEFINE q == [clerk[i] EXCEPT !.email = e]
  <2>3. q \in ClerkRecord /\ q.email = e
    BY <1>2, <2>2 DEF ClerkRecord
  <2>4. clerk' = [clerk EXCEPT ![i] = q]
    BY <2>1
  <2> HIDE DEF q
  <2>5. QED
    BY <1>1, <1>4, <2>1, <2>2, <2>3, <2>4
<1>6. CASE Reissue(a)
  <2>1. PICK i \in LiveIds(a), new \in NextId(a) :
          clerk' = [clerk EXCEPT ![i].status = "vanished", ![new] = Account("live", clerk[i].email)]
    BY <1>6 DEF Reissue
  <2>2. i \in Ids /\ PersonOf(i) = a /\ clerk[i].email \in Addresses /\ PersonOf(clerk[i].email) = a
    BY LiveIdsKnown
  <2>3. new \in Ids /\ PersonOf(new) = a
    BY DEF NextId, Unused
  <2> DEFINE q == [clerk[i] EXCEPT !.status = "vanished"]
             n == Account("live", clerk[i].email)
  <2>4. q \in ClerkRecord /\ q.status = "vanished" /\ n \in ClerkRecord /\ n.email = clerk[i].email
    BY <1>2, <2>2 DEF ClerkRecord, Account
  <2>5. clerk' = [clerk EXCEPT ![i] = q, ![new] = n]
    BY <2>1
  <2> HIDE DEF q, n
  <2>6. clerk' \in [Ids -> ClerkRecord]
    BY <1>2, <2>2, <2>3, <2>4, <2>5
  <2>7. \A j \in Ids : clerk'[j] = IF j = new THEN n ELSE IF j = i THEN q ELSE clerk[j]
    BY <1>2, <2>2, <2>3, <2>5
  <2>8. \A j \in Ids : clerk'[j].status = "live" => clerk'[j].email \in Addresses /\ PersonOf(clerk'[j].email) = PersonOf(j)
    BY <1>3, <2>2, <2>3, <2>4, <2>7
  <2>9. QED
    BY <1>1, <2>6, <2>8 DEF ClerkOK, ClerkRecord
<1>7. CASE DeleteAccount(a)
  <2>1. PICK i \in LiveIds(a) : clerk' = [clerk EXCEPT ![i].status = "gone"]
    BY <1>7 DEF DeleteAccount
  <2>2. i \in Ids
    BY LiveIdsKnown
  <2> DEFINE q == [clerk[i] EXCEPT !.status = "gone"]
  <2>3. q \in ClerkRecord /\ q.status = "gone"
    BY <1>2, <2>2 DEF ClerkRecord
  <2>4. clerk' = [clerk EXCEPT ![i] = q]
    BY <2>1
  <2> HIDE DEF q
  <2>5. QED
    BY <1>1, <1>4, <2>2, <2>3, <2>4
<1>8. CASE SignUpAgain(a)
  <2>1. PICK i \in NextId(a), e \in Addresses : PersonOf(e) = a /\ clerk' = [clerk EXCEPT ![i] = Account("live", e)]
    BY <1>8 DEF SignUpAgain
  <2>2. i \in Ids /\ PersonOf(i) = a
    BY DEF NextId, Unused
  <2>3. Account("live", e) \in ClerkRecord /\ Account("live", e).email = e
    BY DEF ClerkRecord, Account
  <2>4. QED
    BY <1>1, <1>4, <2>1, <2>2, <2>3
<1>9. QED
  BY <1>1, <1>5, <1>6, <1>7, <1>8 DEF AtClerk

LEMMA ClerkKept ==
  ASSUME Inv, NEW a, AtClerk(a)
  PROVE  Inv'
<1>1. ClerkOK' /\ call' = call /\ UNCHANGED tables
  BY ClerkChange
<1>2. Grows(users, keys, users', keys')
  BY <1>1, Same DEF tables
<1>3. Holds'
  BY <1>1 DEF Inv, Holds, tables, UsersOK, KeysOK, PairsOK, AccessOK, TypeOK, PersonAt
<1>4. QED
  BY <1>1, <1>2, <1>3, NoCall
------------------------------------------------------------------------------
LEMMA StepsOfCalls ==
  ASSUME Inv, NEW a \in Callers,
         SignInStep(a) \/ SyncStep(a) \/ ConnectStep(a) \/ GrantStep(a) \/ ProfileStep(a) \/ RetireStep(a) \/ Die(a)
  PROVE  Inv'
<1>1. CASE SignInStep(a)
  BY <1>1, FindByIdStep, UpdateEmailStep, ListKeysStep, FindCurrentStep, DropOldStep, RepointStep, FindAdoptableStep,
     AdoptStep, InsertUserStep, InsertFirstKeyStep, InsertFirstRowStep DEF SignInStep
<1>2. CASE SyncStep(a)
  BY <1>2, FindRowsStep, FindDefaultStep, ListDelegationsStep, InsertDelegatedStep DEF SyncStep
<1>3. CASE ConnectStep(a)
  BY <1>3, EnsureDefaultStep, FindNamedStep, FlagNamedStep, InsertDefaultStep, EnsureOwnRowStep DEF ConnectStep
<1>4. CASE GrantStep(a)
  BY <1>4, FindDelegateStep, AskClerkStep, FindGrantStep, WriteGrantStep, TeardownStep DEF GrantStep
<1>5. CASE ProfileStep(a)
  BY <1>5, ResolveMailboxStep, InsertProfileStep, AttachStep DEF ProfileStep
<1>6. CASE RetireStep(a)
  BY <1>6, FindRetiredStep, RevokeKeysStep, RevokeOutAndInStep, RemoveRowsStep, TombstoneStep DEF RetireStep
<1>7. CASE Die(a)
  BY <1>7, DieStep
<1>8. QED
  BY <1>1, <1>2, <1>3, <1>4, <1>5, <1>6, <1>7

LEMMA InvKept ==
  ASSUME Inv, [Next]_vars
  PROVE  Inv'
<1>1. ASSUME NEW a \in Callers,
             SignInStep(a) \/ SyncStep(a) \/ ConnectStep(a) \/ GrantStep(a) \/ ProfileStep(a) \/ RetireStep(a) \/ Die(a)
      PROVE  Inv'
  BY <1>1, StepsOfCalls
<1>2. ASSUME NEW a \in People, SignIn(a) \/ AtClerk(a)
      PROVE  Inv'
  BY <1>2, SignInKept, ClerkKept
<1>3. CASE Connect \/ CreateProxyKey \/ AddMailbox \/ RevokeProxyKey \/ Grant \/ Revoke \/ ReceiveDeleted
  BY <1>3, ConnectKept, CreateProxyKeyKept, AddMailboxKept, RevokeProxyKeyKept, GrantKept, RevokeKept, ReceiveDeletedKept
<1>4. CASE UNCHANGED vars
  <2>1. UNCHANGED <<clerk, tables>> /\ call' = call
    BY <1>4 DEF vars, tables
  <2>2. QED
    BY <2>1, StillHolds, NoCall
<1>5. QED
  BY <1>1, <1>2, <1>3, <1>4 DEF Next, AtClerk

LEMMA InvHolds == Spec => []Inv
<1>1. Init => Inv
  <2> SUFFICES ASSUME Init PROVE Inv
    OBVIOUS
  <2> DEFINE o == <<"owner", 1>>
  <2>0. \A p \in People : <<p, 1>> \in Ids /\ <<p, 1>> \in Addresses
    BY TheirOwn
  <2>1. o \in Ids /\ o \in Addresses /\ PersonOf(o) = "owner"
    BY <2>0 DEF People, PersonOf
  <2>2. ClerkOK
    <3>1. \A i \in Ids : i = <<i[1], i[2]>> /\ i[1] \in People
      BY TheirOwn
    <3>2. \A i \in Ids : i[2] = 1 => i \in Addresses
      BY <3>1, <2>0
    <3>3. \A i \in Ids : /\ Account("live", i).status = "live" /\ Account("live", i).email = i
                         /\ Account("unborn", Nobody).status = "unborn"
      BY DEF Account
    <3>4. clerk \in [Ids -> ClerkRecord]
      BY <3>2 DEF Init, ClerkRecord, Account
    <3>5. \A i \in Ids : clerk[i].status = "live" => clerk[i].email = i /\ i \in Addresses
      BY <3>2, <3>3 DEF Init
    <3>6. QED
      BY <3>4, <3>5 DEF ClerkOK, ClerkRecord
  <2> HIDE DEF o
  <2>3. users = <<Row(o, o)>> /\ keys = <<Key(1, "default")>> /\ access = {Grants(1, o, Own)} /\ active = {} /\ revoked = {}
    BY DEF Init, o
  <2>4. Row(o, o) \in RowRecord /\ Row(o, o).email = o /\ Row(o, o).clerk = o
    BY <2>1 DEF Row, RowRecord
  <2>5. Key(1, "default") \in KeyRecord /\ Key(1, "default").user = 1
    BY DEF Key, KeyRecord, Kinds
  <2>6. /\ users \in Seq(RowRecord) /\ DOMAIN users = {1} /\ users[1] = Row(o, o)
        /\ keys \in Seq(KeyRecord) /\ DOMAIN keys = {1} /\ keys[1] = Key(1, "default")
    BY <2>3, <2>4, <2>5
  <2>7. UsersOK /\ KeysOK /\ PairsOK
    BY <2>3, <2>4, <2>5, <2>6 DEF UsersOK, KeysOK, PairsOK, PersonAt
  <2>8. \A x \in access : AccessOK(x)
    <3>1. Grants(1, o, Own).key = 1 /\ Grants(1, o, Own).email = o /\ Grants(1, o, Own).by = Own
      BY DEF Grants
    <3>2. QED
      BY <2>1, <2>3, <2>4, <2>5, <2>6, <3>1 DEF AccessOK, PersonAt
  <2>9. TypeOK
    BY <2>3, <2>6 DEF TypeOK
  <2>10. DOMAIN call = Callers /\ \A a \in Callers : CallOK(call[a], users, keys)
    BY IdleOK DEF Init
  <2>11. QED
    BY <2>2, <2>7, <2>8, <2>9, <2>10 DEF Inv, Holds
<1>2. QED
  BY <1>1, InvKept, PTL DEF Spec

(* One row per Clerk id, one access row per profile and mailbox, one       *)
(* delegation per pair of rows.                                            *)
THEOREM AccountsTypeCorrect == Spec => []TypeOK
<1>1. Inv => TypeOK
  BY DEF Inv, Holds
<1>2. QED
  BY <1>1, InvHolds, PTL

(* A row without a delegation is never of another person's mailbox,        *)
(* whatever sign-ins, grants and deletions at Clerk come between the       *)
(* statements of a call, and wherever it is killed.                        *)
THEOREM OwnRowsAreTheirOwn == Spec => []OwnRowsAreOwn
<1>1. Inv => OwnRowsAreOwn
  BY DEF Inv, Holds, AccessOK, OwnRowsAreOwn, PersonAt
<1>2. QED
  BY <1>1, InvHolds, PTL
==============================================================================
