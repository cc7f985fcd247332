--------------------------- MODULE RuleTablesProofs ---------------------------
(***************************************************************************)
(* The rule tables for any number of profiles, rules and calls, each of    *)
(* which may be killed between any two of its statements; and a request    *)
(* that is judged by its reads while others write what it reads.           *)
(***************************************************************************)
EXTENDS RequestGate, FiniteSetTheorems, SequenceTheorems, TLAPS

(* What the rules and the statements about the one resource are.           *)
LevelsHere == IF resource = "mail" THEN Levels("gmail") ELSE Levels("file")
RowsHere == [service : Services(resource), level : LevelsHere, agent : BOOLEAN]

Ops == {"none", "create", "created", "update", "delete", "level", "assign", "unassign", "recommend", "expose",
        "anyone", "approve", "set", "inherit", "clear"}
MailOps == {"create", "update", "anyone", "recommend"}
FileOps == {"created", "level", "expose", "set", "inherit", "clear"}
KeyOps == {"created", "assign", "unassign", "anyone", "approve", "set", "inherit", "clear"}

Statement ==
  {s \in [do : {"insert", "assign", "pin", "pinquietly", "join", "change", "rename", "unassign", "clear",
                "remove", "delete", "look"},
          rule : RuleIds \cup {New}, row : RowsHere \cup LevelsHere \cup {NoRule}, keys : SUBSET Keys] :
     /\ s.do = "insert" => s.row \in RowsHere
     /\ s.do = "change" => s.row \in LevelsHere}

Views == {<<>>} \cup UNION {[R -> SUBSET Keys] : R \in SUBSET RuleIds}
Given == [send : {"none", "one", "all"}, file : {"none", "read", "write", "block"},
          tree : {"inherit", "read", "write", "block"}]

CallRecord ==
  [op : Ops, key : Keys \cup {"none", "every"}, want : RowsHere \cup LevelsHere \cup {"none", "hide"},
   rule : RuleIds \cup {New}, keys : SUBSET Keys, cands : SUBSET RuleIds, seen : Views, todo : Seq(Statement),
   stage : {"idle", "reading", "looking", "running", "done", "failed"},
   before : [Keys -> Given] \cup {<<>>}, alone : BOOLEAN]

Meant(x) ==
  /\ x \in CallRecord
  /\ x.op \in MailOps => resource = "mail"
  /\ x.op \in FileOps => resource = "file"
  /\ x.op \in KeyOps => x.key \in Keys
  /\ x.op \in {"create", "created"} => x.want \in RowsHere
  /\ x.op \in {"update", "level", "approve", "set"} => x.want \in LevelsHere
  /\ x.op \in OneRuleOps => x.rule \in RuleIds

Sensible(x) ==
  /\ Meant(x)
  /\ x.stage = "idle" <=> x.op = "none"
  /\ x.stage = "running" <=> x.todo # <<>>
  /\ DOMAIN x.seen \subseteq x.cands

CallOK(x) == Sensible(x) /\ (x.stage = "reading" => x.cands = {})

Typed ==
  /\ resource \in {"mail", "file"} /\ live \in SUBSET Keys
  /\ table \in [RuleIds -> RowsHere \cup {NoRule}] /\ assigned \in [RuleIds -> SUBSET Keys]
  /\ \A r \in RuleIds : table[r] = NoRule => assigned[r] = {}
  /\ call \in [Callers -> CallRecord] /\ \A c \in Callers : CallOK(call[c])
------------------------------------------------------------------------------
LEMMA HereIsTyped ==
  ASSUME resource \in {"mail", "file"}
  PROVE  /\ RowsHere \subseteq Rows /\ NoRule \notin RowsHere
         /\ resource = "mail" => RowsHere = [service : {"gmail"}, level : {"one", "all", "hide"}, agent : BOOLEAN]
         /\ resource = "mail" => LevelsHere = {"one", "all", "hide"}
         /\ resource = "file" => RowsHere = [service : {"file", "drive"}, level : {"read", "write", "block"},
                                             agent : BOOLEAN]
         /\ resource = "file" => LevelsHere = {"read", "write", "block"}
<1>1. CASE resource = "mail"
  <2>1. RowsHere = [service : {"gmail"}, level : {"one", "all", "hide"}, agent : BOOLEAN]
    BY <1>1 DEF RowsHere, LevelsHere, Services, Levels
  <2>2. RowsHere \subseteq Rows
    BY <2>1 DEF Rows, Levels
  <2>. QED BY <1>1, <2>1, <2>2, NoRow DEF LevelsHere, Levels
<1>2. CASE resource = "file"
  <2>1. RowsHere = [service : {"file", "drive"}, level : {"read", "write", "block"}, agent : BOOLEAN]
    BY <1>2 DEF RowsHere, LevelsHere, Services, Levels
  <2>2. RowsHere \subseteq Rows
    BY <2>1 DEF Rows, Levels
  <2>. QED BY <1>2, <2>1, <2>2, NoRow DEF LevelsHere, Levels
<1>. QED BY <1>1, <1>2

LEMMA TypedIsTypeOK == Typed => TypeOK
<1>. SUFFICES ASSUME Typed PROVE TypeOK
  OBVIOUS
<1>1. ASSUME NEW r \in RuleIds
      PROVE  /\ table[r] \in Rows \cup {NoRule}
             /\ table[r] # NoRule => table[r].service \in Services(resource)
             /\ assigned[r] \in SUBSET Keys
             /\ table[r] = NoRule => assigned[r] = {}
  <2>1. table[r] \in RowsHere \cup {NoRule}
    BY DEF Typed
  <2>. QED BY <2>1, HereIsTyped DEF Typed, RowsHere
<1>2. ASSUME NEW c \in Callers
      PROVE  /\ call[c].stage \in {"idle", "reading", "looking", "running", "done", "failed"}
             /\ call[c].stage = "running" <=> call[c].todo # <<>>
             /\ call[c].cands \in SUBSET RuleIds /\ call[c].alone \in BOOLEAN
  BY DEF Typed, CallOK, Sensible, Meant, CallRecord
<1>. QED BY <1>1, <1>2 DEF Typed, TypeOK

(* Statements and lists of them.                                           *)
LEMMA StatementsOK ==
         /\ \A r \in RuleIds \cup {New}, do \in {"rename", "clear", "remove", "delete", "look"} :
              Do(do, r) \in Statement
         /\ \A r \in RuleIds \cup {New}, ks \in SUBSET Keys,
               do \in {"assign", "pin", "pinquietly", "join", "unassign"} : Assign(do, r, ks) \in Statement
         /\ \A r \in RuleIds, level \in LevelsHere : Change(r, level) \in Statement
         /\ \A row \in RowsHere : Insert(row) \in Statement
  BY DEF Do, Assign, Change, Insert, Statement

LEMMA ListsOK ==
  ASSUME NEW S
  PROVE  /\ <<>> \in Seq(S)
         /\ \A a \in S : <<a>> \in Seq(S)
         /\ \A p \in Seq(S), q \in Seq(S) : p \o q \in Seq(S)
  BY ConcatProperties, EmptySeq

LEMMA TwoOK == ASSUME NEW a, NEW b PROVE <<a>> \o <<b>> = <<a, b>>
<1>. DEFINE s == <<a>> \o <<b>>
<1>1. s \in Seq({a, b}) /\ Len(s) = 2 /\ s[1] = a /\ s[2] = b
  <2>1. /\ <<a>> \in Seq({a, b}) /\ <<b>> \in Seq({a, b}) /\ Len(<<a>>) = 1 /\ Len(<<b>>) = 1
        /\ <<a>>[1] = a /\ <<b>>[1] = b
    OBVIOUS
  <2>. QED BY <2>1, ConcatProperties
<1>. HIDE DEF s
<1>2. s = <<a, b>>
  BY <1>1
<1>. QED BY <1>2 DEF s

LEMMA ThreeOK == ASSUME NEW a, NEW b, NEW d PROVE <<a>> \o <<b, d>> = <<a, b, d>>
<1>. DEFINE s == <<a>> \o <<b, d>>
<1>1. s \in Seq({a, b, d}) /\ Len(s) = 3 /\ s[1] = a /\ s[2] = b /\ s[3] = d
  <2>1. /\ <<a>> \in Seq({a, b, d}) /\ <<b, d>> \in Seq({a, b, d}) /\ Len(<<a>>) = 1 /\ Len(<<b, d>>) = 2
        /\ <<a>>[1] = a /\ <<b, d>>[1] = b /\ <<b, d>>[2] = d
    OBVIOUS
  <2>. QED BY <2>1, ConcatProperties
<1>. HIDE DEF s
<1>2. s = <<a, b, d>>
  BY <1>1
<1>. QED BY <1>2 DEF s

LEMMA NoneOK ==
  /\ <<>> \o <<>> = <<>>
  /\ \A a : <<a>> \o <<>> = <<a>>
  /\ \A a : <<>> \o <<a>> = <<a>>
  OBVIOUS

LEMMA HeadsOK ==
  /\ \A a : Head(<<a>>) = a /\ Tail(<<a>>) = <<>> /\ <<a>> # <<>>
  /\ \A a, b : Head(<<a, b>>) = a /\ Tail(<<a, b>>) = <<b>> /\ <<a, b>> # <<>>
  /\ \A a, b, d : Head(<<a, b, d>>) = a /\ Tail(<<a, b, d>>) = <<b, d>> /\ <<a, b, d>> # <<>>
<1>1. ASSUME NEW a PROVE Head(<<a>>) = a /\ Tail(<<a>>) = <<>> /\ <<a>> # <<>>
  OBVIOUS
<1>2. ASSUME NEW a, NEW b PROVE Head(<<a, b>>) = a /\ Tail(<<a, b>>) = <<b>> /\ <<a, b>> # <<>>
  OBVIOUS
<1>3. ASSUME NEW a, NEW b, NEW d
      PROVE  Head(<<a, b, d>>) = a /\ Tail(<<a, b, d>>) = <<b, d>> /\ <<a, b, d>> # <<>>
  OBVIOUS
<1>. QED BY <1>1, <1>2, <1>3

LEMMA AccessOK == Access \in [Keys -> Given]
<1>. SUFFICES ASSUME NEW k \in Keys PROVE [send |-> SendAccess(k), file |-> FileAccess(k), tree |-> TreeAccess(k)] \in Given
  BY DEF Access
<1>1. SendAccess(k) \in {"none", "one", "all"}
  BY DEF SendAccess, SendLevel
<1>2. \A levels : Combine(levels) \in {"read", "write", "block"}
  BY DEF Combine
<1>3. FileAccess(k) \in {"none", "read", "write", "block"}
  BY <1>2 DEF FileAccess, FileLevel
<1>4. TreeAccess(k) \in {"inherit", "read", "write", "block"}
  BY <1>2 DEF TreeAccess
<1>. QED BY <1>1, <1>3, <1>4 DEF Given

LEMMA NothingSeen == <<>> \in Views /\ DOMAIN <<>> = {}
<1>1. <<>> \in Seq({}) /\ Len(<<>>) = 0
  BY EmptySeq
<1>2. DOMAIN <<>> = 1..Len(<<>>)
  BY <1>1, LenProperties
<1>3. DOMAIN <<>> = {}
  BY <1>1, <1>2
<1>4. <<>> \in Views
  BY DEF Views
<1>. QED BY <1>3, <1>4

LEMMA IdleOK == CallOK(Idle) /\ Idle.stage = "idle"
<1>1. Idle \in CallRecord
  BY EmptySeq, NothingSeen DEF Idle, CallRecord, Ops
<1>2. /\ Idle.op = "none" /\ Idle.stage = "idle" /\ Idle.todo = <<>> /\ Idle.cands = {} /\ DOMAIN Idle.seen = {}
  BY NothingSeen DEF Idle
<1>. QED BY <1>1, <1>2 DEF CallOK, Sensible, Meant, MailOps, FileOps, KeyOps, OneRuleOps
------------------------------------------------------------------------------
(* What a call plans are lists of statements.                              *)
LEMMA OrdersOK ==
  ASSUME NEW S \in SUBSET RuleIds, NEW order \in SetToSeqs(S)
  PROVE  /\ Cardinality(S) \in Nat /\ order \in [1..Cardinality(S) -> S]
         /\ \A i, j \in DOMAIN order : i # j => order[i] # order[j]
<1>1. IsFiniteSet(S)
  BY Distinct, FS_Subset
<1>. QED BY <1>1, FS_CardinalityType DEF SetToSeqs

LEMMA EachOK ==
  ASSUME NEW S \in SUBSET RuleIds, NEW order \in SetToSeqs(S), NEW p, NEW G, DOMAIN p = DOMAIN order,
         p = [i \in DOMAIN order |-> p[i]], \A i \in DOMAIN order : p[i] \in G
  PROVE  p \in Seq(G)
<1>1. Cardinality(S) \in Nat /\ DOMAIN order = 1..Cardinality(S)
  BY OrdersOK
<1>2. p \in [1..Cardinality(S) -> G]
  BY <1>1
<1>. QED BY <1>1, <1>2, SeqDef

LEMMA DetachOK ==
  ASSUME Typed, NEW x, x.key \in Keys, NEW r \in RuleIds
  PROVE  Detach(x, r) \in Statement
BY StatementsOK DEF Detach

LEMMA PinOK ==
  ASSUME Typed, NEW x, NEW r \in RuleIds
  PROVE  Pin(x, r) \in Statement
BY StatementsOK DEF Pin, Typed

LEMMA CreateOK ==
  ASSUME NEW row \in RowsHere, NEW ks \in SUBSET Keys
  PROVE  Create(row, ks) \in Seq(Statement)
<1>1. <<Insert(row)>> \in Seq(Statement)
  BY StatementsOK, ListsOK
<1>2. AssignTo(New, ks) \in Seq(Statement)
  BY StatementsOK, ListsOK DEF AssignTo
<1>. QED BY <1>1, <1>2, ListsOK DEF Create

LEMMA ThenOK ==
  ASSUME NEW G, NEW A \in SUBSET Seq(G), NEW B \in SUBSET Seq(G)
  PROVE  Then(A, B) \subseteq Seq(G)
<1>. SUFFICES ASSUME NEW p \in Then(A, B) PROVE p \in Seq(G)
  OBVIOUS
<1>. PICK a \in A, b \in B : p = a \o b
  BY DEF Then
<1>. QED BY ListsOK

(* What a call of the tree engine plans: statements on the rules it found, *)
(* and on the row it inserts, which is the owner's.                        *)
TreeStatement(R) == {s \in Statement : s.rule \in R \cup {New} /\ (s.do = "insert" => ~s.row.agent)}

LEMMA TreeStatementsOK ==
  ASSUME Typed, NEW x, Sensible(x), x.op \in TreeOps
  PROVE  /\ \A r \in x.cands : Detach(x, r) \in TreeStatement(x.cands) /\ Pin(x, r) \in TreeStatement(x.cands)
         /\ x.op = "set" => /\ \A r \in x.cands : Change(r, x.want) \in TreeStatement(x.cands)
                            /\ Insert(Row("drive", x.want, FALSE)) \in TreeStatement(x.cands)
         /\ Assign("assign", New, {x.key}) \in TreeStatement(x.cands)
<1>1. x.key \in Keys /\ x.cands \subseteq RuleIds /\ live \subseteq Keys
  BY DEF Sensible, Meant, KeyOps, TreeOps, CallRecord, Typed
<1>2. ASSUME NEW r \in x.cands
      PROVE  Detach(x, r) \in TreeStatement(x.cands) /\ Pin(x, r) \in TreeStatement(x.cands)
  <2>1. Detach(x, r) \in Statement /\ Pin(x, r) \in Statement
    BY <1>1, DetachOK, PinOK
  <2>2. /\ Detach(x, r).rule = r /\ Detach(x, r).do # "insert"
        /\ Pin(x, r).rule = r /\ Pin(x, r).do # "insert"
    BY DEF Detach, Pin, Do, Assign
  <2>. QED BY <2>1, <2>2 DEF TreeStatement
<1>3. ASSUME x.op = "set"
      PROVE  /\ \A r \in x.cands : Change(r, x.want) \in TreeStatement(x.cands)
             /\ Insert(Row("drive", x.want, FALSE)) \in TreeStatement(x.cands)
  <2>1. x.want \in LevelsHere /\ resource = "file"
    BY <1>3 DEF Sensible, Meant, FileOps
  <2>2. Row("drive", x.want, FALSE) \in RowsHere
    BY <2>1 DEF Row, RowsHere, Services
  <2>3. \A r \in x.cands : Change(r, x.want) \in Statement /\ Insert(Row("drive", x.want, FALSE)) \in Statement
    BY <1>1, <2>1, <2>2, StatementsOK
  <2>. QED BY <2>2, <2>3, StatementsOK DEF TreeStatement, Change, Insert, Row
<1>4. Assign("assign", New, {x.key}) \in TreeStatement(x.cands)
  BY <1>1, StatementsOK DEF TreeStatement, Assign
<1>. QED BY <1>2, <1>3, <1>4

LEMMA EachTreeOK ==
  ASSUME Typed, NEW x, Sensible(x), x.op \in TreeOps, NEW S \in SUBSET x.cands
  PROVE  /\ Each(x, S, Detach) \subseteq Seq(TreeStatement(x.cands))
         /\ Each(x, S, Pin) \subseteq Seq(TreeStatement(x.cands))
<1>1. S \in SUBSET RuleIds
  BY DEF Sensible, Meant, CallRecord
<1>. SUFFICES ASSUME NEW order \in SetToSeqs(S)
              PROVE  /\ [i \in DOMAIN order |-> Detach(x, order[i])] \in Seq(TreeStatement(x.cands))
                     /\ [i \in DOMAIN order |-> Pin(x, order[i])] \in Seq(TreeStatement(x.cands))
  BY DEF Each
<1>2. \A i \in DOMAIN order : order[i] \in x.cands
  BY <1>1, OrdersOK
<1>3. \A i \in DOMAIN order : /\ Detach(x, order[i]) \in TreeStatement(x.cands)
                              /\ Pin(x, order[i]) \in TreeStatement(x.cands)
  BY <1>2, TreeStatementsOK
<1>. QED BY <1>1, <1>3, EachOK

LEMMA TreePlansOK ==
  ASSUME Typed, NEW x, Sensible(x), x.op \in TreeOps, NEW p \in Plans(x)
  PROVE  p \in Seq(TreeStatement(x.cands))
<1>1. Mine(x) \subseteq x.cands /\ Globals(x) \subseteq x.cands
  BY DEF Mine, Globals, Seen, Sensible
<1>2. CASE x.op \in {"inherit", "clear"}
  <2>1. p \in InheritPlans(x)
    BY <1>2 DEF Plans, OneRuleOps
  <2>. QED BY <1>1, <2>1, EachTreeOK, ThenOK DEF InheritPlans
<1>3. CASE x.op = "set"
  <2>0. p \in SetPlans(x)
    BY <1>3 DEF Plans, OneRuleOps
  <2>1. CASE p \in Then(Each(x, Mine(x), Detach), {Create(Row("drive", x.want, FALSE), {x.key})})
    <3>1. /\ <<Insert(Row("drive", x.want, FALSE))>> \in Seq(TreeStatement(x.cands))
          /\ <<Assign("assign", New, {x.key})>> \in Seq(TreeStatement(x.cands))
      BY <1>3, TreeStatementsOK, ListsOK
    <3>2. Create(Row("drive", x.want, FALSE), {x.key}) \in Seq(TreeStatement(x.cands))
      BY <3>1, ListsOK DEF Create, AssignTo
    <3>. QED BY <1>1, <2>1, <3>2, EachTreeOK, ThenOK
  <2>2. CASE \E r \in Mine(x) : p \in Then({<<Change(r, x.want)>>}, Each(x, Mine(x) \ {r}, Detach))
    <3>. PICK r \in Mine(x) : p \in Then({<<Change(r, x.want)>>}, Each(x, Mine(x) \ {r}, Detach))
      BY <2>2
    <3>1. <<Change(r, x.want)>> \in Seq(TreeStatement(x.cands))
      BY <1>1, <1>3, TreeStatementsOK, ListsOK
    <3>2. Each(x, Mine(x) \ {r}, Detach) \subseteq Seq(TreeStatement(x.cands))
      BY <1>1, EachTreeOK
    <3>. QED BY <3>1, <3>2, ThenOK
  <2>. QED BY <2>0, <2>1, <2>2 DEF SetPlans
<1>. QED BY <1>2, <1>3 DEF TreeOps

LEMMA PartsOfLists ==
  ASSUME NEW A, NEW B, NEW p \in Seq(A), \A i \in DOMAIN p : p[i] \in B
  PROVE  p \in Seq(B)
<1>1. p \in [1..Len(p) -> A] /\ Len(p) \in Nat
  BY LenProperties
<1>2. p \in [1..Len(p) -> B]
  BY <1>1
<1>. QED BY <1>1, <1>2, SeqDef

LEMMA PlansOK ==
  ASSUME Typed, NEW x, Sensible(x), x.op # "none", NEW p \in Plans(x)
  PROVE  p \in Seq(Statement)
<1>0. /\ resource \in {"mail", "file"} /\ x.op \in Ops /\ x.keys \in SUBSET Keys /\ x.cands \in SUBSET RuleIds
      /\ x.op \in KeyOps => x.key \in Keys
      /\ x.op \in OneRuleOps => x.rule \in RuleIds
      /\ x.op \in {"update", "level", "approve", "set"} => x.want \in LevelsHere
      /\ x.op \in {"create", "created"} => x.want \in RowsHere
      /\ x.op \in MailOps => resource = "mail"
      /\ x.op \in FileOps => resource = "file"
      /\ Seen(x) \subseteq x.cands
  BY DEF Sensible, Meant, CallRecord, Typed, Seen
<1>1. CASE x.op \in {"create", "created"}
  <2>1. CASE x.op = "create"
    <3>1. p = Create(x.want, x.keys)
      BY <2>1 DEF Plans, OneRuleOps
    <3>. QED BY <1>0, <2>1, <3>1, CreateOK
  <2>2. CASE x.op = "created"
    <3>1. p = Create(x.want, {x.key}) /\ x.key \in Keys
      BY <1>0, <2>2 DEF Plans, OneRuleOps, KeyOps
    <3>. QED BY <1>0, <2>2, <3>1, CreateOK
  <2>. QED BY <1>1, <2>1, <2>2
<1>2. CASE x.op \in OneRuleOps
  <2>1. CASE x.cands = {}
    <3>1. p = <<>>
      BY <1>2, <2>1 DEF Plans, OneRuleOps
    <3>. QED BY <3>1, ListsOK
  <2>2. CASE x.cands # {}
    <3>1. CASE x.op = "update"
      <4>1. p = <<Change(x.rule, x.want), Do("clear", x.rule)>> \o AssignTo(x.rule, x.keys)
        BY <2>2, <3>1 DEF Plans, OneRuleOps
      <4>2. <<Change(x.rule, x.want), Do("clear", x.rule)>> = <<Change(x.rule, x.want)>> \o <<Do("clear", x.rule)>>
        OBVIOUS
      <4>3. AssignTo(x.rule, x.keys) \in Seq(Statement)
        BY <1>0, <1>2, StatementsOK, ListsOK DEF AssignTo
      <4>4. <<Change(x.rule, x.want)>> \in Seq(Statement) /\ <<Do("clear", x.rule)>> \in Seq(Statement)
        BY <1>0, <1>2, <3>1, StatementsOK, ListsOK
      <4>. QED BY <4>1, <4>2, <4>3, <4>4, ListsOK
    <3>2. CASE x.op = "delete"
      <4>1. p = <<Do("delete", x.rule)>>
        BY <2>2, <3>2 DEF Plans, OneRuleOps
      <4>. QED BY <1>0, <1>2, <4>1, StatementsOK, ListsOK
    <3>3. CASE x.op = "level"
      <4>1. p = <<Change(x.rule, x.want)>>
        BY <2>2, <3>3 DEF Plans, OneRuleOps
      <4>. QED BY <1>0, <1>2, <3>3, <4>1, StatementsOK, ListsOK
    <3>4. CASE x.op = "assign"
      <4>1. p = <<Assign("pinquietly", x.rule, {x.key})>> /\ x.key \in Keys
        BY <1>0, <2>2, <3>4 DEF Plans, OneRuleOps, KeyOps
      <4>. QED BY <1>0, <1>2, <4>1, StatementsOK, ListsOK
    <3>5. CASE x.op = "unassign"
      <4>1. p = <<Assign("unassign", x.rule, {x.key})>> /\ x.key \in Keys
        BY <1>0, <2>2, <3>5 DEF Plans, OneRuleOps, KeyOps
      <4>. QED BY <1>0, <1>2, <4>1, StatementsOK, ListsOK
    <3>. QED BY <1>2, <3>1, <3>2, <3>3, <3>4, <3>5 DEF OneRuleOps
  <2>. QED BY <2>1, <2>2
<1>3. CASE x.op = "recommend"
  <2>1. Row("gmail", "hide", FALSE) \in RowsHere
    BY <1>0, <1>3, HereIsTyped DEF Row, MailOps
  <2>2. p = <<Insert(Row("gmail", "hide", FALSE))>> \/ p = <<>>
    BY <1>3 DEF Plans, OneRuleOps
  <2>. QED BY <2>1, <2>2, StatementsOK, ListsOK
<1>4. CASE x.op = "expose"
  <2>1. p \in ExposePlans(x)
    BY <1>4 DEF Plans, OneRuleOps
  <2>2. CASE x.cands = {}
    <3>1. Row("file", "read", FALSE) \in RowsHere
      BY <1>0, <1>4, HereIsTyped DEF Row, FileOps
    <3>. QED BY <2>1, <2>2, <3>1, CreateOK DEF ExposePlans
  <2>3. CASE x.cands # {}
    <3>. PICK r \in x.cands : p = <<Do("rename", r)>> \o (IF x.key \in Keys
                                     THEN <<Do("look", r), Assign("join", r, {x.key})>> ELSE <<>>)
      BY <2>1, <2>3 DEF ExposePlans
    <3>1. r \in RuleIds
      BY <1>0
    <3>2. <<Do("look", r), Assign("join", r, {x.key})>> = <<Do("look", r)>> \o <<Assign("join", r, {x.key})>>
      OBVIOUS
    <3>3. <<Do("rename", r)>> \in Seq(Statement) /\ <<Do("look", r)>> \in Seq(Statement)
      BY <3>1, StatementsOK, ListsOK
    <3>4. x.key \in Keys => <<Assign("join", r, {x.key})>> \in Seq(Statement)
      BY <3>1, StatementsOK, ListsOK
    <3>. QED BY <3>2, <3>3, <3>4, ListsOK
  <2>. QED BY <2>2, <2>3
<1>5. CASE x.op = "anyone"
  <2>1. p \in AnyonePlans(x)
    BY <1>5 DEF Plans, OneRuleOps
  <2>2. Row("gmail", "all", FALSE) \in RowsHere /\ x.key \in Keys
    BY <1>0, <1>5, HereIsTyped DEF Row, MailOps, KeyOps
  <2>3. Create(Row("gmail", "all", FALSE), {x.key}) \in Seq(Statement)
    BY <2>2, CreateOK
  <2>4. \A r \in x.cands : <<Assign("assign", r, {x.key})>> \in Seq(Statement)
    BY <1>0, <2>2, StatementsOK, ListsOK
  <2>. QED BY <2>1, <2>3, <2>4, ListsOK DEF AnyonePlans
<1>6. CASE x.op = "approve"
  <2>1. p \in ApprovePlans(x)
    BY <1>6 DEF Plans, OneRuleOps
  <2>2. Row(IF resource = "mail" THEN "gmail" ELSE "file", x.want, FALSE) \in RowsHere /\ x.key \in Keys
    BY <1>0, <1>6 DEF Row, RowsHere, Services, KeyOps
  <2>3. Create(Row(IF resource = "mail" THEN "gmail" ELSE "file", x.want, FALSE), {x.key}) \in Seq(Statement)
    BY <2>2, CreateOK
  <2>. QED BY <2>1, <2>3, ListsOK DEF ApprovePlans
<1>7. CASE x.op \in TreeOps
  <2>1. p \in Seq(TreeStatement(x.cands))
    BY <1>7, TreePlansOK
  <2>. QED BY <2>1, PartsOfLists DEF TreeStatement
<1>. QED BY <1>0, <1>1, <1>2, <1>3, <1>4, <1>5, <1>6, <1>7 DEF Ops, OneRuleOps, TreeOps
------------------------------------------------------------------------------
(* The types are kept.                                                     *)
CallsTyped == call \in [Callers -> CallRecord] /\ \A c \in Callers : CallOK(call[c])

LEMMA SameTypes ==
  ASSUME UNCHANGED resource
  PROVE  /\ LevelsHere' = LevelsHere /\ RowsHere' = RowsHere /\ CallRecord' = CallRecord
         /\ \A x : CallOK(x)' <=> CallOK(x)
BY DEF LevelsHere, RowsHere, CallRecord, Statement, CallOK, Sensible, Meant

LEMMA CallsReplaced ==
  ASSUME Typed, UNCHANGED resource, NEW c \in Callers, NEW y, CallOK(y), call' = [call EXCEPT ![c] = y]
  PROVE  CallsTyped'
<1>1. y \in CallRecord
  BY DEF CallOK, Sensible, Meant
<1>2. call' \in [Callers -> CallRecord] /\ \A d \in Callers : call'[d] = y \/ call'[d] = call[d]
  BY <1>1 DEF Typed
<1>. QED BY <1>2, SameTypes DEF Typed, CallsTyped

LEMMA PlannedFromPlans ==
  ASSUME NEW x, Meant(x), x.op # "none", NEW y \in Planned(x), \A p \in Plans(x) : p \in Seq(Statement)
  PROVE  CallOK(y)
<1>. PICK p \in Plans(x) :
       y = [x EXCEPT !.todo = p, !.stage = IF p = <<>> THEN "done" ELSE "running", !.cands = {}, !.seen = <<>>]
  BY DEF Planned
<1>1. p \in Seq(Statement)
  OBVIOUS
<1>2. x \in CallRecord
  BY DEF Sensible, Meant
<1>. HIDE DEF Plans
<1>3. y \in CallRecord
  BY <1>1, <1>2, NothingSeen DEF CallRecord
<1>4. /\ y.op = x.op /\ y.key = x.key /\ y.want = x.want /\ y.rule = x.rule /\ y.todo = p
      /\ y.stage = (IF p = <<>> THEN "done" ELSE "running") /\ y.cands = {} /\ y.seen = <<>>
  BY <1>2 DEF CallRecord
<1>. QED BY <1>3, <1>4, NothingSeen DEF CallOK, Sensible, Meant

LEMMA PlannedOK ==
  ASSUME Typed, NEW x, Sensible(x), x.op # "none", NEW y \in Planned(x)
  PROVE  CallOK(y)
<1>1. \A p \in Plans(x) : p \in Seq(Statement)
  BY PlansOK
<1>. QED BY <1>1, PlannedFromPlans DEF Sensible

LEMMA PlannedFields ==
  ASSUME NEW x \in CallRecord, NEW y \in Planned(x)
  PROVE  /\ y.todo \in Plans(x)
         /\ y.stage = (IF y.todo = <<>> THEN "done" ELSE "running") /\ y.cands = {} /\ y.seen = <<>>
         /\ y.op = x.op /\ y.key = x.key /\ y.want = x.want /\ y.rule = x.rule /\ y.keys = x.keys
         /\ y.before = x.before /\ y.alone = x.alone
  BY ZenonT(30) DEF Planned, CallRecord

(* A call begins with what it was called with.                             *)
Begun(op, key, want, rule, ks) ==
  [Idle EXCEPT !.op = op, !.key = key, !.want = want, !.rule = rule, !.keys = ks,
               !.stage = "reading", !.before = Access, !.alone = Busy = {}]

Arguments(op, key, want, rule, ks) ==
  /\ op \in Ops \ {"none"} /\ key \in Keys \cup {"none", "every"} /\ want \in RowsHere \cup LevelsHere \cup {"none", "hide"}
  /\ rule \in RuleIds \cup {New} /\ ks \in SUBSET Keys
  /\ op \in MailOps => resource = "mail"
  /\ op \in FileOps => resource = "file"
  /\ op \in KeyOps => key \in Keys
  /\ op \in {"create", "created"} => want \in RowsHere
  /\ op \in {"update", "level", "approve", "set"} => want \in LevelsHere
  /\ op \in OneRuleOps => rule \in RuleIds

LEMMA BegunOK ==
  ASSUME NEW op, NEW key, NEW want, NEW rule, NEW ks, Arguments(op, key, want, rule, ks)
  PROVE  LET x == Begun(op, key, want, rule, ks)
         IN  /\ CallOK(x) /\ x.op = op /\ x.key = key /\ x.want = want /\ x.rule = rule /\ x.keys = ks
             /\ x.stage = "reading" /\ x.before = Access /\ x.alone = (Busy = {}) /\ x.cands = {} /\ x.seen = <<>>
             /\ x.todo = <<>>
<1>. DEFINE x == Begun(op, key, want, rule, ks)
<1>0. (Busy = {}) \in BOOLEAN
  OBVIOUS
<1>. HIDE DEF Access, Busy
<1>2. x \in CallRecord
  <2>1. Idle \in CallRecord
    BY IdleOK DEF CallOK, Sensible, Meant
  <2>. DEFINE y == [Idle EXCEPT !.op = op, !.key = key, !.want = want, !.rule = rule, !.keys = ks]
  <2>2. y \in CallRecord
    <3>1. /\ op \in Ops /\ key \in Keys \cup {"none", "every"} /\ rule \in RuleIds \cup {New} /\ ks \in SUBSET Keys
          /\ want \in RowsHere \cup LevelsHere \cup {"none", "hide"}
      BY DEF Arguments
    <3>. QED BY ZenonT(30), <2>1, <3>1 DEF CallRecord
  <2>3. x = [y EXCEPT !.stage = "reading", !.before = Access, !.alone = Busy = {}]
    BY DEF Begun
  <2>. HIDE DEF x, y
  <2>. QED BY ZenonT(30), <1>0, <2>2, <2>3, AccessOK DEF CallRecord
<1>1. /\ x.op = op /\ x.key = key /\ x.want = want /\ x.rule = rule /\ x.keys = ks
      /\ x.stage = "reading" /\ x.before = Access /\ x.alone = (Busy = {}) /\ x.cands = {} /\ x.seen = <<>>
      /\ x.todo = <<>>
  BY DEF Begun, Idle
<1>3. DOMAIN x.seen = {}
  BY <1>1, NothingSeen
<1>. HIDE DEF x
<1>4. CallOK(x)
  BY <1>1, <1>2, <1>3 DEF CallOK, Sensible, Meant, Arguments
<1>5. /\ x.op = op /\ x.key = key /\ x.want = want /\ x.rule = rule /\ x.keys = ks
      /\ x.stage = "reading" /\ x.before = Access /\ x.alone = (Busy = {}) /\ x.cands = {} /\ x.seen = <<>>
      /\ x.todo = <<>>
  BY <1>1
<1>. QED BY <1>4, <1>5 DEF x

(* How a call begins: the others see that it is not alone.                 *)
StartsAs(c, y) == call' = [d \in Callers |-> IF d = c THEN y ELSE [call[d] EXCEPT !.alone = FALSE]]

LEMMA StartStep ==
  ASSUME Typed, NEW c \in Callers, NEW op, NEW key, NEW want, NEW rule, NEW ks,
         Start(c, op, key, want, rule, ks), Arguments(op, key, want, rule, ks)
  PROVE  \E y \in CallRecord :
           /\ CallOK(y) /\ StartsAs(c, y) /\ UNCHANGED <<resource, table, assigned, live>>
           /\ y.op = op /\ y.key = key /\ y.want = want /\ y.rule = rule /\ y.keys = ks
           /\ y.cands = {} /\ y.seen = <<>> /\ y.before = Access /\ y.alone = (Busy = {})
           /\ IF op \in {"create", "created"}
              THEN /\ y.todo \in Plans(Begun(op, key, want, rule, ks))
                   /\ y.stage = (IF y.todo = <<>> THEN "done" ELSE "running")
              ELSE y.todo = <<>> /\ y.stage = "reading"
<1>. DEFINE x == Begun(op, key, want, rule, ks)
<1>1. /\ CallOK(x) /\ x.op = op /\ x.key = key /\ x.want = want /\ x.rule = rule /\ x.keys = ks
      /\ x.stage = "reading" /\ x.before = Access /\ x.alone = (Busy = {}) /\ x.cands = {} /\ x.seen = <<>>
      /\ x.todo = <<>> /\ op # "none"
  BY BegunOK DEF Arguments
<1>2. PICK y \in (IF op \in {"create", "created"} THEN Planned(x) ELSE {x}) : StartsAs(c, y)
  BY DEF Start, Begun, StartsAs
<1>3. UNCHANGED <<resource, table, assigned, live>>
  BY DEF Start
<1>. HIDE DEF x
<1>4. x \in CallRecord
  BY <1>1 DEF CallOK, Sensible, Meant
<1>5. CASE op \in {"create", "created"}
  <2>1. CallOK(y) /\ y \in CallRecord
    BY <1>1, <1>2, <1>5, PlannedOK DEF CallOK, Sensible, Meant
  <2>2. y \in Planned(x)
    BY <1>2, <1>5
  <2>3. /\ y.op = op /\ y.key = key /\ y.want = want /\ y.rule = rule /\ y.keys = ks
        /\ y.cands = {} /\ y.seen = <<>> /\ y.before = Access /\ y.alone = (Busy = {})
        /\ y.todo \in Plans(x) /\ y.stage = (IF y.todo = <<>> THEN "done" ELSE "running")
    BY <1>1, <1>4, <2>2, PlannedFields
  <2>. QED BY <1>2, <1>3, <1>5, <2>1, <2>3 DEF x
<1>6. CASE op \notin {"create", "created"}
  <2>1. y = x
    BY <1>2, <1>6
  <2>. QED BY <1>1, <1>2, <1>3, <1>4, <1>6, <2>1
<1>. QED BY <1>5, <1>6

LEMMA StartedTyped ==
  ASSUME Typed, NEW c \in Callers, NEW y \in CallRecord, CallOK(y), StartsAs(c, y),
         UNCHANGED <<resource, table, assigned, live>>
  PROVE  Typed'
<1>1. ASSUME NEW d \in Callers PROVE call'[d] \in CallRecord /\ CallOK(call'[d])
  <2>1. CASE d = c
    BY <2>1 DEF StartsAs
  <2>2. CASE d # c
    <3>1. call[d] \in CallRecord /\ CallOK(call[d]) /\ call'[d] = [call[d] EXCEPT !.alone = FALSE]
      BY <2>2 DEF Typed, StartsAs
    <3>2. call'[d] \in CallRecord
      BY <3>1 DEF CallRecord
    <3>3. /\ call'[d].op = call[d].op /\ call'[d].key = call[d].key /\ call'[d].want = call[d].want
          /\ call'[d].rule = call[d].rule /\ call'[d].todo = call[d].todo /\ call'[d].stage = call[d].stage
          /\ call'[d].cands = call[d].cands /\ call'[d].seen = call[d].seen
      BY <3>1 DEF CallRecord
    <3>. QED BY <3>1, <3>2, <3>3 DEF CallOK, Sensible, Meant
  <2>. QED BY <2>1, <2>2
<1>2. call' = [d \in Callers |-> call'[d]]
  BY DEF StartsAs
<1>. QED BY <1>1, <1>2, SameTypes DEF Typed

(* What the dashboard and the approval page offer.                         *)
Offered(op, key, want, rule, ks) ==
  /\ Arguments(op, key, want, rule, ks) /\ op # "created"
  /\ op = "create" => resource = "mail"
  /\ op = "assign" => assigned[rule] # {}
  /\ op = "anyone" => want = "all"
  /\ op = "approve" => want \in {"one", "all", "read", "write"}

Opens(c) ==
  \E op \in Ops, key \in Keys \cup {"none", "every"} : \E want, rule, ks :
    Offered(op, key, want, rule, ks) /\ Start(c, op, key, want, rule, ks)

LEMMA BeginStep == ASSUME Typed, NEW c \in Callers, Begin(c) PROVE Opens(c)
<1>. USE DEF Ops, MailOps, FileOps, KeyOps, OneRuleOps
<1>0. New \in RuleIds \cup {New} /\ {} \in SUBSET Keys /\ live \subseteq Keys /\ Existing \subseteq RuleIds
  BY DEF Typed, Existing
<1>1. CASE OfMail(c)
  <2>0. /\ resource = "mail" /\ LevelsHere = {"one", "all", "hide"} /\ Levels("gmail") = {"one", "all", "hide"}
        /\ RowsHere = [service : {"gmail"}, level : {"one", "all", "hide"}, agent : BOOLEAN]
    BY <1>1, HereIsTyped DEF OfMail, Levels
  <2>1. ASSUME NEW l \in Levels("gmail"), NEW ks \in SUBSET Keys,
               Start(c, "create", "none", Row("gmail", l, FALSE), New, ks) PROVE Opens(c)
    <3>1. Row("gmail", l, FALSE) \in RowsHere
      BY <2>0 DEF Row
    <3>2. Offered("create", "none", Row("gmail", l, FALSE), New, ks)
      BY <1>0, <2>0, <3>1 DEF Arguments, Offered
    <3>. QED BY <2>1, <3>2 DEF Opens, Offered, Arguments
  <2>2. ASSUME NEW r \in Existing, NEW l \in Levels("gmail"), NEW ks \in SUBSET Keys,
               Start(c, "update", "none", l, r, ks) PROVE Opens(c)
    <3>1. Offered("update", "none", l, r, ks)
      BY <1>0, <2>0 DEF Arguments, Offered
    <3>. QED BY <2>2, <3>1 DEF Opens, Offered, Arguments
  <2>3. ASSUME NEW k \in live, Start(c, "anyone", k, "all", New, {}) PROVE Opens(c)
    <3>1. Offered("anyone", k, "all", New, {})
      BY <1>0, <2>0 DEF Arguments, Offered
    <3>. QED BY <2>3, <3>1 DEF Opens, Offered, Arguments
  <2>4. ASSUME NEW k \in live, NEW l \in {"one", "all"}, Start(c, "approve", k, l, New, {}) PROVE Opens(c)
    <3>1. Offered("approve", k, l, New, {})
      BY <1>0, <2>0 DEF Arguments, Offered
    <3>. QED BY <2>4, <3>1 DEF Opens, Offered, Arguments
  <2>5. ASSUME Start(c, "recommend", "none", "hide", New, {}) PROVE Opens(c)
    <3>1. Offered("recommend", "none", "hide", New, {})
      BY <1>0, <2>0 DEF Arguments, Offered
    <3>. QED BY <2>5, <3>1 DEF Opens, Offered, Arguments
  <2>. QED BY <1>1, <2>1, <2>2, <2>3, <2>4, <2>5 DEF OfMail
<1>2. CASE OfFile(c)
  <2>0. /\ resource = "file" /\ LevelsHere = {"read", "write", "block"}
        /\ Levels("file") = {"read", "write", "block"} /\ Levels("drive") = {"read", "write", "block"}
    BY <1>2, HereIsTyped DEF OfFile, Levels
  <2>1. ASSUME NEW r \in Existing, NEW l \in Levels("file"), Start(c, "level", "none", l, r, {}) PROVE Opens(c)
    <3>1. Offered("level", "none", l, r, {})
      BY <1>0, <2>0 DEF Arguments, Offered
    <3>. QED BY <2>1, <3>1 DEF Opens, Offered, Arguments
  <2>2. ASSUME NEW k \in Keys \cup {"every"}, Start(c, "expose", k, "read", New, {}) PROVE Opens(c)
    <3>1. Offered("expose", k, "read", New, {})
      BY <1>0, <2>0 DEF Arguments, Offered
    <3>. QED BY <2>2, <3>1 DEF Opens, Offered, Arguments
  <2>3. ASSUME NEW k \in live, NEW l \in {"read", "write"}, Start(c, "approve", k, l, New, {}) PROVE Opens(c)
    <3>1. Offered("approve", k, l, New, {})
      BY <1>0, <2>0 DEF Arguments, Offered
    <3>. QED BY <2>3, <3>1 DEF Opens, Offered, Arguments
  <2>4. ASSUME NEW k \in live, NEW l \in Levels("drive"), Start(c, "set", k, l, New, {}) PROVE Opens(c)
    <3>1. Offered("set", k, l, New, {})
      BY <1>0, <2>0 DEF Arguments, Offered
    <3>. QED BY <2>4, <3>1 DEF Opens, Offered, Arguments
  <2>5. ASSUME NEW k \in live, NEW op \in {"inherit", "clear"}, Start(c, op, k, "none", New, {}) PROVE Opens(c)
    <3>1. Offered(op, k, "none", New, {})
      BY <1>0, <2>0 DEF Arguments, Offered
    <3>. QED BY <2>5, <3>1 DEF Opens, Offered, Arguments
  <2>. QED BY <1>2, <2>1, <2>2, <2>3, <2>4, <2>5 DEF OfFile
<1>3. CASE OfOneRule(c)
  <2>1. ASSUME NEW r \in Existing, Start(c, "delete", "none", "none", r, {}) PROVE Opens(c)
    <3>1. Offered("delete", "none", "none", r, {})
      BY <1>0 DEF Arguments, Offered
    <3>. QED BY <2>1, <3>1 DEF Opens, Offered, Arguments
  <2>2. ASSUME NEW r \in Existing, NEW k \in Keys, NEW op \in {"assign", "unassign"},
               op = "assign" => assigned[r] # {}, Start(c, op, k, "none", r, {}) PROVE Opens(c)
    <3>1. Offered(op, k, "none", r, {})
      BY <1>0, <2>2 DEF Arguments, Offered
    <3>. QED BY <2>2, <3>1 DEF Opens, Offered, Arguments
  <2>. QED BY <1>3, <2>1, <2>2 DEF OfOneRule
<1>. QED BY <1>1, <1>2, <1>3 DEF Begin

LEMMA BeginOK == ASSUME Typed, NEW c \in Callers, Begin(c) PROVE Typed'
<1>1. Opens(c)
  BY BeginStep
<1>2. PICK op, key, want, rule, ks : Arguments(op, key, want, rule, ks) /\ Start(c, op, key, want, rule, ks)
  BY <1>1 DEF Opens, Offered
<1>3. PICK y \in CallRecord : CallOK(y) /\ StartsAs(c, y) /\ UNCHANGED <<resource, table, assigned, live>>
  BY <1>2, StartStep
<1>. QED BY <1>3, StartedTyped

(* The call with the rules it found, and with what it has seen of them.    *)
Finding(c, cands) == [call[c] EXCEPT !.cands = cands]
Seeing(c, rs) == [call[c] EXCEPT !.seen = [r \in Seen(call[c]) \cup rs |->
                                            IF r \in rs THEN assigned[r] ELSE call[c].seen[r]]]
SameCall(x, c) ==
  /\ x \in CallRecord /\ Sensible(x) /\ x.op # "none"
  /\ x.op = call[c].op /\ x.key = call[c].key /\ x.want = call[c].want /\ x.rule = call[c].rule
  /\ x.keys = call[c].keys /\ x.todo = call[c].todo /\ x.stage = call[c].stage
  /\ x.before = call[c].before /\ x.alone = call[c].alone

LEMMA FindingOK ==
  ASSUME Typed, NEW c \in Callers, call[c].stage = "reading", NEW cands \in SUBSET RuleIds
  PROVE  SameCall(Finding(c, cands), c) /\ Finding(c, cands).cands = cands /\ Finding(c, cands).seen = call[c].seen
<1>0. call[c] \in CallRecord /\ CallOK(call[c]) /\ call[c].cands = {}
  BY DEF Typed, CallOK
<1>. DEFINE x == Finding(c, cands)
<1>1. x \in CallRecord
  BY <1>0 DEF CallRecord, Finding
<1>2. /\ x.op = call[c].op /\ x.key = call[c].key /\ x.want = call[c].want /\ x.rule = call[c].rule
      /\ x.keys = call[c].keys /\ x.todo = call[c].todo /\ x.stage = call[c].stage
      /\ x.before = call[c].before /\ x.alone = call[c].alone /\ x.seen = call[c].seen /\ x.cands = cands
  BY <1>0 DEF CallRecord, Finding
<1>. HIDE DEF x
<1>3. Sensible(x) /\ x.op # "none"
  BY <1>0, <1>1, <1>2 DEF CallOK, Sensible, Meant
<1>. QED BY <1>1, <1>2, <1>3 DEF SameCall, x

LEMMA ReadStep ==
  ASSUME Typed, NEW c \in Callers, Read(c)
  PROVE  \E cands \in SUBSET RuleIds :
           /\ cands \subseteq Candidates(call[c])
           /\ call[c].op = "expose" \/ cands = Candidates(call[c])
           /\ call[c].op = "expose" => \/ cands = {} /\ Candidates(call[c]) = {}
                                       \/ \E r \in RuleIds : cands = {r}
           /\ \E y : /\ call' = [call EXCEPT ![c] = y]
                     /\ IF call[c].op \in TreeOps \cup {"anyone", "approve"} /\ cands # {}
                        THEN y = [Finding(c, cands) EXCEPT !.stage = "looking"]
                        ELSE y \in Planned(Finding(c, cands))
<1>. DEFINE found == Candidates(call[c])
<1>1. found \subseteq RuleIds /\ call[c] \in CallRecord
  BY DEF Candidates, Select, Existing, Read, Typed
<1>2. \A cands : Finding(c, cands).op = call[c].op
  BY <1>1 DEF Finding, CallRecord
<1>3. PICK cands \in (IF call[c].op = "expose" /\ found # {} THEN {{r} : r \in found} ELSE {found}) :
        \E y \in (IF Finding(c, cands).op \in TreeOps \cup {"anyone", "approve"} /\ cands # {}
                  THEN {[Finding(c, cands) EXCEPT !.stage = "looking"]} ELSE Planned(Finding(c, cands))) :
          call' = [call EXCEPT ![c] = y]
  BY DEF Read, Finding
<1>. HIDE DEF found
<1>4. /\ cands \subseteq found
      /\ call[c].op = "expose" \/ cands = found
      /\ call[c].op = "expose" => (cands = {} /\ found = {}) \/ \E r \in RuleIds : cands = {r}
  BY <1>1, <1>3
<1>5. PICK y : /\ call' = [call EXCEPT ![c] = y]
               /\ IF call[c].op \in TreeOps \cup {"anyone", "approve"} /\ cands # {}
                  THEN y = [Finding(c, cands) EXCEPT !.stage = "looking"]
                  ELSE y \in Planned(Finding(c, cands))
  BY <1>2, <1>3
<1>. QED BY <1>1, <1>4, <1>5 DEF found

LEMMA ReadOK == ASSUME Typed, NEW c \in Callers, Read(c) PROVE Typed'
<1>0. call[c].stage = "reading" /\ UNCHANGED <<resource, table, assigned, live>>
  BY DEF Read
<1>1. PICK cands \in SUBSET RuleIds :
        \E y \in {[Finding(c, cands) EXCEPT !.stage = "looking"]} \cup Planned(Finding(c, cands)) :
          call' = [call EXCEPT ![c] = y]
  BY ReadStep
<1>6. PICK y \in {[Finding(c, cands) EXCEPT !.stage = "looking"]} \cup Planned(Finding(c, cands)) :
        call' = [call EXCEPT ![c] = y]
  BY <1>1
<1>. DEFINE x == Finding(c, cands)
<1>5. x \in CallRecord /\ Sensible(x) /\ x.op # "none" /\ x.stage = "reading"
  BY <1>0, FindingOK DEF SameCall
<1>. HIDE DEF x
<1>7. CallOK(y)
  <2>1. CASE y \in Planned(x)
    BY <1>5, <2>1, PlannedOK
  <2>2. CASE y = [x EXCEPT !.stage = "looking"]
    <3>1. y \in CallRecord
      BY <1>5, <2>2 DEF CallRecord
    <3>2. /\ y.op = x.op /\ y.key = x.key /\ y.want = x.want /\ y.rule = x.rule
          /\ y.todo = x.todo /\ y.stage = "looking" /\ y.seen = x.seen /\ y.cands = x.cands
      BY <1>5, <2>2 DEF CallRecord
    <3>. QED BY <1>5, <3>1, <3>2 DEF CallOK, Sensible, Meant
  <2>. QED BY <1>6, <2>1, <2>2 DEF x
<1>8. CallsTyped'
  BY <1>0, <1>6, <1>7, CallsReplaced
<1>. QED BY <1>0, <1>8, SameTypes DEF Typed, CallsTyped

LEMMA SeeingOK ==
  ASSUME Typed, NEW c \in Callers, call[c].stage = "looking", NEW rs \in SUBSET call[c].cands
  PROVE  /\ SameCall(Seeing(c, rs), c) /\ Seeing(c, rs).cands = call[c].cands
         /\ Seen(Seeing(c, rs)) = Seen(call[c]) \cup rs
         /\ \A r \in Seen(call[c]) \cup rs : Seeing(c, rs).seen[r] = IF r \in rs THEN assigned[r] ELSE call[c].seen[r]
<1>0. /\ call[c] \in CallRecord /\ CallOK(call[c])
      /\ call[c].cands \subseteq RuleIds /\ call[c].seen \in Views /\ DOMAIN call[c].seen \subseteq call[c].cands
  BY DEF Typed, CallOK, Sensible, Meant, CallRecord
<1>. DEFINE view == [r \in Seen(call[c]) \cup rs |-> IF r \in rs THEN assigned[r] ELSE call[c].seen[r]]
            x == Seeing(c, rs)
<1>1. view \in Views /\ DOMAIN view \subseteq call[c].cands
  <2>1. Seen(call[c]) \cup rs \in SUBSET RuleIds /\ Seen(call[c]) \cup rs \subseteq call[c].cands
    BY <1>0 DEF Seen
  <2>2. ASSUME NEW r \in Seen(call[c]) PROVE call[c].seen[r] \in SUBSET Keys
    <3>1. call[c].seen # <<>>
      BY <2>2, NothingSeen DEF Seen
    <3>. QED BY <1>0, <2>2, <3>1 DEF Seen, Views
  <2>3. \A r \in rs : assigned[r] \in SUBSET Keys
    BY <1>0 DEF Typed
  <2>4. view \in [Seen(call[c]) \cup rs -> SUBSET Keys]
    BY <2>2, <2>3
  <2>. QED BY <2>1, <2>4 DEF Views
<1>2. /\ DOMAIN view = Seen(call[c]) \cup rs
      /\ \A r \in Seen(call[c]) \cup rs : view[r] = IF r \in rs THEN assigned[r] ELSE call[c].seen[r]
  OBVIOUS
<1>3. x = [call[c] EXCEPT !.seen = view]
  BY DEF Seeing
<1>. HIDE DEF view, x
<1>4. x \in CallRecord
  BY <1>0, <1>1, <1>3 DEF CallRecord
<1>5. /\ x.op = call[c].op /\ x.key = call[c].key /\ x.want = call[c].want /\ x.rule = call[c].rule
      /\ x.keys = call[c].keys /\ x.todo = call[c].todo /\ x.stage = call[c].stage
      /\ x.before = call[c].before /\ x.alone = call[c].alone /\ x.seen = view /\ x.cands = call[c].cands
  BY <1>0, <1>3 DEF CallRecord
<1>6. Sensible(x) /\ x.op # "none"
  BY <1>0, <1>1, <1>4, <1>5 DEF CallOK, Sensible, Meant
<1>7. SameCall(x, c) /\ x.cands = call[c].cands
  BY <1>4, <1>5, <1>6 DEF SameCall
<1>8. Seen(x) = Seen(call[c]) \cup rs
  BY <1>2, <1>5 DEF Seen
<1>. QED BY <1>2, <1>5, <1>7, <1>8 DEF x

LEMMA LookStep ==
  ASSUME Typed, NEW c \in Callers, Look(c)
  PROVE  \E rs \in SUBSET call[c].cands :
           /\ call[c].op \in TreeOps => rs = call[c].cands
           /\ \E y \in {Seeing(c, rs)} \cup Planned(Seeing(c, rs)) :
                /\ call' = [call EXCEPT ![c] = y]
                /\ IF \/ Seen(Seeing(c, rs)) = call[c].cands
                      \/ call[c].op \notin TreeOps /\ Covered(Seeing(c, rs))
                   THEN y \in Planned(Seeing(c, rs)) ELSE y = Seeing(c, rs)
<1>0. call[c] \in CallRecord
  BY DEF Typed
<1>1. \A rs : Seeing(c, rs).cands = call[c].cands /\ Seeing(c, rs).op = call[c].op
  BY <1>0 DEF Seeing, CallRecord
<1>2. PICK rs \in (IF call[c].op \in TreeOps THEN {call[c].cands}
                    ELSE {{r} : r \in call[c].cands \ Seen(call[c])}) :
        \E y \in (IF Seen(Seeing(c, rs)) = Seeing(c, rs).cands
                     \/ (Seeing(c, rs).op \notin TreeOps /\ Covered(Seeing(c, rs)))
                  THEN Planned(Seeing(c, rs)) ELSE {Seeing(c, rs)}) : call' = [call EXCEPT ![c] = y]
  BY DEF Look, Seeing
<1>3. rs \in SUBSET call[c].cands /\ (call[c].op \in TreeOps => rs = call[c].cands)
  BY <1>2
<1>4. PICK y \in {Seeing(c, rs)} \cup Planned(Seeing(c, rs)) :
        /\ call' = [call EXCEPT ![c] = y]
        /\ IF \/ Seen(Seeing(c, rs)) = call[c].cands
              \/ call[c].op \notin TreeOps /\ Covered(Seeing(c, rs))
           THEN y \in Planned(Seeing(c, rs)) ELSE y = Seeing(c, rs)
  BY <1>1, <1>2
<1>. QED BY <1>3, <1>4

LEMMA LookOK == ASSUME Typed, NEW c \in Callers, Look(c) PROVE Typed'
<1>0. call[c].stage = "looking" /\ UNCHANGED <<resource, table, assigned, live>>
  BY DEF Look
<1>1. PICK rs \in SUBSET call[c].cands :
        \E y \in {Seeing(c, rs)} \cup Planned(Seeing(c, rs)) : call' = [call EXCEPT ![c] = y]
  BY LookStep
<1>2. PICK y \in {Seeing(c, rs)} \cup Planned(Seeing(c, rs)) : call' = [call EXCEPT ![c] = y]
  BY <1>1
<1>. DEFINE x == Seeing(c, rs)
<1>3. x \in CallRecord /\ Sensible(x) /\ x.op # "none" /\ x.stage = "looking"
  BY <1>0, SeeingOK DEF SameCall
<1>. HIDE DEF x
<1>4. CallOK(y)
  <2>1. CASE y \in Planned(x)
    BY <1>3, <2>1, PlannedOK
  <2>2. CASE y = x
    BY <1>3, <2>2 DEF CallOK
  <2>. QED BY <1>2, <2>1, <2>2 DEF x
<1>5. CallsTyped'
  BY <1>0, <1>2, <1>4, CallsReplaced
<1>. QED BY <1>0, <1>5, SameTypes DEF Typed, CallsTyped

LEMMA AdvanceOK ==
  ASSUME Typed, NEW c \in Callers, call[c].stage = "running", NEW todo \in Seq(Statement), Advance(c, todo),
         UNCHANGED resource
  PROVE  CallsTyped'
<1>0. call[c] \in CallRecord /\ CallOK(call[c])
  BY DEF Typed
<1>. DEFINE y == [call[c] EXCEPT !.todo = todo, !.stage = IF todo = <<>> THEN "done" ELSE "running"]
<1>1. call' = [call EXCEPT ![c] = y]
  BY DEF Advance, Typed
<1>2. y \in CallRecord
  BY ZenonT(30), <1>0 DEF CallRecord
<1>3. /\ y.op = call[c].op /\ y.key = call[c].key /\ y.want = call[c].want /\ y.rule = call[c].rule
      /\ y.todo = todo /\ y.stage = (IF todo = <<>> THEN "done" ELSE "running")
      /\ y.seen = call[c].seen /\ y.cands = call[c].cands
  BY <1>0 DEF CallRecord
<1>. HIDE DEF y
<1>4. CallOK(y)
  BY <1>0, <1>2, <1>3 DEF CallOK, Sensible, Meant
<1>. QED BY <1>1, <1>4, CallsReplaced

LEMMA HeadOK ==
  ASSUME Typed, NEW c \in Callers, call[c].stage = "running"
  PROVE  /\ call[c].todo \in Seq(Statement) /\ call[c].todo # <<>>
         /\ Head(call[c].todo) \in Statement /\ Tail(call[c].todo) \in Seq(Statement)
         /\ Len(call[c].todo) \in Nat \ {0}
<1>1. call[c].todo \in Seq(Statement) /\ call[c].todo # <<>>
  BY DEF Typed, CallOK, Sensible, Meant, CallRecord
<1>. QED BY <1>1, HeadTailProperties, EmptySeq, LenProperties

(* The tables as a statement leaves them.                                  *)
TablesTyped ==
  /\ table \in [RuleIds -> RowsHere \cup {NoRule}] /\ assigned \in [RuleIds -> SUBSET Keys]
  /\ \A r \in RuleIds : table[r] = NoRule => assigned[r] = {}

LEMMA InsertRowOK ==
  ASSUME Typed, NEW c \in Callers, call[c].stage = "running", UNCHANGED resource,
         Head(call[c].todo).do = "insert", InsertRow(c, Head(call[c].todo))
  PROVE  CallsTyped' /\ TablesTyped'
<1>. DEFINE s == Head(call[c].todo)
<1>1. s \in Statement /\ s.row \in RowsHere
  BY HeadOK DEF Statement
<1>. DEFINE rest(r) == [i \in 1..(Len(call[c].todo) - 1) |->
                         [call[c].todo[i + 1] EXCEPT !.rule = IF @ = New THEN r ELSE @]]
<1>2. PICK r \in Fresh : /\ table' = [table EXCEPT ![r] = s.row]
                         /\ assigned' = [assigned EXCEPT ![r] = {}]
                         /\ Advance(c, rest(r))
  BY DEF InsertRow
<1>3. r \in RuleIds
  BY DEF Fresh
<1>. DEFINE n == Len(call[c].todo) - 1
<1>4. n \in Nat /\ rest(r) \in [1..n -> Statement]
  <2>1. n \in Nat /\ call[c].todo \in Seq(Statement)
    BY HeadOK
  <2>2. ASSUME NEW i \in 1..n
        PROVE  [call[c].todo[i + 1] EXCEPT !.rule = IF @ = New THEN r ELSE @] \in Statement
    <3>1. i + 1 \in 1..Len(call[c].todo)
      BY HeadOK
    <3>2. call[c].todo[i + 1] \in Statement
      BY <2>1, <3>1, ElementOfSeq
    <3>. QED BY SMTT(30), <1>3, <3>2 DEF Statement
  <2>. QED BY <2>1, <2>2
<1>5. rest(r) \in Seq(Statement)
  BY <1>4, SeqDef
<1>. HIDE DEF rest, s
<1>6. CallsTyped'
  BY <1>2, <1>5, AdvanceOK
<1>7. TablesTyped'
  <2>1. table' \in [RuleIds -> RowsHere \cup {NoRule}] /\ assigned' \in [RuleIds -> SUBSET Keys]
    BY <1>1, <1>2, <1>3 DEF Typed
  <2>2. \A x \in RuleIds : table'[x] = NoRule => assigned'[x] = {}
    BY <1>1, <1>2, <1>3 DEF Typed
  <2>. QED BY <2>1, <2>2, SameTypes DEF TablesTyped
<1>. QED BY <1>6, <1>7

LEMMA ThrowOK ==
  ASSUME Typed, NEW c \in Callers, call[c].stage = "running", Throw(c), UNCHANGED resource
  PROVE  CallsTyped'
<1>0. call[c] \in CallRecord /\ CallOK(call[c])
  BY DEF Typed
<1>. DEFINE y == [call[c] EXCEPT !.todo = <<>>, !.stage = "failed"]
<1>1. call' = [call EXCEPT ![c] = y]
  BY DEF Throw, Typed
<1>2. y \in CallRecord
  BY <1>0, EmptySeq DEF CallRecord
<1>3. /\ y.op = call[c].op /\ y.key = call[c].key /\ y.want = call[c].want /\ y.rule = call[c].rule
      /\ y.todo = <<>> /\ y.stage = "failed" /\ y.seen = call[c].seen /\ y.cands = call[c].cands
  BY <1>0 DEF CallRecord
<1>. HIDE DEF y
<1>4. CallOK(y)
  BY <1>0, <1>2, <1>3 DEF CallOK, Sensible, Meant
<1>. QED BY <1>1, <1>4, CallsReplaced

LEMMA InsertAssignmentsOK ==
  ASSUME Typed, NEW c \in Callers, call[c].stage = "running", UNCHANGED resource,
         NEW s \in Statement, s.do \in {"assign", "pin", "pinquietly", "join"}, NEW ks \in SUBSET s.keys,
         InsertAssignments(c, s, ks)
  PROVE  CallsTyped' /\ TablesTyped'
<1>1. CASE Throw(c) /\ UNCHANGED <<table, assigned>>
  BY <1>1, ThrowOK, SameTypes DEF Typed, TablesTyped
<1>2. CASE /\ table[s.rule] # NoRule /\ assigned' = [assigned EXCEPT ![s.rule] = @ \cup ks] /\ UNCHANGED table
           /\ Advance(c, (IF s.keys = ks THEN <<>> ELSE <<[s EXCEPT !.keys = @ \ ks]>>) \o Tail(call[c].todo))
  <2>1. [s EXCEPT !.keys = @ \ ks] \in Statement
    BY DEF Statement
  <2>2. (IF s.keys = ks THEN <<>> ELSE <<[s EXCEPT !.keys = @ \ ks]>>) \o Tail(call[c].todo) \in Seq(Statement)
    BY <2>1, HeadOK, ListsOK
  <2>3. CallsTyped'
    BY <1>2, <2>2, AdvanceOK
  <2>4. ks \in SUBSET Keys
    BY DEF Statement
  <2>5. assigned' \in [RuleIds -> SUBSET Keys]
    BY <1>2, <2>4 DEF Typed
  <2>6. ASSUME NEW r \in RuleIds, table'[r] = NoRule PROVE assigned'[r] = {}
    BY <1>2, <2>6 DEF Typed
  <2>7. table' \in [RuleIds -> RowsHere \cup {NoRule}]
    BY <1>2 DEF Typed
  <2>. QED BY <2>3, <2>5, <2>6, <2>7, SameTypes DEF TablesTyped
<1>. QED BY <1>1, <1>2 DEF InsertAssignments

LEMMA UpdateRowOK ==
  ASSUME Typed, NEW c \in Callers, call[c].stage = "running", UNCHANGED resource,
         NEW s \in Statement, s.do \in {"change", "rename"}, UpdateRow(c, s)
  PROVE  CallsTyped' /\ TablesTyped'
<1>1. CallsTyped'
  BY HeadOK, AdvanceOK DEF UpdateRow
<1>2. s.do = "change" => s.row \in LevelsHere
  BY DEF Statement
<1>. DEFINE new(row) == IF row = NoRule THEN row
                        ELSE IF s.do = "rename" THEN [row EXCEPT !.agent = FALSE] ELSE [row EXCEPT !.level = s.row]
<1>3. ASSUME NEW row \in RowsHere
      PROVE  [row EXCEPT !.agent = FALSE] \in RowsHere /\ (s.do = "change" => [row EXCEPT !.level = s.row] \in RowsHere)
  BY <1>2 DEF RowsHere
<1>4. \A row \in RowsHere \cup {NoRule} : new(row) \in RowsHere \cup {NoRule} /\ (new(row) = NoRule => row = NoRule)
  <2>1. NoRule \notin RowsHere
    BY HereIsTyped DEF Typed
  <2>. QED BY <1>3, <2>1
<1>5. table' = [table EXCEPT ![s.rule] = new(table[s.rule])] /\ UNCHANGED assigned
  BY DEF UpdateRow
<1>. HIDE DEF new
<1>6. table' \in [RuleIds -> RowsHere \cup {NoRule}]
  BY <1>4, <1>5 DEF Typed
<1>7. \A r \in RuleIds : table'[r] = NoRule => assigned'[r] = {}
  BY <1>4, <1>5 DEF Typed
<1>8. assigned' \in [RuleIds -> SUBSET Keys]
  BY <1>5 DEF Typed
<1>. QED BY <1>1, <1>6, <1>7, <1>8, SameTypes DEF TablesTyped

LEMMA DeleteRowsOK ==
  ASSUME Typed, NEW c \in Callers, call[c].stage = "running", UNCHANGED resource,
         NEW s \in Statement, s.do \in {"unassign", "clear", "remove", "delete"}, DeleteRows(c, s)
  PROVE  CallsTyped' /\ TablesTyped'
<1>1. s.rule \in RuleIds \cup {New} /\ s.keys \in SUBSET Keys
  BY DEF Statement
<1>2. (IF s.do = "remove" THEN <<Do("delete", s.rule)>> ELSE <<>>) \o Tail(call[c].todo) \in Seq(Statement)
  BY <1>1, StatementsOK, HeadOK, ListsOK
<1>3. CallsTyped'
  BY <1>2, AdvanceOK DEF DeleteRows
<1>4. /\ table' = [table EXCEPT ![s.rule] = IF s.do = "delete" THEN NoRule ELSE @]
      /\ assigned' = [assigned EXCEPT ![s.rule] = IF s.do = "unassign" THEN @ \ s.keys ELSE {}]
  BY DEF DeleteRows
<1>5. table' \in [RuleIds -> RowsHere \cup {NoRule}] /\ assigned' \in [RuleIds -> SUBSET Keys]
  BY <1>4 DEF Typed
<1>6. \A r \in RuleIds : table'[r] = NoRule => assigned'[r] = {}
  BY <1>4 DEF Typed
<1>. QED BY <1>3, <1>5, <1>6, SameTypes DEF TablesTyped

LEMMA ExecuteOK == ASSUME Typed, NEW c \in Callers, Execute(c) PROVE Typed'
<1>. DEFINE s == Head(call[c].todo)
<1>0. call[c].stage = "running" /\ UNCHANGED <<resource, live>> /\ s \in Statement
  BY HeadOK DEF Execute
<1>1. CallsTyped' /\ TablesTyped'
  <2>1. CASE s.do = "insert"
    <3>1. InsertRow(c, s)
      BY <2>1 DEF Execute
    <3>. QED BY <1>0, <2>1, <3>1, InsertRowOK
  <2>2. CASE s.do \in {"assign", "pin", "pinquietly", "join"}
    <3>1. AssignKeys(c, s)
      BY <2>2 DEF Execute
    <3>2. PICK ks \in SUBSET s.keys : InsertAssignments(c, s, ks)
      BY <3>1 DEF AssignKeys
    <3>. HIDE DEF s
    <3>. QED BY <1>0, <2>2, <3>2, InsertAssignmentsOK
  <2>3. CASE s.do \in {"change", "rename"}
    <3>1. UpdateRow(c, s)
      BY <2>3 DEF Execute
    <3>. HIDE DEF s
    <3>. QED BY <1>0, <2>3, <3>1, UpdateRowOK
  <2>4. CASE s.do \in {"unassign", "clear", "remove", "delete"}
    <3>1. DeleteRows(c, s)
      BY <2>4 DEF Execute
    <3>. HIDE DEF s
    <3>. QED BY <1>0, <2>4, <3>1, DeleteRowsOK
  <2>5. CASE s.do = "look"
    <3>1. LookAtRow(c, s)
      BY <2>5 DEF Execute
    <3>2. PICK todo \in {<<>>, Tail(call[c].todo)} : Advance(c, todo) /\ UNCHANGED <<table, assigned>>
      BY <3>1 DEF LookAtRow, Unless
    <3>3. todo \in Seq(Statement)
      BY <1>0, <3>2, HeadOK, ListsOK
    <3>4. CallsTyped'
      BY <1>0, <3>2, <3>3, AdvanceOK
    <3>. QED BY <1>0, <3>2, <3>4, SameTypes DEF Typed, TablesTyped
  <2>. QED BY <1>0, <2>1, <2>2, <2>3, <2>4, <2>5 DEF Statement
<1>. QED BY <1>0, <1>1 DEF Typed, CallsTyped, TablesTyped

(* The grant of a creation, as the call that is in progress at first.      *)
Granting(y, k, row) ==
  /\ y.op = "created" /\ y.key = k /\ y.want = row /\ y.todo = Create(row, {k}) /\ y.before = Access /\ y.alone = TRUE
  /\ y.cands = {} /\ y.seen = <<>> /\ y.stage = IF y.todo = <<>> THEN "done" ELSE "running"

LEMMA CreatedOK ==
  ASSUME resource = "file", NEW k \in Keys, NEW row \in {Row("file", "write", TRUE), Row("drive", "write", TRUE)},
         NEW y \in Planned([Idle EXCEPT !.op = "created", !.key = k, !.want = row, !.before = Access])
  PROVE  CallOK(y) /\ y \in CallRecord /\ row \in RowsHere /\ Granting(y, k, row)
<1>. DEFINE x == [Idle EXCEPT !.op = "created", !.key = k, !.want = row, !.before = Access]
<1>1. row \in RowsHere
  BY HereIsTyped DEF Row
<1>2. Idle \in CallRecord
  BY IdleOK DEF CallOK, Sensible, Meant
<1>3. x \in CallRecord
  <2>1. "created" \in Ops
    BY DEF Ops
  <2>2. Access \in [Keys -> Given]
    BY AccessOK
  <2>. HIDE DEF Access
  <2>. QED BY <1>1, <1>2, <2>1, <2>2 DEF CallRecord
<1>4. /\ x.op = "created" /\ x.key = k /\ x.want = row /\ x.rule = New /\ x.before = Access /\ x.alone = TRUE
  BY DEF Idle
<1>. HIDE DEF x
<1>5. \A p \in Plans(x) : p = Create(row, {k})
  BY <1>4 DEF Plans, OneRuleOps
<1>6. Create(row, {k}) \in Seq(Statement)
  BY <1>1, CreateOK
<1>7. Meant(x)
  BY <1>1, <1>3, <1>4 DEF Meant, MailOps, FileOps, KeyOps, OneRuleOps
<1>8. CallOK(y)
  BY <1>4, <1>5, <1>6, <1>7, PlannedFromPlans DEF x
<1>9. y \in Planned(x)
  BY DEF x
<1>10. y \in CallRecord
  BY <1>8 DEF CallOK, Sensible, Meant
<1>11. /\ y.todo \in Plans(x) /\ y.op = x.op /\ y.key = x.key /\ y.want = x.want /\ y.before = x.before /\ y.alone = x.alone
       /\ y.cands = {} /\ y.seen = <<>> /\ y.stage = IF y.todo = <<>> THEN "done" ELSE "running"
  BY <1>3, <1>9, PlannedFields
<1>. QED BY <1>1, <1>4, <1>5, <1>8, <1>10, <1>11 DEF Granting

LEMMA InitOK == Init => Typed
<1>. SUFFICES ASSUME Init PROVE Typed
  OBVIOUS
<1>1. /\ resource \in {"mail", "file"} /\ live \in SUBSET Keys
      /\ table \in [RuleIds -> RowsHere \cup {NoRule}] /\ assigned \in [RuleIds -> SUBSET Keys]
      /\ \A r \in RuleIds : table[r] = NoRule => assigned[r] = {}
  BY DEF Init
<1>2. Idle \in CallRecord
  BY IdleOK DEF CallOK, Sensible, Meant
<1>3. CASE call = [c \in Callers |-> Idle]
  BY <1>1, <1>2, <1>3, IdleOK DEF Typed
<1>4. ASSUME NEW c \in Callers, NEW k \in Keys, NEW row \in {Row("file", "write", TRUE), Row("drive", "write", TRUE)},
             NEW y \in Planned([Idle EXCEPT !.op = "created", !.key = k, !.want = row, !.before = Access]),
             resource = "file", call = [d \in Callers |-> IF d = c THEN y ELSE Idle]
      PROVE  Typed
  <2>1. CallOK(y) /\ y \in CallRecord
    BY <1>4, CreatedOK
  <2>2. call \in [Callers -> CallRecord]
    BY <1>2, <1>4, <2>1
  <2>. QED BY <1>1, <1>4, <2>1, <2>2, IdleOK DEF Typed
<1>. QED BY <1>3, <1>4 DEF Init

LEMMA TypedKept == Typed /\ [Next]_vars => Typed'
<1>. SUFFICES ASSUME Typed, [Next]_vars PROVE Typed'
  OBVIOUS
<1>1. ASSUME NEW c \in Callers, Begin(c) PROVE Typed'
  BY <1>1, BeginOK
<1>2. ASSUME NEW c \in Callers, Read(c) PROVE Typed'
  BY <1>2, ReadOK
<1>3. ASSUME NEW c \in Callers, Look(c) PROVE Typed'
  BY <1>3, LookOK
<1>4. ASSUME NEW c \in Callers, Execute(c) PROVE Typed'
  BY <1>4, ExecuteOK
<1>5. ASSUME NEW c \in Callers, Return(c) \/ Crash(c) PROVE Typed'
  <2>1. call' = [call EXCEPT ![c] = Idle] /\ UNCHANGED <<resource, table, assigned, live>>
    BY <1>5 DEF Return, Crash
  <2>2. CallsTyped'
    BY <2>1, IdleOK, CallsReplaced
  <2>. QED BY <2>1, <2>2, SameTypes DEF Typed, CallsTyped
<1>6. ASSUME NEW k \in Keys, RevokeKey(k) PROVE Typed'
  BY <1>6, SameTypes DEF RevokeKey, Typed
<1>7. CASE UNCHANGED vars
  BY <1>7, SameTypes DEF vars, Typed
<1>. QED BY <1>1, <1>2, <1>3, <1>4, <1>5, <1>6, <1>7 DEF Next

(* Every row is about the resource, an id without a row has no profiles,   *)
(* and a call has statements to execute exactly while it is running:       *)
(* whatever the calls do to each other's rows (TypeOK).                    *)
THEOREM TablesStayTyped == Spec => []TypeOK
<1>1. Init => Typed
  BY InitOK
<1>2. Typed /\ [Next]_vars => Typed'
  BY TypedKept
<1>3. Typed => TypeOK
  BY TypedIsTypeOK
<1>. QED BY <1>1, <1>2, <1>3, PTL DEF Spec
------------------------------------------------------------------------------
(* Rows of the agent's own: what a call of the tree engine has found and   *)
(* means to write is never one of them, for as long as the call remembers  *)
(* it, as ids are not used again before that.                              *)
NotAgents == {r \in RuleIds : table[r] # NoRule => ~table[r].agent}

Owners(x) ==
  x.op \in TreeOps => x.cands \subseteq NotAgents /\ x.todo \in Seq(TreeStatement(NotAgents))
OwnersRows == \A c \in Callers : Owners(call[c])

LEMMA TodoFields ==
  ASSUME Typed, NEW c \in Callers, NEW todo, Advance(c, todo) \/ (Throw(c) /\ todo = <<>>)
  PROVE  /\ \A d \in Callers : d # c => call'[d] = call[d]
         /\ call'[c].todo = todo
         /\ Advance(c, todo) => call'[c].stage = IF todo = <<>> THEN "done" ELSE "running"
         /\ call'[c].op = call[c].op /\ call'[c].key = call[c].key /\ call'[c].want = call[c].want
         /\ call'[c].cands = call[c].cands /\ call'[c].before = call[c].before /\ call'[c].alone = call[c].alone
<1>1. call \in [Callers -> CallRecord] /\ call[c] \in CallRecord
  BY DEF Typed
<1>2. CASE Advance(c, todo)
  <2>1. call' = [call EXCEPT ![c] = [call[c] EXCEPT !.todo = todo, !.stage = IF todo = <<>> THEN "done" ELSE "running"]]
    BY <1>1, <1>2 DEF Advance
  <2>. QED BY <1>1, <2>1 DEF CallRecord
<1>3. CASE Throw(c) /\ todo = <<>> /\ ~Advance(c, todo)
  <2>1. call' = [call EXCEPT ![c] = [call[c] EXCEPT !.todo = <<>>, !.stage = "failed"]]
    BY <1>1, <1>3 DEF Throw
  <2>. HIDE DEF Advance
  <2>. QED BY <1>1, <1>3, <2>1 DEF CallRecord
<1>. QED BY <1>2, <1>3

LEMMA OwnersUnmoved == ASSUME UNCHANGED <<resource, table>>, NEW x, Owners(x) PROVE Owners(x)'
  BY DEF Owners, NotAgents, TreeStatement, Statement, RowsHere, LevelsHere

LEMMA OwnersMoved ==
  ASSUME Typed, UNCHANGED resource, NEW x, Owners(x), NotAgents \subseteq NotAgents'
  PROVE  Owners(x)'
<1>. SUFFICES ASSUME x.op \in TreeOps
              PROVE  x.cands \subseteq NotAgents' /\ x.todo \in Seq(TreeStatement(NotAgents)')
  BY DEF Owners
<1>1. TreeStatement(NotAgents) \subseteq TreeStatement(NotAgents)'
  BY DEF TreeStatement, Statement, RowsHere, LevelsHere
<1>. QED BY <1>1, PartsOfLists DEF Owners

LEMMA OwnersPlanned ==
  ASSUME Typed, NEW x, Sensible(x), x.op # "none", x.op \in TreeOps => x.cands \subseteq NotAgents, NEW y \in Planned(x)
  PROVE  Owners(y)
<1>1. x \in CallRecord
  BY DEF Sensible, Meant
<1>2. y.todo \in Plans(x) /\ y.cands = {} /\ y.op = x.op
  BY <1>1, PlannedFields
<1>3. ASSUME x.op \in TreeOps PROVE y.todo \in Seq(TreeStatement(NotAgents))
  <2>1. y.todo \in Seq(TreeStatement(x.cands))
    BY <1>2, <1>3, TreePlansOK
  <2>2. TreeStatement(x.cands) \subseteq TreeStatement(NotAgents)
    BY <1>3 DEF TreeStatement
  <2>. QED BY <2>1, <2>2, PartsOfLists
<1>. QED BY <1>2, <1>3 DEF Owners

LEMMA ExecuteStep ==
  ASSUME Typed, NEW c \in Callers, Execute(c)
  PROVE  /\ \E todo : Advance(c, todo) \/ (Throw(c) /\ todo = <<>>)
         /\ Head(call[c].todo).do # "insert" =>
              \A r \in RuleIds : r # Head(call[c].todo).rule => table'[r] = table[r] /\ assigned'[r] = assigned[r]
<1>. DEFINE s == Head(call[c].todo)
<1>0. /\ s \in Statement /\ table \in [RuleIds -> RowsHere \cup {NoRule}] /\ assigned \in [RuleIds -> SUBSET Keys]
  BY HeadOK DEF Execute, Typed
<1>1. CASE s.do = "insert"
  BY <1>1 DEF Execute, InsertRow
<1>2. CASE s.do \in {"assign", "pin", "pinquietly", "join"}
  <2>1. PICK ks : InsertAssignments(c, s, ks)
    BY <1>2 DEF Execute, AssignKeys
  <2>. QED BY <1>0, <1>2, <2>1 DEF InsertAssignments
<1>3. CASE s.do \in {"change", "rename"}
  <2>1. UpdateRow(c, s)
    BY <1>3 DEF Execute
  <2>. HIDE DEF s
  <2>. QED BY <1>0, <2>1 DEF UpdateRow, s
<1>4. CASE s.do \in {"unassign", "clear", "remove", "delete"}
  <2>1. DeleteRows(c, s)
    BY <1>4 DEF Execute
  <2>. QED BY <1>0, <2>1 DEF DeleteRows
<1>5. CASE s.do = "look"
  <2>1. LookAtRow(c, s)
    BY <1>5 DEF Execute
  <2>. QED BY <2>1 DEF LookAtRow, Unless
<1>. QED BY <1>0, <1>1, <1>2, <1>3, <1>4, <1>5 DEF Statement

LEMMA OwnersInsert ==
  ASSUME Typed, OwnersRows, NEW c \in Callers, Execute(c), Head(call[c].todo).do = "insert"
  PROVE  OwnersRows'
<1>. DEFINE s == Head(call[c].todo)
            n == Len(call[c].todo) - 1
            rest(r) == [i \in 1..n |-> [call[c].todo[i + 1] EXCEPT !.rule = IF @ = New THEN r ELSE @]]
<1>0. /\ call[c].stage = "running" /\ UNCHANGED resource /\ s \in Statement /\ s.row \in RowsHere
      /\ table \in [RuleIds -> RowsHere \cup {NoRule}] /\ NoRule \notin RowsHere
  BY HeadOK, HereIsTyped DEF Execute, Statement, Typed
<1>1. PICK r \in Fresh : table' = [table EXCEPT ![r] = s.row] /\ Advance(c, rest(r))
  BY DEF Execute, InsertRow
<1>2. r \in RuleIds /\ r \notin Remembered
  BY <1>1 DEF Fresh
<1>3. \A x \in NotAgents : x # r => x \in NotAgents'
  BY <1>0, <1>1, <1>2 DEF NotAgents
<1>4. ASSUME NEW d \in Callers, d # c PROVE Owners(call[d])'
  <2>1. call'[d] = call[d] /\ Owners(call[d])
    BY <1>1, <1>4, TodoFields DEF OwnersRows
  <2>. SUFFICES ASSUME call[d].op \in TreeOps
                PROVE  call[d].cands \subseteq NotAgents' /\ call[d].todo \in Seq(TreeStatement(NotAgents)')
    BY <2>1 DEF Owners
  <2>2. call[d].cands \subseteq NotAgents /\ call[d].todo \in Seq(TreeStatement(NotAgents))
    BY <2>1 DEF Owners
  <2>3. r \notin call[d].cands /\ \A i \in DOMAIN call[d].todo : call[d].todo[i].rule # r
    BY <1>2 DEF Remembered
  <2>4. ASSUME NEW i \in DOMAIN call[d].todo PROVE call[d].todo[i] \in TreeStatement(NotAgents)'
    <3>1. call[d].todo[i] \in TreeStatement(NotAgents)
      BY <2>2, LenProperties, ElementOfSeq
    <3>. QED BY <1>0, <1>3, <2>3, <3>1 DEF TreeStatement, Statement, RowsHere, LevelsHere
  <2>. QED BY <1>3, <2>2, <2>3, <2>4, PartsOfLists
<1>5. Owners(call[c])'
  <2>1. call'[c].op = call[c].op /\ call'[c].cands = call[c].cands /\ call'[c].todo = rest(r)
    BY <1>1, TodoFields
  <2>. SUFFICES ASSUME call[c].op \in TreeOps
                PROVE  call[c].cands \subseteq NotAgents' /\ rest(r) \in Seq(TreeStatement(NotAgents)')
    BY <2>1 DEF Owners
  <2>2. call[c].cands \subseteq NotAgents /\ call[c].todo \in Seq(TreeStatement(NotAgents))
    BY DEF OwnersRows, Owners
  <2>3. r \notin call[c].cands
    BY <1>2 DEF Remembered
  <2>4. n \in Nat /\ s \in TreeStatement(NotAgents) /\ call[c].todo # <<>> /\ n + 1 = Len(call[c].todo)
    <3>1. call[c].todo # <<>> /\ Len(call[c].todo) \in Nat \ {0}
      BY <1>0, HeadOK
    <3>. QED BY <2>2, <3>1, HeadTailProperties
  <2>5. r \in NotAgents'
    <3>1. ~s.row.agent
      BY <2>4 DEF TreeStatement
    <3>. QED BY <1>1, <1>2, <3>1 DEF NotAgents, Typed
  <2>6. ASSUME NEW i \in 1..n
        PROVE  [call[c].todo[i + 1] EXCEPT !.rule = IF @ = New THEN r ELSE @] \in TreeStatement(NotAgents)'
    <3>1. i + 1 \in 1..Len(call[c].todo)
      BY <2>4
    <3>2. call[c].todo[i + 1] \in TreeStatement(NotAgents)
      BY <2>2, <3>1, ElementOfSeq
    <3>3. call[c].todo[i + 1].rule # r
      BY <1>2, <2>2, <3>1, LenProperties DEF Remembered
    <3>4. call[c].todo[i + 1].rule \in NotAgents => call[c].todo[i + 1].rule \in NotAgents'
      BY <1>3, <3>3
    <3>5. NotAgents' \subseteq RuleIds
      BY DEF NotAgents
    <3>. DEFINE t == call[c].todo[i + 1]
                u == [t EXCEPT !.rule = IF @ = New THEN r ELSE @]
    <3>6. /\ t \in Statement /\ t.rule \in NotAgents \cup {New} /\ (t.do = "insert" => ~t.row.agent)
      BY <3>2 DEF TreeStatement
    <3>. HIDE DEF t
    <3>7. u.rule \in NotAgents' \cup {New} /\ u.do = t.do /\ u.row = t.row /\ u.keys = t.keys
      BY <2>5, <3>4, <3>6 DEF Statement, t
    <3>8. u \in Statement
      BY <1>2, <3>6 DEF Statement
    <3>9. Statement' = Statement
      BY <1>0 DEF Statement, RowsHere, LevelsHere
    <3>. HIDE DEF u
    <3>10. u \in TreeStatement(NotAgents)'
      BY <3>6, <3>7, <3>8, <3>9 DEF TreeStatement
    <3>. QED BY <3>10 DEF u, t
  <2>7. rest(r) \in [1..n -> TreeStatement(NotAgents)']
    BY <2>6
  <2>. HIDE DEF rest
  <2>8. rest(r) \in Seq(TreeStatement(NotAgents)')
    BY <2>4, <2>7, SeqDef
  <2>. QED BY <1>3, <2>2, <2>3, <2>8
<1>. QED BY <1>4, <1>5 DEF OwnersRows

LEMMA OwnersWrite ==
  ASSUME Typed, OwnersRows, NEW c \in Callers, Execute(c), Head(call[c].todo).do # "insert"
  PROVE  OwnersRows'
<1>. DEFINE s == Head(call[c].todo)
            Mine2(todo) == call[c].op \in TreeOps => todo \in Seq(TreeStatement(NotAgents))
<1>0. /\ call[c].stage = "running" /\ UNCHANGED resource /\ s \in Statement /\ call[c].todo # <<>>
      /\ table \in [RuleIds -> RowsHere \cup {NoRule}] /\ NoRule \notin RowsHere
  BY HeadOK, HereIsTyped DEF Execute, Typed
<1>1. Mine2(Tail(call[c].todo)) /\ Mine2(<<>>) /\ (call[c].op \in TreeOps => s \in TreeStatement(NotAgents))
  <2>1. call[c].op \in TreeOps => call[c].todo \in Seq(TreeStatement(NotAgents))
    BY DEF OwnersRows, Owners
  <2>. QED BY <1>0, <2>1, HeadTailProperties, EmptySeq
<1>a. ASSUME NEW todo, Mine2(todo), Advance(c, todo) \/ (Throw(c) /\ todo = <<>>), NotAgents \subseteq NotAgents'
      PROVE  OwnersRows'
  <2>1. ASSUME NEW d \in Callers PROVE Owners(call'[d])
    <3>1. CASE d = c
      <4>1. call'[c].op = call[c].op /\ call'[c].cands = call[c].cands /\ call'[c].todo = todo
        BY <1>a, TodoFields
      <4>2. call[c].op \in TreeOps => call[c].cands \subseteq NotAgents /\ todo \in Seq(TreeStatement(NotAgents))
        BY <1>a DEF OwnersRows, Owners
      <4>. QED BY <3>1, <4>1, <4>2 DEF Owners
    <3>2. CASE d # c
      BY <1>a, <3>2, TodoFields DEF OwnersRows
    <3>. QED BY <3>1, <3>2
  <2>2. ASSUME NEW d \in Callers PROVE Owners(call[d])'
    <3>. DEFINE x == call'[d]
    <3>1. Owners(x)
      BY <2>1
    <3>2. TreeStatement(NotAgents) \subseteq TreeStatement(NotAgents)'
      BY <1>0, <1>a DEF TreeStatement, Statement, RowsHere, LevelsHere
    <3>. HIDE DEF x
    <3>3. x.op \in TreeOps => x.cands \subseteq NotAgents' /\ x.todo \in Seq(TreeStatement(NotAgents)')
      BY <1>a, <3>1, <3>2, PartsOfLists DEF Owners
    <3>. QED BY <3>3 DEF Owners, x
  <2>. QED BY <2>2 DEF OwnersRows
<1>. HIDE DEF s, Mine2
<1>2. CASE s.do \in {"assign", "pin", "pinquietly", "join"}
  <2>1. PICK ks \in SUBSET s.keys : InsertAssignments(c, s, ks)
    BY <1>2 DEF Execute, AssignKeys, s
  <2>2. Mine2((IF s.keys = ks THEN <<>> ELSE <<[s EXCEPT !.keys = @ \ ks]>>) \o Tail(call[c].todo))
    <3>1. s \in TreeStatement(NotAgents) => [s EXCEPT !.keys = @ \ ks] \in TreeStatement(NotAgents)
      BY DEF TreeStatement, Statement
    <3>. QED BY <1>1, <3>1, ListsOK DEF Mine2
  <2>3. UNCHANGED table
    BY <2>1 DEF InsertAssignments
  <2>4. PICK todo : Mine2(todo) /\ (Advance(c, todo) \/ (Throw(c) /\ todo = <<>>))
    BY <1>1, <2>1, <2>2 DEF InsertAssignments
  <2>5. NotAgents \subseteq NotAgents'
    BY <2>3 DEF NotAgents
  <2>. QED BY <1>a, <2>4, <2>5
<1>3. CASE s.do \in {"change", "rename"}
  <2>1. UpdateRow(c, s)
    BY <1>3 DEF Execute, s
  <2>2. NotAgents \subseteq NotAgents'
    BY <1>0, <2>1 DEF UpdateRow, NotAgents
  <2>. QED BY <1>1, <1>a, <2>1, <2>2 DEF UpdateRow
<1>4. CASE s.do \in {"unassign", "clear", "remove", "delete"}
  <2>1. DeleteRows(c, s)
    BY <1>4 DEF Execute, s
  <2>2. NotAgents \subseteq NotAgents'
    BY <1>0, <2>1 DEF DeleteRows, NotAgents
  <2>3. s \in TreeStatement(NotAgents) => Do("delete", s.rule) \in TreeStatement(NotAgents)
    BY StatementsOK DEF TreeStatement, Do, Statement
  <2>4. Mine2((IF s.do = "remove" THEN <<Do("delete", s.rule)>> ELSE <<>>) \o Tail(call[c].todo))
    BY <1>1, <2>3, ListsOK DEF Mine2
  <2>. QED BY <1>a, <2>1, <2>2, <2>4 DEF DeleteRows
<1>5. CASE s.do = "look"
  <2>1. LookAtRow(c, s)
    BY <1>5 DEF Execute, s
  <2>2. PICK todo \in {<<>>, Tail(call[c].todo)} : Advance(c, todo) /\ UNCHANGED table
    BY <2>1 DEF LookAtRow, Unless
  <2>3. NotAgents \subseteq NotAgents'
    BY <2>2 DEF NotAgents
  <2>. QED BY <1>1, <1>a, <2>2, <2>3
<1>. QED BY <1>0, <1>2, <1>3, <1>4, <1>5 DEF Statement, s

LEMMA OwnersKept == Typed /\ OwnersRows /\ [Next]_vars => OwnersRows'
<1>. SUFFICES ASSUME Typed, OwnersRows, [Next]_vars PROVE OwnersRows'
  OBVIOUS
<1>0. \A c \in Callers : Owners(call[c])
  BY DEF OwnersRows
<1>1. ASSUME NEW c \in Callers, Begin(c) PROVE OwnersRows'
  <2>1. PICK op, key, want, rule, ks : Offered(op, key, want, rule, ks) /\ Start(c, op, key, want, rule, ks)
    BY <1>1, BeginStep DEF Opens
  <2>2. PICK y \in CallRecord : /\ StartsAs(c, y) /\ UNCHANGED <<resource, table, assigned, live>> /\ y.op = op
                                /\ y.cands = {} /\ (op \notin {"create", "created"} => y.todo = <<>>)
    BY SMTT(30), <2>1, StartStep DEF Offered
  <2>3. Owners(y)
    BY <2>2, EmptySeq DEF Owners, TreeOps
  <2>4. ASSUME NEW d \in Callers PROVE Owners(call'[d])
    <3>1. CASE d = c
      BY <2>2, <2>3, <3>1 DEF StartsAs
    <3>2. CASE d # c
      <4>1. call[d] \in CallRecord /\ call'[d] = [call[d] EXCEPT !.alone = FALSE]
        BY <2>2, <3>2 DEF StartsAs, Typed
      <4>2. call'[d].op = call[d].op /\ call'[d].cands = call[d].cands /\ call'[d].todo = call[d].todo
        BY <4>1 DEF CallRecord
      <4>. QED BY <1>0, <4>2 DEF Owners
    <3>. QED BY <3>1, <3>2
  <2>. QED BY <2>2, <2>4, OwnersUnmoved DEF OwnersRows
<1>2. ASSUME NEW c \in Callers, NEW y, Owners(y), call' = [call EXCEPT ![c] = y], UNCHANGED <<resource, table>>
      PROVE  OwnersRows'
  <2>1. \A d \in Callers : Owners(call'[d])
    BY <1>0, <1>2 DEF Typed
  <2>. QED BY <1>2, <2>1, OwnersUnmoved DEF OwnersRows
<1>3. ASSUME NEW c \in Callers, Read(c) PROVE OwnersRows'
  <2>0. call[c].stage = "reading" /\ UNCHANGED <<resource, table, assigned, live>> /\ call[c] \in CallRecord
    BY <1>3 DEF Read, Typed
  <2>1. PICK cands \in SUBSET RuleIds :
          /\ cands \subseteq Candidates(call[c])
          /\ \E y \in {[Finding(c, cands) EXCEPT !.stage = "looking"]} \cup Planned(Finding(c, cands)) :
                call' = [call EXCEPT ![c] = y]
    BY <1>3, ReadStep
  <2>2. PICK y \in {[Finding(c, cands) EXCEPT !.stage = "looking"]} \cup Planned(Finding(c, cands)) :
          call' = [call EXCEPT ![c] = y]
    BY <2>1
  <2>. DEFINE x == Finding(c, cands)
  <2>3. SameCall(x, c) /\ x.cands = cands
    BY <2>0, FindingOK
  <2>4. x.op \in TreeOps => x.cands \subseteq NotAgents
    <3>. SUFFICES ASSUME x.op \in TreeOps, NEW r \in cands PROVE r \in NotAgents
      BY <2>3
    <3>1. call[c].op \in TreeOps /\ r \in Candidates(call[c])
      BY <2>1, <2>3 DEF SameCall
    <3>2. r \in Existing /\ IsCandidate(call[c], table[r])
      BY <3>1 DEF Candidates, Select, TreeOps, OneRuleOps
    <3>. QED BY <3>1, <3>2 DEF IsCandidate, Existing, NotAgents, TreeOps
  <2>. HIDE DEF x
  <2>5. Owners(y)
    <3>1. CASE y \in Planned(x)
      BY <2>3, <2>4, <3>1, OwnersPlanned DEF SameCall
    <3>2. CASE y = [x EXCEPT !.stage = "looking"]
      <4>1. x \in CallRecord /\ x.todo = call[c].todo /\ x.op = call[c].op
        BY <2>3 DEF SameCall
      <4>2. y.op = x.op /\ y.cands = x.cands /\ y.todo = x.todo
        BY <3>2, <4>1 DEF CallRecord
      <4>. QED BY <1>0, <2>4, <4>1, <4>2 DEF Owners
    <3>. QED BY <2>2, <3>1, <3>2 DEF x
  <2>. QED BY <1>2, <2>0, <2>2, <2>5
<1>4. ASSUME NEW c \in Callers, Look(c) PROVE OwnersRows'
  <2>0. call[c].stage = "looking" /\ UNCHANGED <<resource, table, assigned, live>>
    BY <1>4 DEF Look
  <2>1. PICK rs \in SUBSET call[c].cands :
          \E y \in {Seeing(c, rs)} \cup Planned(Seeing(c, rs)) : call' = [call EXCEPT ![c] = y]
    BY <1>4, LookStep
  <2>2. PICK y \in {Seeing(c, rs)} \cup Planned(Seeing(c, rs)) : call' = [call EXCEPT ![c] = y]
    BY <2>1
  <2>. DEFINE x == Seeing(c, rs)
  <2>3. SameCall(x, c) /\ x.cands = call[c].cands
    BY <2>0, SeeingOK
  <2>4. Owners(x) /\ (x.op \in TreeOps => x.cands \subseteq NotAgents)
    BY <1>0, <2>3 DEF SameCall, Owners
  <2>. HIDE DEF x
  <2>5. Owners(y)
    <3>1. CASE y \in Planned(x)
      BY <2>3, <2>4, <3>1, OwnersPlanned DEF SameCall
    <3>. QED BY <2>2, <2>4, <3>1 DEF x
  <2>. QED BY <1>2, <2>0, <2>2, <2>5
<1>5. ASSUME NEW c \in Callers, Execute(c) PROVE OwnersRows'
  BY <1>5, OwnersInsert, OwnersWrite
<1>6. ASSUME NEW c \in Callers, Return(c) \/ Crash(c) PROVE OwnersRows'
  <2>1. call' = [call EXCEPT ![c] = Idle] /\ UNCHANGED <<resource, table>>
    BY <1>6 DEF Return, Crash
  <2>2. Owners(Idle)
    BY DEF Owners, Idle, TreeOps
  <2>. QED BY <1>2, <2>1, <2>2
<1>7. CASE UNCHANGED <<resource, table, call>>
  BY <1>0, <1>7, OwnersUnmoved DEF OwnersRows
<1>. QED BY <1>1, <1>3, <1>4, <1>5, <1>6, <1>7 DEF Next, RevokeKey, vars

LEMMA OwnersStart == Init => OwnersRows
<1>. SUFFICES ASSUME Init, NEW c \in Callers PROVE Owners(call[c])
  BY DEF OwnersRows
<1>1. ~(Idle.op \in TreeOps)
  BY DEF Idle, TreeOps
<1>2. CASE call = [d \in Callers |-> Idle]
  BY <1>1, <1>2 DEF Owners
<1>3. ASSUME NEW b \in Callers, NEW k \in Keys, NEW row \in {Row("file", "write", TRUE), Row("drive", "write", TRUE)},
             NEW y \in Planned([Idle EXCEPT !.op = "created", !.key = k, !.want = row, !.before = Access]),
             resource = "file", call = [d \in Callers |-> IF d = b THEN y ELSE Idle]
      PROVE  Owners(call[c])
  <2>0. Granting(y, k, row)
    BY <1>3, CreatedOK
  <2>1. y.op = "created"
    BY <2>0 DEF Granting
  <2>. QED BY <1>1, <1>3, <2>1 DEF Owners, TreeOps
<1>. QED BY <1>2, <1>3 DEF Init

(* A row the agent's creation made is never changed by a call of the tree  *)
(* engine, whatever other calls do between the moment it selected its      *)
(* rules and each of its statements (AgentRowsKept).                       *)
THEOREM AgentRowsStay == Spec => AgentRowsKept
<1>1. Init => Typed /\ OwnersRows
  BY InitOK, OwnersStart
<1>2. Typed /\ OwnersRows /\ [Next]_vars => (Typed /\ OwnersRows)'
  BY TypedKept, OwnersKept
<1>3. Typed /\ OwnersRows /\ [Next]_vars
        => [\A c \in Callers, r \in RuleIds :
              call[c].op \in TreeOps /\ call'[c] # call[c] /\ table[r] # NoRule /\ table[r].agent
                => table'[r] = table[r] /\ assigned'[r] = assigned[r]]_vars
  <2>. SUFFICES ASSUME Typed, OwnersRows, [Next]_vars, NEW c \in Callers, NEW r \in RuleIds,
                       call[c].op \in TreeOps, call'[c] # call[c], table[r] # NoRule, table[r].agent
                PROVE  table'[r] = table[r] /\ assigned'[r] = assigned[r]
    OBVIOUS
  <2>1. ASSUME NEW d \in Callers, Begin(d) \/ Read(d) \/ Look(d) \/ Return(d) \/ Crash(d)
        PROVE  UNCHANGED <<table, assigned>>
    BY <2>1 DEF Begin, OfMail, OfFile, OfOneRule, Start, Read, Look, Return, Crash
  <2>2. ASSUME NEW d \in Callers, Execute(d) PROVE table'[r] = table[r] /\ assigned'[r] = assigned[r]
    <3>. DEFINE s == Head(call[d].todo)
    <3>0. PICK todo : Advance(d, todo) \/ (Throw(d) /\ todo = <<>>)
      BY <2>2, ExecuteStep
    <3>1. d = c
      BY <3>0, TodoFields
    <3>2. s \in TreeStatement(NotAgents) /\ r \notin NotAgents
      <4>1. call[c].todo \in Seq(TreeStatement(NotAgents)) /\ call[c].todo # <<>>
        BY <2>2, <3>1, HeadOK DEF OwnersRows, Owners, Execute
      <4>. QED BY <3>1, <4>1, HeadTailProperties DEF NotAgents
    <3>3. s.rule # r
      BY <3>2, Distinct DEF TreeStatement, NotAgents
    <3>4. CASE s.do = "insert"
      BY <2>2, <3>4 DEF Execute, InsertRow, Fresh, Typed
    <3>5. CASE s.do # "insert"
      BY <2>2, <3>3, <3>5, ExecuteStep
    <3>. QED BY <3>4, <3>5
  <2>3. CASE UNCHANGED <<table, assigned>>
    BY <2>3
  <2>. QED BY <2>1, <2>2, <2>3 DEF Next, RevokeKey, vars
<1>. QED BY <1>1, <1>2, <1>3, PTL DEF Spec, AgentRowsKept
------------------------------------------------------------------------------
(* What a profile had before a call that runs alone.  X are the rows the   *)
(* call inserted: the rules outside of it give every other profile what    *)
(* all of them gave before, and each statement left keeps that so.         *)
Sight(X, k, service) ==
  {table[r].level : r \in {y \in RuleIds \ X : Applies(k, y) /\ table[y].service = service}}

AsBefore(x, X) ==
  \A k \in Keys \ {x.key} : /\ x.before[k].send = SendLevel(Sight(X, k, "gmail"))
                            /\ x.before[k].file = FileLevel(Sight(X, k, "file"))

Adds(X) == \A r \in X : table[r] # NoRule /\ table[r].level # "block"

(* A rule that is not global gains the call's own profile.                 *)
Gains(x, do, r) == assigned[r] # {} /\ x.todo = <<Assign(do, r, {x.key})>>

Creates(x) ==
  \E row \in RowsHere, ks \in SUBSET Keys :
    row.level # "block" /\ (x.todo = <<Insert(row)>> \/ x.todo = <<Insert(row), Assign("assign", New, ks)>>)
Exposes(x) ==
  \E r \in RuleIds :
    \/ x.todo = <<Do("rename", r)>>
    \/ x.todo = <<Do("rename", r), Do("look", r), Assign("join", r, {x.key})>>
    \/ x.todo = <<Do("look", r), Assign("join", r, {x.key})>>

Harmless(x, X) ==
  \/ x.todo = <<>>
  \/ Creates(x)
  \/ \E r \in X, ks \in SUBSET Keys : x.todo = <<Assign("assign", r, ks)>>
  \/ Exposes(x)
  \/ \E r \in RuleIds, do \in {"assign", "pinquietly", "join"} : Gains(x, do, r)

Lone(c) == \A d \in Callers : d # c => call[d].stage = "idle"

Widens(c) ==
  LET x == call[c]
  IN  x.op \in Grants /\ x.alone =>
        /\ \E X \in SUBSET RuleIds : Adds(X) /\ AsBefore(x, X) /\ Harmless(x, X)
        /\ x.op = "assign" /\ x.stage \in {"reading", "looking"} => assigned[x.rule] # {}
        /\ x.stage = "looking" => \A r \in Seen(x) : x.seen[r] = assigned[r]

Alone == \A c \in Callers : call[c].alone /\ call[c].stage # "idle" => Lone(c)

(* A step of a call that is in progress changes no other call.             *)
LEMMA Continued ==
  ASSUME Typed, NEW c \in Callers, Read(c) \/ Look(c) \/ Execute(c)
  PROVE  /\ \A d \in Callers : d # c => call'[d] = call[d]
         /\ call[c].stage # "idle" /\ call'[c].stage # "idle"
         /\ call'[c].op = call[c].op /\ call'[c].key = call[c].key /\ call'[c].want = call[c].want
         /\ call'[c].before = call[c].before /\ call'[c].alone = call[c].alone
<1>0. call \in [Callers -> CallRecord] /\ call[c] \in CallRecord
  BY DEF Typed
<1>1. CASE Read(c)
  <2>1. call[c].stage = "reading"
    BY <1>1 DEF Read
  <2>2. PICK cands \in SUBSET RuleIds :
          \E y \in {[Finding(c, cands) EXCEPT !.stage = "looking"]} \cup Planned(Finding(c, cands)) :
            call' = [call EXCEPT ![c] = y]
    BY <1>1, ReadStep
  <2>3. PICK y \in {[Finding(c, cands) EXCEPT !.stage = "looking"]} \cup Planned(Finding(c, cands)) :
          call' = [call EXCEPT ![c] = y]
    BY <2>2
  <2>4. SameCall(Finding(c, cands), c)
    BY <2>1, FindingOK
  <2>. DEFINE x == Finding(c, cands)
  <2>5. /\ x \in CallRecord /\ x.op = call[c].op /\ x.key = call[c].key /\ x.want = call[c].want
        /\ x.before = call[c].before /\ x.alone = call[c].alone
    BY <2>4 DEF SameCall
  <2>. HIDE DEF x
  <2>6. /\ y.op = x.op /\ y.key = x.key /\ y.want = x.want /\ y.before = x.before /\ y.alone = x.alone
        /\ y.stage # "idle"
    <3>1. CASE y \in Planned(x)
      BY <2>5, <3>1, PlannedFields
    <3>2. CASE y = [x EXCEPT !.stage = "looking"]
      BY <2>5, <3>2 DEF CallRecord
    <3>. QED BY <2>3, <3>1, <3>2 DEF x
  <2>. QED BY <1>0, <2>1, <2>3, <2>5, <2>6
<1>2. CASE Look(c)
  <2>1. call[c].stage = "looking"
    BY <1>2 DEF Look
  <2>2. PICK rs \in SUBSET call[c].cands :
          \E y \in {Seeing(c, rs)} \cup Planned(Seeing(c, rs)) : call' = [call EXCEPT ![c] = y]
    BY <1>2, LookStep
  <2>3. PICK y \in {Seeing(c, rs)} \cup Planned(Seeing(c, rs)) : call' = [call EXCEPT ![c] = y]
    BY <2>2
  <2>4. SameCall(Seeing(c, rs), c)
    BY <2>1, SeeingOK
  <2>. DEFINE x == Seeing(c, rs)
  <2>5. /\ x \in CallRecord /\ x.op = call[c].op /\ x.key = call[c].key /\ x.want = call[c].want
        /\ x.before = call[c].before /\ x.alone = call[c].alone /\ x.stage = "looking"
    BY <2>1, <2>4 DEF SameCall
  <2>. HIDE DEF x
  <2>6. /\ y.op = x.op /\ y.key = x.key /\ y.want = x.want /\ y.before = x.before /\ y.alone = x.alone
        /\ y.stage # "idle"
    <3>1. CASE y \in Planned(x)
      BY <2>5, <3>1, PlannedFields
    <3>. QED BY <2>3, <2>5, <3>1 DEF x
  <2>. QED BY <1>0, <2>1, <2>3, <2>5, <2>6
<1>3. CASE Execute(c)
  <2>1. call[c].stage = "running"
    BY <1>3 DEF Execute
  <2>2. PICK todo : Advance(c, todo) \/ (Throw(c) /\ todo = <<>>)
    BY <1>3, ExecuteStep
  <2>3. Throw(c) => call'[c].stage = "failed"
    BY <1>0 DEF Throw, CallRecord
  <2>. QED BY <2>1, <2>2, <2>3, TodoFields
<1>. QED BY <1>1, <1>2, <1>3

LEMMA AloneKept == Typed /\ Alone /\ [Next]_vars => Alone'
<1>. SUFFICES ASSUME Typed, Alone, [Next]_vars, NEW c \in Callers, call'[c].alone, call'[c].stage # "idle",
                     NEW d \in Callers, d # c
              PROVE  call'[d].stage = "idle"
  BY DEF Alone, Lone
<1>0. call \in [Callers -> CallRecord] /\ Idle.stage = "idle"
  BY IdleOK DEF Typed
<1>1. ASSUME NEW b \in Callers, Begin(b) PROVE call'[d].stage = "idle"
  <2>1. PICK op, key, want, rule, ks : Offered(op, key, want, rule, ks) /\ Start(b, op, key, want, rule, ks)
    BY <1>1, BeginStep DEF Opens
  <2>2. PICK y \in CallRecord : StartsAs(b, y) /\ y.alone = (Busy = {})
    BY <2>1, StartStep DEF Offered
  <2>3. c = b
    <3>. SUFFICES ASSUME c # b PROVE FALSE
      OBVIOUS
    <3>1. call'[c] = [call[c] EXCEPT !.alone = FALSE] /\ call[c] \in CallRecord
      BY <1>0, <2>2 DEF StartsAs
    <3>. QED BY <3>1 DEF CallRecord
  <2>4. call[d].stage = "idle"
    BY <2>2, <2>3 DEF StartsAs, Busy
  <2>5. call'[d] = [call[d] EXCEPT !.alone = FALSE] /\ call[d] \in CallRecord
    BY <1>0, <2>2, <2>3 DEF StartsAs
  <2>. QED BY <2>4, <2>5 DEF CallRecord
<1>2. ASSUME NEW b \in Callers, Read(b) \/ Look(b) \/ Execute(b) PROVE call'[d].stage = "idle"
  BY <1>2, Continued DEF Alone, Lone
<1>3. ASSUME NEW b \in Callers, Return(b) \/ Crash(b) PROVE call'[d].stage = "idle"
  BY <1>0, <1>3 DEF Return, Crash, Alone, Lone
<1>4. CASE UNCHANGED call
  BY <1>4 DEF Alone, Lone
<1>. QED BY <1>1, <1>2, <1>3, <1>4 DEF Next, RevokeKey, vars

(* What the approval pages ask for.                                        *)
Asked ==
  \A c \in Callers : /\ call[c].op = "approve" => call[c].want \in {"one", "all", "read", "write"}
                     /\ call[c].op = "anyone" => call[c].want = "all"
                     /\ call[c].op = "created" => call[c].want.level # "block"

LEMMA AskedKept == Typed /\ Asked /\ [Next]_vars => Asked'
<1>. SUFFICES ASSUME Typed, Asked, [Next]_vars, NEW c \in Callers
              PROVE  /\ call'[c].op = "approve" => call'[c].want \in {"one", "all", "read", "write"}
                     /\ call'[c].op = "anyone" => call'[c].want = "all"
                     /\ call'[c].op = "created" => call'[c].want.level # "block"
  BY DEF Asked
<1>0. call \in [Callers -> CallRecord] /\ Idle.op = "none"
  BY DEF Typed, Idle
<1>1. ASSUME NEW b \in Callers, Begin(b)
      PROVE  \/ call'[c].op = call[c].op /\ call'[c].want = call[c].want
             \/ \E op, key, want, rule, ks :
                  Offered(op, key, want, rule, ks) /\ call'[c].op = op /\ call'[c].want = want
  <2>1. PICK op, key, want, rule, ks : Offered(op, key, want, rule, ks) /\ Start(b, op, key, want, rule, ks)
    BY <1>1, BeginStep DEF Opens
  <2>2. PICK y \in CallRecord : StartsAs(b, y) /\ y.op = op /\ y.want = want
    BY <2>1, StartStep DEF Offered
  <2>3. CASE c = b
    BY <2>1, <2>2, <2>3 DEF StartsAs
  <2>4. CASE c # b
    <3>1. call'[c] = [call[c] EXCEPT !.alone = FALSE] /\ call[c] \in CallRecord
      BY <1>0, <2>2, <2>4 DEF StartsAs
    <3>. QED BY <3>1 DEF CallRecord
  <2>. QED BY <2>3, <2>4
<1>2. ASSUME NEW b \in Callers, Read(b) \/ Look(b) \/ Execute(b)
      PROVE  call'[c].op = call[c].op /\ call'[c].want = call[c].want
  BY <1>2, Continued
<1>3. ASSUME NEW b \in Callers, Return(b) \/ Crash(b) PROVE call'[c] = call[c] \/ call'[c] = Idle
  BY <1>0, <1>3 DEF Return, Crash
<1>4. ASSUME NEW b \in Callers, Begin(b) \/ Read(b) \/ Look(b) \/ Execute(b) \/ Return(b) \/ Crash(b)
      PROVE  /\ call'[c].op = "approve" => call'[c].want \in {"one", "all", "read", "write"}
             /\ call'[c].op = "anyone" => call'[c].want = "all"
             /\ call'[c].op = "created" => call'[c].want.level # "block"
  BY <1>0, <1>1, <1>2, <1>3, <1>4 DEF Asked, Offered
<1>5. CASE UNCHANGED call
  BY <1>5 DEF Asked
<1>. QED BY <1>4, <1>5 DEF Next, RevokeKey, vars

LEMMA SightKept ==
  ASSUME NEW X \in SUBSET RuleIds, NEW Y \in SUBSET RuleIds, X \subseteq Y, NEW k,
         \A r \in Y \ X : table[r] = NoRule,
         \A r \in RuleIds \ Y : /\ Applies(k, r)' <=> Applies(k, r)
                                /\ table[r] # NoRule => /\ table'[r].service = table[r].service
                                                        /\ table'[r].level = table[r].level
  PROVE  \A service : Sight(Y, k, service)' = Sight(X, k, service)
<1>. SUFFICES ASSUME NEW service PROVE Sight(Y, k, service)' = Sight(X, k, service)
  OBVIOUS
<1>. DEFINE In == {y \in RuleIds \ X : Applies(k, y) /\ table[y].service = service}
            Out == {y \in RuleIds \ Y : Applies(k, y)' /\ table'[y].service = service}
<1>0. ASSUME NEW r \in RuleIds
      PROVE  /\ r \in In <=> r \in Out
             /\ r \in In => table'[r].level = table[r].level
  <2>1. CASE r \in Y \ X
    BY <2>1 DEF Applies
  <2>2. CASE r \in RuleIds \ Y
    <3>1. Applies(k, r) => table[r] # NoRule
      BY DEF Applies
    <3>. QED BY <2>2, <3>1 DEF Applies
  <2>3. CASE r \in X
    BY <2>3
  <2>. QED BY <2>1, <2>2, <2>3
<1>1. In = Out /\ \A r \in In : table'[r].level = table[r].level
  BY <1>0
<1>. HIDE DEF In, Out
<1>2. {table[r].level : r \in In} = {table'[r].level : r \in Out}
  BY <1>1
<1>. QED BY <1>2 DEF Sight, In, Out

(* Rows the same for a profile: the call's record may have gone on.        *)
LEMMA StillAsBefore ==
  ASSUME NEW c, NEW X \in SUBSET RuleIds, NEW Y \in SUBSET RuleIds, AsBefore(call[c], X),
         call'[c].key = call[c].key, call'[c].before = call[c].before,
         \A k \in Keys \ {call[c].key} : \A service : Sight(Y, k, service)' = Sight(X, k, service)
  PROVE  AsBefore(call[c], Y)'
BY DEF AsBefore

LEMMA HarmlessPlans ==
  ASSUME Typed, NEW x, Sensible(x), x.op \in Grants,
         x.op = "assign" => assigned[x.rule] # {},
         x.op = "approve" => x.want # "block",
         \A r \in Seen(x) : x.seen[r] = assigned[r],
         x.op = "anyone" => Seen(x) = x.cands \/ Covered(x),
         x.op = "created" => x.want.level # "block",
         NEW y, y.key = x.key, y.todo \in Plans(x), NEW X
  PROVE  Harmless(y, X)
<1>0. /\ x.keys \in SUBSET Keys /\ x.cands \in SUBSET RuleIds /\ Seen(x) \subseteq x.cands
      /\ x.op \in {"assign", "anyone", "approve", "created"} => x.key \in Keys
      /\ x.op = "assign" => x.rule \in RuleIds
      /\ x.op = "approve" => x.want \in LevelsHere
      /\ x.op \in {"create", "created"} => x.want \in RowsHere
      /\ x.op \in {"create", "anyone"} => resource = "mail"
      /\ x.op = "expose" => resource = "file"
      /\ resource \in {"mail", "file"}
  BY DEF Sensible, Meant, CallRecord, KeyOps, MailOps, FileOps, OneRuleOps, Seen, Typed
<1>a. ASSUME NEW row \in RowsHere, row.level # "block", NEW ks \in SUBSET Keys, y.todo = Create(row, ks)
      PROVE  Harmless(y, X)
  <2>1. Create(row, ks) = <<Insert(row)>> \/ Create(row, ks) = <<Insert(row), Assign("assign", New, ks)>>
    <3>1. CASE ks = {}
      BY <3>1, NoneOK DEF Create, AssignTo
    <3>2. CASE ks # {}
      BY <3>2, TwoOK DEF Create, AssignTo
    <3>. QED BY <3>1, <3>2
  <2>. QED BY <1>a, <2>1 DEF Harmless, Creates
<1>b. y.todo = <<>> => Harmless(y, X)
  BY DEF Harmless
<1>1. CASE x.op = "create"
  <2>1. y.todo = Create(x.want, x.keys)
    BY <1>1 DEF Plans, OneRuleOps
  <2>2. x.want.level # "block"
    <3>1. resource = "mail" /\ x.want \in RowsHere
      BY <1>0, <1>1
    <3>2. RowsHere = [service : {"gmail"}, level : {"one", "all", "hide"}, agent : BOOLEAN]
      BY <3>1, HereIsTyped
    <3>. QED BY <3>1, <3>2
  <2>. QED BY <1>0, <1>1, <1>a, <2>1, <2>2
<1>2. CASE x.op = "assign"
  <2>1. y.todo = <<>> \/ y.todo = <<Assign("pinquietly", x.rule, {x.key})>>
    BY <1>2 DEF Plans, OneRuleOps
  <2>. QED BY <1>0, <1>2, <1>b, <2>1 DEF Harmless, Gains
<1>3. CASE x.op = "anyone"
  <2>1. y.todo \in AnyonePlans(x)
    BY <1>3 DEF Plans, OneRuleOps
  <2>2. Row("gmail", "all", FALSE) \in RowsHere /\ Row("gmail", "all", FALSE).level # "block"
    BY <1>0, <1>3, HereIsTyped DEF Row
  <2>3. CASE Covered(x)
    BY <1>b, <2>1, <2>3 DEF AnyonePlans
  <2>4. CASE ~Covered(x) /\ x.cands = {}
    <3>1. y.todo = Create(Row("gmail", "all", FALSE), {x.key})
      BY <2>1, <2>4 DEF AnyonePlans
    <3>2. {x.key} \in SUBSET Keys
      BY <1>0, <1>3
    <3>. QED BY <1>a, <2>2, <3>1, <3>2
  <2>5. CASE ~Covered(x) /\ x.cands # {}
    <3>1. PICK r \in x.cands : y.todo = <<Assign("assign", r, {x.key})>>
      BY <2>1, <2>5 DEF AnyonePlans
    <3>2. assigned[r] # {} /\ r \in RuleIds
      BY <1>0, <1>3, <2>5 DEF Covered
    <3>. QED BY <3>1, <3>2 DEF Harmless, Gains
  <2>. QED BY <2>3, <2>4, <2>5
<1>4. CASE x.op = "approve"
  <2>1. y.todo \in ApprovePlans(x)
    BY <1>4 DEF Plans, OneRuleOps
  <2>. DEFINE row == Row(IF resource = "mail" THEN "gmail" ELSE "file", x.want, FALSE)
  <2>2. row \in RowsHere /\ row.level # "block"
    BY <1>0, <1>4 DEF Row, RowsHere, Services
  <2>3. y.todo = <<>> \/ y.todo = Create(row, {x.key})
    BY <2>1 DEF ApprovePlans
  <2>. HIDE DEF row
  <2>. QED BY <1>0, <1>4, <1>a, <1>b, <2>2, <2>3
<1>5. CASE x.op = "expose"
  <2>1. y.todo \in ExposePlans(x)
    BY <1>5 DEF Plans, OneRuleOps
  <2>2. Row("file", "read", FALSE) \in RowsHere /\ Row("file", "read", FALSE).level # "block"
    BY <1>0, <1>5, HereIsTyped DEF Row
  <2>3. CASE x.cands = {}
    <3>1. y.todo = Create(Row("file", "read", FALSE), {x.key} \cap Keys)
      BY <2>1, <2>3 DEF ExposePlans
    <3>. QED BY <1>a, <2>2, <3>1
  <2>4. CASE x.cands # {}
    <3>1. PICK r \in x.cands :
            y.todo = <<Do("rename", r)>> \o (IF x.key \in Keys THEN <<Do("look", r), Assign("join", r, {x.key})>>
                                             ELSE <<>>)
      BY <2>1, <2>4 DEF ExposePlans
    <3>2. y.todo = <<Do("rename", r)>> \/ y.todo = <<Do("rename", r), Do("look", r), Assign("join", r, {x.key})>>
      <4>1. CASE x.key \in Keys
        <5>1. y.todo = <<Do("rename", r)>> \o <<Do("look", r), Assign("join", r, {x.key})>>
          BY <3>1, <4>1
        <5>2. <<Do("rename", r)>> \o <<Do("look", r), Assign("join", r, {x.key})>>
                = <<Do("rename", r), Do("look", r), Assign("join", r, {x.key})>>
          BY ThreeOK
        <5>. QED BY <5>1, <5>2
      <4>2. CASE x.key \notin Keys
        BY <3>1, <4>2, NoneOK
      <4>. QED BY <4>1, <4>2
    <3>. QED BY <1>0, <3>2 DEF Harmless, Exposes
  <2>. QED BY <2>3, <2>4
<1>6. CASE x.op = "created"
  <2>1. y.todo = Create(x.want, {x.key})
    BY <1>6 DEF Plans, OneRuleOps
  <2>2. {x.key} \in SUBSET Keys
    BY <1>0, <1>6
  <2>. QED BY <1>0, <1>6, <1>a, <2>1, <2>2
<1>. QED BY <1>1, <1>2, <1>3, <1>4, <1>5, <1>6 DEF Grants

Fits(c, X) == Adds(X) /\ AsBefore(call[c], X) /\ Harmless(call[c], X)

(* What is left of the list after an insertion.                            *)
Rest(todo, r) == [i \in 1..(Len(todo) - 1) |-> [todo[i + 1] EXCEPT !.rule = IF @ = New THEN r ELSE @]]

LEMMA RestOfOne == ASSUME NEW a, NEW r PROVE Rest(<<a>>, r) = <<>>
<1>1. Len(<<a>>) - 1 = 0
  OBVIOUS
<1>. QED BY <1>1 DEF Rest

LEMMA RestOfTwo ==
  ASSUME NEW a, NEW b, NEW r PROVE Rest(<<a, b>>, r) = <<[b EXCEPT !.rule = IF @ = New THEN r ELSE @]>>
<1>. DEFINE p == Rest(<<a, b>>, r)
<1>1. Len(<<a, b>>) - 1 = 1
  OBVIOUS
<1>2. p = [i \in 1..1 |-> [<<a, b>>[i + 1] EXCEPT !.rule = IF @ = New THEN r ELSE @]]
  BY <1>1 DEF Rest
<1>3. DOMAIN p = 1..1 /\ p[1] = [b EXCEPT !.rule = IF @ = New THEN r ELSE @]
  BY <1>2
<1>. HIDE DEF p
<1>4. p = [i \in 1..1 |-> p[i]]
  BY <1>2, <1>3
<1>5. p = <<p[1]>>
  BY <1>3, <1>4
<1>. QED BY <1>3, <1>5 DEF p

LEMMA FitsInsert ==
  ASSUME Typed, NEW c \in Callers, Execute(c), NEW X \in SUBSET RuleIds, Fits(c, X), Creates(call[c])
  PROVE  \E Y \in SUBSET RuleIds : Fits(c, Y)'
<1>1. PICK row \in RowsHere, ks \in SUBSET Keys :
        /\ row.level # "block"
        /\ call[c].todo = <<Insert(row)>> \/ call[c].todo = <<Insert(row), Assign("assign", New, ks)>>
  BY DEF Creates
<1>2. Insert(row).do = "insert" /\ Insert(row).row = row /\ Head(call[c].todo) = Insert(row)
  BY <1>1, HeadsOK DEF Insert
<1>3. PICK r \in Fresh : /\ table' = [table EXCEPT ![r] = row] /\ assigned' = [assigned EXCEPT ![r] = {}]
                         /\ Advance(c, Rest(call[c].todo, r))
  BY <1>2 DEF Execute, InsertRow, Rest
<1>4. r \in RuleIds /\ table[r] = NoRule /\ r \notin X
  BY <1>3 DEF Fresh, Fits, Adds
<1>. DEFINE Y == X \cup {r}
<1>5. /\ table \in [RuleIds -> RowsHere \cup {NoRule}] /\ assigned \in [RuleIds -> SUBSET Keys] /\ NoRule \notin RowsHere
  BY HereIsTyped DEF Typed
<1>6. Adds(Y)'
  BY <1>1, <1>3, <1>4, <1>5 DEF Adds, Fits
<1>7. \A k : \A service : Sight(Y, k, service)' = Sight(X, k, service)
  <2>. SUFFICES ASSUME NEW k PROVE \A service : Sight(Y, k, service)' = Sight(X, k, service)
    OBVIOUS
  <2>1. \A y \in RuleIds \ Y : table'[y] = table[y] /\ assigned'[y] = assigned[y]
    BY <1>3, <1>4, <1>5
  <2>2. \A y \in RuleIds \ Y : Applies(k, y)' <=> Applies(k, y)
    BY <2>1 DEF Applies
  <2>3. Y \in SUBSET RuleIds /\ X \subseteq Y /\ \A y \in Y \ X : table[y] = NoRule
    BY <1>4
  <2>. HIDE DEF Y
  <2>. QED BY <2>1, <2>2, <2>3, SightKept
<1>8. /\ call'[c].key = call[c].key /\ call'[c].before = call[c].before
      /\ call'[c].todo = Rest(call[c].todo, r)
  BY <1>3, TodoFields
<1>9. AsBefore(call[c], Y)'
  BY <1>4, <1>7, <1>8, StillAsBefore DEF Fits
<1>10. Harmless(call[c], Y)'
  <2>1. CASE call[c].todo = <<Insert(row)>>
    <3>1. call'[c].todo = <<>>
      BY <1>8, <2>1, RestOfOne
    <3>. QED BY <3>1 DEF Harmless
  <2>2. CASE call[c].todo = <<Insert(row), Assign("assign", New, ks)>>
    <3>1. [Assign("assign", New, ks) EXCEPT !.rule = IF @ = New THEN r ELSE @] = Assign("assign", r, ks)
      BY DEF Assign
    <3>2. call'[c].todo = <<Assign("assign", r, ks)>>
      BY <1>8, <2>2, <3>1, RestOfTwo
    <3>. QED BY <3>2 DEF Harmless
  <2>. QED BY <1>1, <2>1, <2>2
<1>. QED BY <1>4, <1>6, <1>9, <1>10 DEF Fits

(* The tables after an insertion of assignments.                           *)
LEMMA InsertsOrNot ==
  ASSUME Typed, NEW c \in Callers, NEW do, NEW r, NEW all, NEW ks, InsertAssignments(c, Assign(do, r, all), ks),
         call[c].todo = <<Assign(do, r, all)>>
  PROVE  /\ UNCHANGED table
         /\ \/ UNCHANGED assigned /\ call'[c].todo = <<>> /\ call'[c].stage = "failed"
            \/ /\ assigned' = [assigned EXCEPT ![r] = @ \cup ks] /\ table[r] # NoRule
               /\ call'[c].todo = (IF all = ks THEN <<>> ELSE <<Assign(do, r, all \ ks)>>)
               /\ call'[c].stage = (IF all = ks THEN "done" ELSE "running")
         /\ call'[c].key = call[c].key /\ call'[c].before = call[c].before
<1>. DEFINE s == Assign(do, r, all)
<1>0. s.do = do /\ s.rule = r /\ s.keys = all /\ [s EXCEPT !.keys = @ \ ks] = Assign(do, r, all \ ks)
  BY DEF Assign
<1>. HIDE DEF s
<1>1. CASE table[r] = NoRule \/ (do # "pinquietly" /\ ks \cap assigned[r] # {})
  <2>1. Throw(c) /\ UNCHANGED <<table, assigned>>
    BY <1>0, <1>1 DEF InsertAssignments, s
  <2>2. call'[c].stage = "failed"
    BY <2>1 DEF Throw, Typed, CallRecord
  <2>. QED BY <2>1, <2>2, TodoFields
<1>2. CASE ~(table[r] = NoRule \/ (do # "pinquietly" /\ ks \cap assigned[r] # {}))
  <2>1. /\ assigned' = [assigned EXCEPT ![r] = @ \cup ks] /\ UNCHANGED table /\ table[r] # NoRule
        /\ Advance(c, (IF all = ks THEN <<>> ELSE <<[s EXCEPT !.keys = @ \ ks]>>) \o Tail(call[c].todo))
    <3>1. InsertAssignments(c, s, ks)
      BY DEF s
    <3>. QED BY <1>0, <1>2, <3>1 DEF InsertAssignments
  <2>3. Tail(call[c].todo) = <<>>
    BY HeadsOK
  <2>4. Advance(c, (IF all = ks THEN <<>> ELSE <<Assign(do, r, all \ ks)>>))
    <3>1. CASE all = ks
      BY <2>1, <2>3, <3>1, NoneOK
    <3>2. CASE all # ks
      <4>. DEFINE t == Assign(do, r, all \ ks)
      <4>1. <<t>> \o <<>> = <<t>>
        BY NoneOK
      <4>2. Advance(c, <<t>> \o <<>>)
        BY <1>0, <2>1, <2>3, <3>2
      <4>. HIDE DEF t
      <4>3. Advance(c, <<t>>)
        BY <4>1, <4>2
      <4>. QED BY <3>2, <4>3 DEF t
    <3>. QED BY <3>1, <3>2
  <2>5. <<Assign(do, r, all \ ks)>> # <<>>
    BY HeadsOK
  <2>. QED BY <2>1, <2>4, <2>5, TodoFields
<1>. QED BY <1>1, <1>2

LEMMA FitsAssign ==
  ASSUME Typed, NEW c \in Callers, Execute(c), NEW X \in SUBSET RuleIds, Fits(c, X),
         NEW r \in RuleIds, NEW ks \in SUBSET Keys, NEW do \in {"assign", "pinquietly", "join"},
         call[c].todo = <<Assign(do, r, ks)>>,
         \/ r \in X /\ do = "assign"
         \/ assigned[r] # {} /\ ks = {call[c].key}
  PROVE  Fits(c, X)'
<1>. DEFINE s == Assign(do, r, ks)
<1>1. s.do = do /\ s.rule = r /\ s.keys = ks /\ s = Assign(s.do, s.rule, s.keys) /\ Head(call[c].todo) = s
  BY HeadsOK DEF Assign
<1>. HIDE DEF s
<1>2. PICK k1 \in SUBSET ks : InsertAssignments(c, s, k1)
  <2>1. AssignKeys(c, s)
    BY <1>1 DEF Execute
  <2>. QED BY <1>1, <2>1 DEF AssignKeys
<1>. USE DEF s
<1>3. /\ UNCHANGED table
      /\ \/ UNCHANGED assigned /\ call'[c].todo = <<>>
         \/ /\ assigned' = [assigned EXCEPT ![r] = @ \cup k1]
            /\ call'[c].todo = (IF ks = k1 THEN <<>> ELSE <<Assign(do, r, ks \ k1)>>)
      /\ call'[c].key = call[c].key /\ call'[c].before = call[c].before
  BY <1>2, InsertsOrNot
<1>. HIDE DEF s
<1>4. Adds(X)'
  BY <1>3 DEF Adds, Fits
<1>5. ASSUME NEW k \in Keys \ {call[c].key} PROVE \A service : Sight(X, k, service)' = Sight(X, k, service)
  <2>1. ASSUME NEW y \in RuleIds \ X PROVE Applies(k, y)' <=> Applies(k, y)
    <3>1. table'[y] = table[y]
      BY <1>3
    <3>2. assigned'[y] = assigned[y] \/ (assigned[y] # {} /\ assigned'[y] = assigned[y] \cup k1 /\ k \notin k1)
      BY <1>3 DEF Typed
    <3>. QED BY <3>1, <3>2 DEF Applies
  <2>2. \A y \in RuleIds : table'[y] = table[y]
    BY <1>3
  <2>. QED BY <2>1, <2>2, SightKept
<1>6. AsBefore(call[c], X)'
  BY <1>3, <1>5, StillAsBefore DEF Fits
<1>7. Harmless(call[c], X)'
  <2>1. CASE call'[c].todo = <<>>
    BY <2>1 DEF Harmless
  <2>2. CASE call'[c].todo = <<Assign(do, r, ks \ k1)>> /\ r \in X /\ do = "assign"
    <3>1. ks \ k1 \in SUBSET Keys
      OBVIOUS
    <3>. QED BY <2>2, <3>1 DEF Harmless
  <2>3. CASE /\ call'[c].todo = <<Assign(do, r, ks \ k1)>> /\ ks # k1 /\ assigned' = [assigned EXCEPT ![r] = @ \cup k1]
             /\ assigned[r] # {} /\ ks = {call[c].key}
    <3>1. k1 = {} /\ ks \ k1 = {call'[c].key}
      BY <1>3, <2>3
    <3>2. assigned'[r] # {}
      BY <2>3 DEF Typed
    <3>. QED BY <2>3, <3>1, <3>2 DEF Harmless, Gains
  <2>. QED BY <1>3, <2>1, <2>2, <2>3
<1>. QED BY <1>4, <1>6, <1>7 DEF Fits

LEMMA FitsExpose ==
  ASSUME Typed, NEW c \in Callers, Execute(c), NEW X \in SUBSET RuleIds, Fits(c, X), Exposes(call[c])
  PROVE  Fits(c, X)'
<1>. DEFINE key == call[c].key
<1>0. table \in [RuleIds -> RowsHere \cup {NoRule}] /\ NoRule \notin RowsHere
  BY HereIsTyped DEF Typed
<1>1. PICK r \in RuleIds :
        \/ call[c].todo = <<Do("rename", r)>>
        \/ call[c].todo = <<Do("rename", r), Do("look", r), Assign("join", r, {key})>>
        \/ call[c].todo = <<Do("look", r), Assign("join", r, {key})>>
  BY DEF Exposes
<1>2. CASE call[c].todo \in {<<Do("rename", r)>>, <<Do("rename", r), Do("look", r), Assign("join", r, {key})>>}
  <2>1. Do("rename", r).do = "rename" /\ Do("rename", r).rule = r /\ Head(call[c].todo) = Do("rename", r)
    BY SMTT(30), <1>2, HeadsOK DEF Do
  <2>2. UpdateRow(c, Do("rename", r))
    BY <2>1 DEF Execute
  <2>3. /\ table' = [table EXCEPT ![r] = IF @ = NoRule THEN @ ELSE [@ EXCEPT !.agent = FALSE]]
        /\ Advance(c, Tail(call[c].todo)) /\ UNCHANGED assigned
    BY <2>1, <2>2 DEF UpdateRow
  <2>4. \A y \in RuleIds : /\ table[y] = NoRule <=> table'[y] = NoRule
                           /\ table[y] # NoRule => /\ table'[y].service = table[y].service
                                                   /\ table'[y].level = table[y].level
    <3>1. \A row \in RowsHere : /\ [row EXCEPT !.agent = FALSE] \in RowsHere
                                /\ [row EXCEPT !.agent = FALSE].service = row.service
                                /\ [row EXCEPT !.agent = FALSE].level = row.level
      BY DEF RowsHere
    <3>. QED BY <1>0, <2>3, <3>1
  <2>5. Adds(X)'
    BY <2>4 DEF Adds, Fits
  <2>6. ASSUME NEW k PROVE \A service : Sight(X, k, service)' = Sight(X, k, service)
    <3>1. \A y \in RuleIds \ X : Applies(k, y)' <=> Applies(k, y)
      BY <2>3, <2>4 DEF Applies
    <3>. QED BY <2>4, <3>1, SightKept
  <2>7. call'[c].key = call[c].key /\ call'[c].before = call[c].before /\ call'[c].todo = Tail(call[c].todo)
    BY <2>3, TodoFields
  <2>8. AsBefore(call[c], X)'
    BY <2>6, <2>7, StillAsBefore DEF Fits
  <2>9. Harmless(call[c], X)'
    <3>1. call'[c].todo = <<>> \/ call'[c].todo = <<Do("look", r), Assign("join", r, {key})>>
      <4>1. CASE call[c].todo = <<Do("rename", r)>>
        BY <2>7, <4>1, HeadsOK
      <4>2. CASE call[c].todo = <<Do("rename", r), Do("look", r), Assign("join", r, {key})>>
        BY <2>7, <4>2, HeadsOK
      <4>. QED BY <1>2, <4>1, <4>2
    <3>. QED BY <2>7, <3>1 DEF Harmless, Exposes
  <2>. QED BY <2>5, <2>8, <2>9 DEF Fits
<1>3. CASE call[c].todo = <<Do("look", r), Assign("join", r, {key})>>
  <2>1. /\ Do("look", r).do = "look" /\ Do("look", r).rule = r /\ Head(call[c].todo) = Do("look", r)
        /\ Tail(call[c].todo) = <<Assign("join", r, {key})>>
    BY <1>3, HeadsOK DEF Do
  <2>2. LookAtRow(c, Do("look", r))
    BY <2>1 DEF Execute
  <2>3. PICK todo : /\ Advance(c, todo) /\ UNCHANGED <<table, assigned>>
                    /\ todo = <<>> \/ (todo = <<Assign("join", r, {key})>> /\ assigned[r] # {})
    BY <2>1, <2>2 DEF LookAtRow, Unless
  <2>4. call'[c].key = call[c].key /\ call'[c].before = call[c].before /\ call'[c].todo = todo
    BY <2>3, TodoFields
  <2>5. Adds(X)'
    BY <2>3 DEF Adds, Fits
  <2>6. AsBefore(call[c], X)'
    <3>1. \A k : \A service : Sight(X, k, service)' = Sight(X, k, service)
      BY <2>3 DEF Sight, Applies
    <3>. QED BY <2>4, <3>1, StillAsBefore DEF Fits
  <2>7. Harmless(call[c], X)'
    BY <2>3, <2>4 DEF Harmless, Gains
  <2>. QED BY <2>5, <2>6, <2>7 DEF Fits
<1>. QED BY <1>1, <1>2, <1>3

LEMMA FitsExecute ==
  ASSUME Typed, NEW c \in Callers, Execute(c), NEW X \in SUBSET RuleIds, Fits(c, X)
  PROVE  \E Y \in SUBSET RuleIds : Fits(c, Y)'
<1>1. call[c].todo # <<>>
  BY HeadOK DEF Execute
<1>2. CASE Creates(call[c])
  BY <1>2, FitsInsert
<1>3. CASE Exposes(call[c])
  BY <1>3, FitsExpose
<1>4. CASE \E r \in X, ks \in SUBSET Keys : call[c].todo = <<Assign("assign", r, ks)>>
  BY <1>4, FitsAssign
<1>5. CASE \E r \in RuleIds, do \in {"assign", "pinquietly", "join"} : Gains(call[c], do, r)
  <2>1. PICK r \in RuleIds, do \in {"assign", "pinquietly", "join"} : Gains(call[c], do, r)
    BY <1>5
  <2>2. assigned[r] # {} /\ call[c].todo = <<Assign(do, r, {call[c].key})>>
    BY <2>1 DEF Gains
  <2>3. {call[c].key} \in SUBSET Keys
    <3>1. Assign(do, r, {call[c].key}) \in Statement
      BY <2>2, HeadOK, HeadsOK DEF Execute
    <3>. QED BY <3>1 DEF Assign, Statement
  <2>. QED BY <2>2, <2>3, FitsAssign
<1>. QED BY <1>1, <1>2, <1>3, <1>4, <1>5 DEF Fits, Harmless

LEMMA FitsUnmoved ==
  ASSUME UNCHANGED <<resource, table, assigned>>, NEW c, NEW X,
         Adds(X), AsBefore(call'[c], X), Harmless(call'[c], X)
  PROVE  Fits(c, X)'
<1>1. Adds(X)'
  BY DEF Adds
<1>2. AsBefore(call[c], X)'
  <2>1. \A k : \A service : Sight(X, k, service)' = Sight(X, k, service)
    BY DEF Sight, Applies
  <2>. QED BY <2>1 DEF AsBefore
<1>3. Harmless(call[c], X)'
  <2>1. RowsHere' = RowsHere
    BY SameTypes
  <2>. QED BY <2>1 DEF Harmless, Creates, Exposes, Gains
<1>. QED BY <1>1, <1>2, <1>3 DEF Fits

AllWiden == \A c \in Callers : Widens(c)

(* At first the rules give what they gave before the call.                 *)
LEMMA AtFirst ==
  ASSUME NEW y, y.before = Access
  PROVE  Adds({}) /\ AsBefore(y, {})
<1>1. ASSUME NEW k, NEW service PROVE Sight({}, k, service) = LevelsFor(k, service)
  BY DEF Sight, LevelsFor, RowsFor
<1>. QED BY <1>1 DEF Adds, AsBefore, Access, SendAccess, FileAccess

LEMMA WidensKept == Typed /\ Alone /\ Asked /\ AllWiden /\ [Next]_vars => AllWiden'
<1>. SUFFICES ASSUME Typed, Alone, Asked, AllWiden, [Next]_vars, NEW c \in Callers,
                     call'[c].op \in Grants, call'[c].alone
              PROVE  /\ \E X \in SUBSET RuleIds : Fits(c, X)'
                     /\ call'[c].op = "assign" /\ call'[c].stage \in {"reading", "looking"} => assigned'[call'[c].rule] # {}
                     /\ call'[c].stage = "looking" => \A r \in DOMAIN call'[c].seen : call'[c].seen[r] = assigned'[r]
  BY DEF AllWiden, Widens, Fits, Seen
<1>. DEFINE Goal == /\ \E X \in SUBSET RuleIds : Fits(c, X)'
                    /\ call'[c].op = "assign" /\ call'[c].stage \in {"reading", "looking"} => assigned'[call'[c].rule] # {}
                    /\ call'[c].stage = "looking" => \A r \in DOMAIN call'[c].seen : call'[c].seen[r] = assigned'[r]
<1>0. call \in [Callers -> CallRecord] /\ Idle.op = "none"
  BY DEF Typed, Idle
<1>a. ASSUME UNCHANGED <<resource, table, assigned>>, call'[c] = call[c] PROVE Goal
  <2>1. Widens(c) /\ call[c].op \in Grants /\ call[c].alone
    BY <1>a DEF AllWiden
  <2>2. PICK X \in SUBSET RuleIds : Adds(X) /\ AsBefore(call[c], X) /\ Harmless(call[c], X)
    BY <2>1 DEF Widens
  <2>3. Fits(c, X)'
    BY <1>a, <2>2, FitsUnmoved
  <2>. QED BY <1>a, <2>1, <2>3 DEF Widens, Seen
<1>b. ASSUME NEW b \in Callers, b # c, call[b].stage # "idle" PROVE ~(call'[c] = call[c])
  <2>. SUFFICES ASSUME call'[c] = call[c] PROVE FALSE
    OBVIOUS
  <2>1. call[c].stage # "idle"
    BY DEF Typed, CallOK, Sensible, Grants
  <2>. QED BY <1>b, <2>1 DEF Alone, Lone
<1>1. ASSUME NEW b \in Callers, Begin(b) PROVE Goal
  <2>1. PICK op, key, want, rule, ks : Offered(op, key, want, rule, ks) /\ Start(b, op, key, want, rule, ks)
    BY <1>1, BeginStep DEF Opens
  <2>2. PICK y \in CallRecord :
          /\ CallOK(y) /\ StartsAs(b, y) /\ UNCHANGED <<resource, table, assigned, live>>
          /\ y.op = op /\ y.key = key /\ y.want = want /\ y.rule = rule
          /\ y.seen = <<>> /\ y.before = Access
          /\ IF op \in {"create", "created"}
             THEN /\ y.todo \in Plans(Begun(op, key, want, rule, ks))
                  /\ y.stage = (IF y.todo = <<>> THEN "done" ELSE "running")
             ELSE y.todo = <<>> /\ y.stage = "reading"
    BY <2>1, StartStep DEF Offered
  <2>3. c = b
    <3>. SUFFICES ASSUME c # b PROVE FALSE
      OBVIOUS
    <3>1. call'[c] = [call[c] EXCEPT !.alone = FALSE] /\ call[c] \in CallRecord
      BY <1>0, <2>2 DEF StartsAs
    <3>. QED BY <3>1 DEF CallRecord
  <2>4. call'[c] = y
    BY <2>2, <2>3 DEF StartsAs
  <2>5. Adds({}) /\ AsBefore(y, {})
    BY <2>2, AtFirst
  <2>6. Harmless(y, {})
    <3>1. CASE op \notin {"create", "created"}
      BY <2>2, <3>1 DEF Harmless
    <3>2. CASE op = "create"
      <4>. DEFINE x == Begun(op, key, want, rule, ks)
      <4>1. CallOK(x) /\ x.op = op /\ x.key = key /\ x.want = want /\ x.rule = rule /\ x.seen = <<>>
        BY <2>1, BegunOK DEF Offered
      <4>. HIDE DEF x
      <4>2. Sensible(x) /\ x.op \in Grants /\ Seen(x) = {}
        BY <3>2, <4>1, NothingSeen DEF CallOK, Grants, Seen
      <4>3. y.todo \in Plans(x) /\ y.key = x.key
        BY <2>2, <3>2, <4>1 DEF x
      <4>. QED BY <3>2, <4>1, <4>2, <4>3, HarmlessPlans
    <3>. QED BY <2>1, <3>1, <3>2 DEF Offered
  <2>7. Fits(c, {})'
    BY <2>2, <2>4, <2>5, <2>6, FitsUnmoved
  <2>8. call'[c].op = "assign" /\ call'[c].stage \in {"reading", "looking"} => assigned'[call'[c].rule] # {}
    BY <2>1, <2>2, <2>4 DEF Offered
  <2>9. call'[c].stage # "looking"
    BY <2>2, <2>4
  <2>. QED BY <2>7, <2>8, <2>9
<1>2. ASSUME NEW b \in Callers, b # c, Read(b) \/ Look(b) \/ Execute(b) PROVE Goal
  BY <1>2, <1>b, Continued
<1>3. ASSUME NEW b \in Callers, Return(b) \/ Crash(b) PROVE Goal
  <2>1. CASE b = c
    <3>1. call'[c] = Idle
      BY <1>0, <1>3, <2>1 DEF Return, Crash
    <3>. QED BY <1>0, <3>1 DEF Grants
  <2>2. CASE b # c
    BY <1>0, <1>3, <1>b, <2>2 DEF Return, Crash
  <2>. QED BY <2>1, <2>2
<1>c. ASSUME NEW x, SameCall(x, c), UNCHANGED <<resource, table, assigned>>, \A r \in Seen(x) : x.seen[r] = assigned[r],
             call[c].op \in Grants, call[c].alone, x.op = "assign" => assigned[x.rule] # {},
             NEW y, call'[c] = y,
             \/ /\ y.key = x.key /\ y.before = x.before /\ y.todo = x.todo /\ y.seen = x.seen /\ y.stage = "looking" /\ y.op = x.op /\ y.rule = x.rule
             \/ y \in Planned(x) /\ (x.op = "anyone" => Seen(x) = x.cands \/ Covered(x))
      PROVE  Goal
  <2>1. PICK X \in SUBSET RuleIds : Adds(X) /\ AsBefore(call[c], X) /\ Harmless(call[c], X)
    BY <1>c DEF AllWiden, Widens
  <2>2. /\ x \in CallRecord /\ Sensible(x) /\ x.op = call[c].op /\ x.key = call[c].key /\ x.want = call[c].want
        /\ x.before = call[c].before /\ x.todo = call[c].todo
    BY <1>c DEF SameCall
  <2>3. AsBefore(x, X) /\ Harmless(x, X)
    BY <2>1, <2>2 DEF AsBefore, Harmless, Creates, Exposes, Gains
  <2>4. CASE /\ y.key = x.key /\ y.before = x.before /\ y.todo = x.todo /\ y.seen = x.seen /\ y.stage = "looking"
             /\ y.op = x.op /\ y.rule = x.rule
    <3>1. AsBefore(y, X) /\ Harmless(y, X)
      BY <2>3, <2>4 DEF AsBefore, Harmless, Creates, Exposes, Gains
    <3>2. Fits(c, X)'
      BY <1>c, <2>1, <3>1, FitsUnmoved
    <3>. QED BY <1>c, <2>4, <3>2 DEF Seen
  <2>5. CASE y \in Planned(x) /\ (x.op = "anyone" => Seen(x) = x.cands \/ Covered(x))
    <3>1. /\ y.todo \in Plans(x) /\ y.key = x.key /\ y.before = x.before
          /\ y.stage = (IF y.todo = <<>> THEN "done" ELSE "running")
      BY <2>2, <2>5, PlannedFields
    <3>2. x.op \in Grants /\ (x.op = "approve" => x.want # "block") /\ (x.op = "created" => x.want.level # "block")
      BY <1>c, <2>2 DEF Asked
    <3>3. Harmless(y, X)
      BY <1>c, <2>2, <2>5, <3>1, <3>2, HarmlessPlans
    <3>4. AsBefore(y, X)
      BY <2>3, <3>1 DEF AsBefore
    <3>5. Fits(c, X)'
      BY <1>c, <2>1, <3>3, <3>4, FitsUnmoved
    <3>. QED BY <1>c, <3>1, <3>5
  <2>. QED BY <1>c, <2>4, <2>5
<1>4. ASSUME Read(c) \/ Look(c) PROVE Goal
  <2>0. /\ call'[c].op = call[c].op /\ call'[c].alone = call[c].alone
        /\ call[c].op \in Grants /\ call[c].alone /\ Widens(c) /\ UNCHANGED <<resource, table, assigned>>
    BY <1>4, Continued DEF AllWiden, Read, Look
  <2>1. CASE Read(c)
    <3>1. call[c].stage = "reading" /\ call[c].cands = {} /\ DOMAIN call[c].seen = {}
      BY <2>1 DEF Read, Typed, CallOK, Sensible
    <3>2. PICK cands \in SUBSET RuleIds : \E y :
            /\ call' = [call EXCEPT ![c] = y]
            /\ IF call[c].op \in TreeOps \cup {"anyone", "approve"} /\ cands # {}
               THEN y = [Finding(c, cands) EXCEPT !.stage = "looking"]
               ELSE y \in Planned(Finding(c, cands))
      BY <2>1, ReadStep
    <3>. DEFINE x == Finding(c, cands)
    <3>3. /\ call'[c] = [x EXCEPT !.stage = "looking"] \/ call'[c] \in Planned(x)
          /\ call'[c] \in Planned(x) /\ call[c].op = "anyone" => cands = {} \/ call'[c] = [x EXCEPT !.stage = "looking"]
      BY <1>0, <3>2
    <3>4. SameCall(x, c) /\ x.cands = cands /\ x.seen = call[c].seen
      BY <3>1, FindingOK
    <3>. HIDE DEF x
    <3>5. Seen(x) = {}
      BY <3>1, <3>4 DEF Seen
    <3>6. x.op = "assign" => assigned[x.rule] # {}
      BY <2>0, <3>1, <3>4 DEF Widens, SameCall
    <3>. DEFINE y == call'[c]
    <3>7. CASE y = [x EXCEPT !.stage = "looking"]
      <4>1. /\ y.key = x.key /\ y.before = x.before /\ y.todo = x.todo /\ y.seen = x.seen /\ y.stage = "looking"
            /\ y.op = x.op /\ y.rule = x.rule
        <5>1. x \in CallRecord
          BY <3>4 DEF SameCall
        <5>. QED BY <3>7, <5>1 DEF CallRecord
      <4>. HIDE DEF y, Goal
      <4>2. call'[c] = y
        BY DEF y
      <4>. QED BY <1>c, <2>0, <3>4, <3>5, <3>6, <4>1, <4>2
    <3>8. CASE y \in Planned(x) /\ y # [x EXCEPT !.stage = "looking"]
      <4>1. x.op = "anyone" => Seen(x) = x.cands
        BY <3>3, <3>4, <3>5, <3>8 DEF SameCall
      <4>2. call'[c] = y
        OBVIOUS
      <4>. HIDE DEF y, Goal
      <4>. QED BY <1>c, <2>0, <3>4, <3>5, <3>6, <3>8, <4>1, <4>2
    <3>. QED BY <3>3, <3>7, <3>8
  <2>2. CASE Look(c)
    <3>1. call[c].stage = "looking"
      BY <2>2 DEF Look
    <3>2. PICK rs \in SUBSET call[c].cands : \E y \in {Seeing(c, rs)} \cup Planned(Seeing(c, rs)) :
            /\ call' = [call EXCEPT ![c] = y]
            /\ IF \/ Seen(Seeing(c, rs)) = call[c].cands
                  \/ call[c].op \notin TreeOps /\ Covered(Seeing(c, rs))
               THEN y \in Planned(Seeing(c, rs)) ELSE y = Seeing(c, rs)
      BY <2>2, LookStep
    <3>. DEFINE x == Seeing(c, rs)
                y == call'[c]
    <3>3. y = x \/ (y \in Planned(x) /\ (Seen(x) = call[c].cands \/ Covered(x)))
      BY <1>0, <3>2
    <3>4. SameCall(x, c) /\ x.cands = call[c].cands /\ Seen(x) = Seen(call[c]) \cup rs
      BY <3>1, SeeingOK
    <3>5. \A r \in Seen(x) : x.seen[r] = assigned[r]
      <4>1. \A r \in Seen(call[c]) \cup rs : x.seen[r] = IF r \in rs THEN assigned[r] ELSE call[c].seen[r]
        BY <3>1, SeeingOK
      <4>2. \A r \in Seen(call[c]) : call[c].seen[r] = assigned[r]
        BY <2>0, <3>1 DEF Widens
      <4>. HIDE DEF x
      <4>. QED BY <3>4, <4>1, <4>2
    <3>. HIDE DEF x
    <3>6. x.op = call[c].op /\ x.stage = "looking"
      BY <3>1, <3>4 DEF SameCall
    <3>7. call'[c] = y
      OBVIOUS
    <3>. HIDE DEF y, Goal
    <3>8. x.op = "assign" => assigned[x.rule] # {}
      BY <2>0, <3>1, <3>4, <3>6 DEF Widens, SameCall
    <3>. QED BY <1>c, <2>0, <3>3, <3>4, <3>5, <3>6, <3>7, <3>8
  <2>. QED BY <1>4, <2>1, <2>2
<1>5. ASSUME Execute(c) PROVE Goal
  <2>1. call'[c].op = call[c].op /\ call'[c].alone = call[c].alone
    BY <1>5, Continued
  <2>2. PICK X \in SUBSET RuleIds : Fits(c, X)
    BY <2>1 DEF AllWiden, Widens, Fits
  <2>3. \E Y \in SUBSET RuleIds : Fits(c, Y)'
    BY <1>5, <2>2, FitsExecute
  <2>4. call'[c].stage \notin {"reading", "looking"}
    <3>1. PICK todo : Advance(c, todo) \/ (Throw(c) /\ todo = <<>>)
      BY <1>5, ExecuteStep
    <3>2. Throw(c) => call'[c].stage = "failed"
      BY <1>0 DEF Throw, CallRecord
    <3>. QED BY <3>1, <3>2, TodoFields
  <2>. QED BY <2>3, <2>4
<1>6. CASE UNCHANGED <<resource, table, assigned, call>>
  BY <1>6, <1>a
<1>. QED BY <1>1, <1>2, <1>3, <1>4, <1>5, <1>6 DEF Next, RevokeKey, vars

LEMMA InitWidens == Init => Alone /\ Asked /\ AllWiden
<1>. SUFFICES ASSUME Init PROVE Alone /\ Asked /\ AllWiden
  OBVIOUS
<1>1. Idle.stage = "idle" /\ Idle.op = "none"
  BY DEF Idle
<1>2. CASE call = [c \in Callers |-> Idle]
  BY <1>1, <1>2 DEF Alone, Asked, AllWiden, Widens, Grants
<1>3. ASSUME NEW c \in Callers, NEW k \in Keys, NEW row \in {Row("file", "write", TRUE), Row("drive", "write", TRUE)},
             NEW y \in Planned([Idle EXCEPT !.op = "created", !.key = k, !.want = row, !.before = Access]),
             resource = "file", call = [d \in Callers |-> IF d = c THEN y ELSE Idle]
      PROVE  Alone /\ Asked /\ AllWiden
  <2>1. row \in RowsHere /\ Granting(y, k, row) /\ row.level = "write"
    <3>1. row \in RowsHere /\ Granting(y, k, row)
      BY <1>3, CreatedOK
    <3>. QED BY <3>1 DEF Row
  <2>2. call[c] = y /\ \A d \in Callers : d # c => call[d] = Idle
    BY <1>3
  <2>3. y.op = "created" /\ y.want = row /\ y.before = Access
    BY <2>1 DEF Granting
  <2>4. Alone
    BY <1>1, <2>2 DEF Alone, Lone
  <2>5. Asked
    BY <1>1, <2>1, <2>2, <2>3 DEF Asked
  <2>6. Adds({}) /\ AsBefore(y, {})
    BY <2>3, AtFirst
  <2>7. Harmless(y, {})
    <3>1. y.todo = <<Insert(row)>> \o <<Assign("assign", New, {k})>>
      BY <2>1 DEF Granting, Create, AssignTo
    <3>2. y.todo = <<Insert(row), Assign("assign", New, {k})>>
      BY <3>1, TwoOK
    <3>3. Creates(y)
      BY <2>1, <3>2 DEF Creates
    <3>. QED BY <3>3 DEF Harmless
  <2>8. y.stage \notin {"reading", "looking"}
    BY <2>1 DEF Granting
  <2>9. AllWiden
    BY <1>1, <2>2, <2>3, <2>6, <2>7, <2>8 DEF AllWiden, Widens, Grants
  <2>. QED BY <2>4, <2>5, <2>9
<1>. QED BY <1>2, <1>3 DEF Init

(* What more rules give is never less, if none of them is a block.         *)
LEMMA MoreIsMore ==
  ASSUME NEW S, NEW L, S \subseteq L, "block" \in L => "block" \in S
  PROVE  SendRank(SendLevel(L)) >= SendRank(SendLevel(S)) /\ FileRank(FileLevel(L)) >= FileRank(FileLevel(S))
<1>1. SendRank(SendLevel(L)) >= SendRank(SendLevel(S))
  BY DEF SendRank, SendLevel
<1>2. FileRank(FileLevel(L)) >= FileRank(FileLevel(S))
  BY DEF FileRank, FileLevel, Combine
<1>. QED BY <1>1, <1>2

LEMMA WidenedOnly == Typed /\ AllWiden => NeverNarrowed
<1>. SUFFICES ASSUME Typed, AllWiden, NEW c \in Callers, call[c].op \in Grants, call[c].alone, NEW k \in live \ {call[c].key}, k \in Keys
              PROVE  /\ SendRank(Access[k].send) >= SendRank(call[c].before[k].send)
                     /\ FileRank(Access[k].file) >= FileRank(call[c].before[k].file)
  BY DEF NeverNarrowed, Typed
<1>1. PICK X \in SUBSET RuleIds : Adds(X) /\ AsBefore(call[c], X)
  BY DEF AllWiden, Widens
<1>2. ASSUME NEW service
      PROVE  /\ Sight(X, k, service) \subseteq LevelsFor(k, service)
             /\ "block" \in LevelsFor(k, service) => "block" \in Sight(X, k, service)
  BY <1>1 DEF Sight, LevelsFor, RowsFor, Adds
<1>3. /\ SendRank(SendLevel(LevelsFor(k, "gmail"))) >= SendRank(SendLevel(Sight(X, k, "gmail")))
      /\ FileRank(FileLevel(LevelsFor(k, "file"))) >= FileRank(FileLevel(Sight(X, k, "file")))
  BY <1>2, MoreIsMore
<1>4. Access[k].send = SendLevel(LevelsFor(k, "gmail")) /\ Access[k].file = FileLevel(LevelsFor(k, "file"))
  BY DEF Access, SendAccess, FileAccess
<1>. QED BY <1>1, <1>3, <1>4 DEF AsBefore

(* A call that gives one profile something, alone on the tables, never     *)
(* takes from another profile what its rules allow, at any of its          *)
(* statements and wherever its process is killed: the create, assign,      *)
(* anyone, approve and expose actions of actions.ts, and the grant of the  *)
(* agent's own creation, for any number of profiles, rules and callers.    *)
THEOREM GrantsNeverNarrow == Spec => []NeverNarrowed
<1>1. Init => Typed /\ Alone /\ Asked /\ AllWiden
  BY InitOK, InitWidens
<1>2. Typed /\ Alone /\ Asked /\ AllWiden /\ [Next]_vars => (Typed /\ Alone /\ Asked /\ AllWiden)'
  BY TypedKept, AloneKept, AskedKept, WidensKept
<1>3. Typed /\ AllWiden => NeverNarrowed
  BY WidenedOnly
<1>. QED BY <1>1, <1>2, <1>3, PTL DEF Spec
------------------------------------------------------------------------------
(* An approval that runs alone, to its end: what it looked at and what it  *)
(* is about to write is a rule of the kind and level that was asked for.   *)
Gives(x, r) == table[r] # NoRule /\ IsCandidate(x, table[r])

Unblocked(x) ==
  resource = "file" /\ x.before[x.key].file # "block" => "block" \notin LevelsFor(x.key, "file")

Meets(x) ==
  /\ Unblocked(x)
  /\ x.stage = "looking" => \A r \in x.cands : Gives(x, r)
  /\ x.stage = "running" =>
       \/ \E row \in RowsHere : /\ IsCandidate(x, row)
                                /\ x.todo = <<Insert(row), Assign("assign", New, {x.key})>>
       \/ \E r \in RuleIds : Gives(x, r) /\ x.todo = <<Assign("assign", r, {x.key})>>
  /\ x.stage = "done" => \E r \in RuleIds : Gives(x, r) /\ Applies(x.key, r)

Approvals == {"anyone", "approve"}
AllMeet == \A c \in Callers : call[c].op \in Approvals /\ call[c].alone => Meets(call[c])

(* The fields an approval is judged by.                                    *)
Like(y, x) ==
  y.op = x.op /\ y.key = x.key /\ y.want = x.want /\ y.before = x.before

LEMMA GivesLike ==
  ASSUME NEW x, NEW y, Like(y, x), x.op \in Approvals
  PROVE  /\ \A row : IsCandidate(y, row) <=> IsCandidate(x, row)
         /\ \A r : Gives(y, r) <=> Gives(x, r)
         /\ Unblocked(y) <=> Unblocked(x)
<1>1. \A row : IsCandidate(y, row) <=> IsCandidate(x, row)
  BY DEF IsCandidate, Like, Approvals
<1>. QED BY <1>1 DEF Gives, Unblocked, Like

LEMMA MeetsPlans ==
  ASSUME Typed, NEW x, Sensible(x), x.op \in Approvals, Unblocked(x), \A r \in x.cands : Gives(x, r),
         \A r \in Seen(x) : x.seen[r] = assigned[r], x.op = "anyone" => x.want = "all",
         NEW y \in Planned(x)
  PROVE  Meets(y)
<1>0. /\ x \in CallRecord /\ x.cands \in SUBSET RuleIds /\ Seen(x) \subseteq x.cands /\ x.key \in Keys
      /\ x.op = "anyone" => resource = "mail"
      /\ x.op = "approve" => x.want \in LevelsHere
  BY DEF Sensible, Meant, CallRecord, KeyOps, MailOps, Seen, Approvals
<1>1. /\ y.todo \in Plans(x) /\ y.stage = (IF y.todo = <<>> THEN "done" ELSE "running") /\ Like(y, x)
  BY <1>0, PlannedFields DEF Like
<1>2. /\ \A row : IsCandidate(y, row) <=> IsCandidate(x, row)
      /\ \A r : Gives(y, r) <=> Gives(x, r)
      /\ Unblocked(y) /\ y.key = x.key
  BY <1>1, GivesLike DEF Like
<1>3. ASSUME Covered(x) PROVE \E r \in RuleIds : Gives(y, r) /\ Applies(y.key, r)
  <2>1. PICK r \in Seen(x) : x.seen[r] = {} \/ x.key \in x.seen[r]
    BY <1>3 DEF Covered
  <2>2. r \in RuleIds /\ Gives(x, r) /\ (assigned[r] = {} \/ x.key \in assigned[r])
    BY <1>0, <2>1
  <2>. QED BY <1>2, <2>2 DEF Applies, Gives
<1>4. ASSUME NEW row \in RowsHere, IsCandidate(x, row), y.todo = Create(row, {x.key}) PROVE Meets(y)
  <2>1. Create(row, {x.key}) = <<Insert(row), Assign("assign", New, {x.key})>>
    BY TwoOK DEF Create, AssignTo
  <2>2. y.todo # <<>>
    BY <1>4, <2>1, HeadsOK
  <2>. QED BY <1>1, <1>2, <1>4, <2>1, <2>2 DEF Meets
<1>5. ASSUME y.todo = <<>>, Covered(x) PROVE Meets(y)
  BY <1>1, <1>2, <1>3, <1>5 DEF Meets
<1>6. ASSUME NEW r \in x.cands, y.todo = <<Assign("assign", r, {x.key})>> PROVE Meets(y)
  <2>1. y.todo # <<>>
    BY <1>6, HeadsOK
  <2>. QED BY <1>0, <1>1, <1>2, <1>6, <2>1 DEF Meets
<1>7. CASE x.op = "anyone"
  <2>1. y.todo \in AnyonePlans(x)
    BY <1>1, <1>7 DEF Plans, OneRuleOps
  <2>2. Row("gmail", "all", FALSE) \in RowsHere /\ IsCandidate(x, Row("gmail", "all", FALSE))
    BY <1>0, <1>7, HereIsTyped DEF Row, IsCandidate
  <2>. QED BY <1>4, <1>5, <1>6, <2>1, <2>2 DEF AnyonePlans
<1>8. CASE x.op = "approve"
  <2>. DEFINE row == Row(IF resource = "mail" THEN "gmail" ELSE "file", x.want, FALSE)
  <2>1. y.todo \in ApprovePlans(x)
    BY <1>1, <1>8 DEF Plans, OneRuleOps
  <2>2. row \in RowsHere
    BY <1>0, <1>8 DEF Row, RowsHere, Services, Typed
  <2>3. IsCandidate(x, row)
    BY <1>0, <1>8 DEF Row, IsCandidate, Typed
  <2>. QED BY <1>4, <1>5, <2>1, <2>2, <2>3 DEF ApprovePlans
<1>. QED BY <1>7, <1>8 DEF Approvals

LEMMA NoBlockAsked ==
  ASSUME Typed, NEW c \in Callers, call[c].op \in Approvals, Asked, NEW row, IsCandidate(call[c], row)
  PROVE  resource = "file" => row.level # "block"
<1>1. call[c].op = "anyone" => resource = "mail"
  BY DEF Typed, CallOK, Sensible, Meant, MailOps
<1>. QED BY <1>1 DEF Approvals, Asked, IsCandidate

(* A step that gives one rule a level that is not a block, and changes no  *)
(* other rule for the profile, leaves it unblocked.                        *)
LEMMA UnblockedKept ==
  ASSUME NEW x, Unblocked(x), NEW r, UNCHANGED resource, resource = "file" => table'[r].level # "block",
         \A y \in RuleIds : y # r => table'[y] = table[y] /\ (Applies(x.key, y)' <=> Applies(x.key, y))
  PROVE  Unblocked(x)'
<1>. SUFFICES ASSUME resource = "file", x.before[x.key].file # "block", ("block" \in LevelsFor(x.key, "file"))'
              PROVE  FALSE
  BY DEF Unblocked
<1>1. PICK y \in RuleIds : Applies(x.key, y)' /\ table'[y].service = "file" /\ table'[y].level = "block"
  BY DEF LevelsFor, RowsFor
<1>2. y # r
  BY <1>1
<1>3. Applies(x.key, y) /\ table[y] = table'[y]
  BY <1>1, <1>2
<1>4. "block" \in LevelsFor(x.key, "file")
  BY <1>1, <1>3 DEF LevelsFor, RowsFor
<1>. QED BY <1>4 DEF Unblocked

LEMMA MeetsNext == ASSUME NEW c, NEW y, y = call'[c], Meets(y)' PROVE Meets(call[c])'
  BY DEF Meets, Gives, Unblocked

LEMMA MeetsExecute ==
  ASSUME Typed, Asked, NEW c \in Callers, Execute(c), call[c].op \in Approvals, Meets(call[c])
  PROVE  Meets(call[c])'
<1>1. PICK x, y : x = call[c] /\ y = call'[c]
  OBVIOUS
<1>. DEFINE key == x.key
<1>2. Meets(x) /\ x.op \in Approvals /\ x.stage = "running" /\ UNCHANGED resource
  BY <1>1 DEF Execute
<1>3. /\ table \in [RuleIds -> RowsHere \cup {NoRule}] /\ assigned \in [RuleIds -> SUBSET Keys]
      /\ NoRule \notin RowsHere /\ key \in Keys
  BY <1>1, <1>2, HereIsTyped DEF Typed, CallOK, Sensible, Meant, KeyOps, Approvals
<1>4. PICK left : Advance(c, left) \/ (Throw(c) /\ left = <<>>)
  BY ExecuteStep
<1>5. Like(y, x) /\ y.todo = left /\ y.stage \in {"running", "done", "failed"}
  <2>1. Like(y, x) /\ y.todo = left /\ (Advance(c, left) => y.stage = IF left = <<>> THEN "done" ELSE "running")
    BY <1>1, <1>4, TodoFields DEF Like
  <2>2. Throw(c) => y.stage = "failed"
    BY <1>1 DEF Throw, Typed, CallRecord
  <2>. QED BY <1>4, <2>1, <2>2
<1>6. /\ \A row : IsCandidate(y, row)' <=> IsCandidate(x, row)
      /\ y.key = key /\ Unblocked(y)
  <2>1. \A row : IsCandidate(y, row) <=> IsCandidate(x, row)
    BY <1>2, <1>5, GivesLike
  <2>2. \A row : IsCandidate(y, row)' <=> IsCandidate(y, row)
    BY <1>2 DEF IsCandidate
  <2>. QED BY <1>2, <1>5, <2>1, <2>2, GivesLike DEF Like, Meets
<1>7. ASSUME NEW r \in RuleIds, Gives(y, r)',
             \A z \in RuleIds : z # r => table'[z] = table[z] /\ assigned'[z] = assigned[z]
      PROVE  Unblocked(y)'
  <2>1. IsCandidate(x, table'[r])
    BY <1>6, <1>7 DEF Gives
  <2>2. resource = "file" => table'[r].level # "block"
    BY <1>1, <1>2, <2>1, NoBlockAsked
  <2>3. \A z \in RuleIds : z # r => table'[z] = table[z] /\ (Applies(y.key, z)' <=> Applies(y.key, z))
    BY <1>7 DEF Applies
  <2>. QED BY <1>2, <1>6, <2>2, <2>3, UnblockedKept
<1>8. CASE \E row \in RowsHere : IsCandidate(x, row) /\ x.todo = <<Insert(row), Assign("assign", New, {key})>>
  <2>1. PICK row \in RowsHere : IsCandidate(x, row) /\ x.todo = <<Insert(row), Assign("assign", New, {key})>>
    BY <1>8
  <2>2. Insert(row).do = "insert" /\ Insert(row).row = row /\ Head(x.todo) = Insert(row)
    BY <2>1, HeadsOK DEF Insert
  <2>3. PICK r \in Fresh : /\ table' = [table EXCEPT ![r] = row] /\ assigned' = [assigned EXCEPT ![r] = {}]
                           /\ Advance(c, Rest(x.todo, r))
    BY <1>1, <2>2 DEF Execute, InsertRow, Rest
  <2>4. r \in RuleIds /\ table'[r] = row
    BY <1>3, <2>3 DEF Fresh
  <2>5. y.todo = <<Assign("assign", r, {key})>> /\ y.stage = "running"
    <3>1. [Assign("assign", New, {key}) EXCEPT !.rule = IF @ = New THEN r ELSE @] = Assign("assign", r, {key})
      BY DEF Assign
    <3>2. Rest(x.todo, r) = <<Assign("assign", r, {key})>>
      BY <2>1, <3>1, RestOfTwo
    <3>3. Rest(x.todo, r) # <<>>
      BY <3>2, HeadsOK
    <3>. QED BY <1>1, <2>3, <3>2, <3>3, TodoFields
  <2>6. Gives(y, r)'
    BY <1>3, <1>6, <2>1, <2>4 DEF Gives
  <2>7. Unblocked(y)'
    <3>1. \A z \in RuleIds : z # r => table'[z] = table[z] /\ assigned'[z] = assigned[z]
      BY <1>3, <2>3
    <3>. QED BY <1>7, <2>4, <2>6, <3>1
  <2>8. Meets(y)'
    BY <1>6, <2>4, <2>5, <2>6, <2>7 DEF Meets
  <2>. QED BY <1>1, <2>8, MeetsNext
<1>9. CASE \E r \in RuleIds : Gives(x, r) /\ x.todo = <<Assign("assign", r, {key})>>
  <2>1. PICK r \in RuleIds : Gives(x, r) /\ x.todo = <<Assign("assign", r, {key})>>
    BY <1>9
  <2>. DEFINE s == Assign("assign", r, {key})
  <2>2. s.do = "assign" /\ s.rule = r /\ s.keys = {key} /\ Head(x.todo) = s
    BY <2>1, HeadsOK DEF Assign
  <2>3. InsertAssignments(c, s, {key})
    BY <1>1, <2>2 DEF Execute, AssignKeys
  <2>4. /\ UNCHANGED table
        /\ \/ UNCHANGED assigned /\ y.todo = <<>> /\ y.stage = "failed"
           \/ /\ assigned' = [assigned EXCEPT ![r] = @ \cup {key}] /\ y.todo = <<>> /\ y.stage = "done"
    <3>1. call[c].todo = <<Assign("assign", r, {key})>> /\ InsertAssignments(c, Assign("assign", r, {key}), {key})
      BY <1>1, <2>1, <2>3
    <3>2. PICK all : all = {key}
      OBVIOUS
    <3>. HIDE DEF s, key
    <3>3. call[c].todo = <<Assign("assign", r, all)>> /\ InsertAssignments(c, Assign("assign", r, all), all)
      BY <3>1, <3>2
    <3>4. PICK do : do = "assign"
      OBVIOUS
    <3>5. call[c].todo = <<Assign(do, r, all)>> /\ InsertAssignments(c, Assign(do, r, all), all)
      BY <3>3, <3>4
    <3>6. /\ UNCHANGED table
          /\ \/ UNCHANGED assigned /\ call'[c].todo = <<>> /\ call'[c].stage = "failed"
             \/ /\ assigned' = [assigned EXCEPT ![r] = @ \cup all]
                /\ call'[c].todo = (IF all = all THEN <<>> ELSE <<Assign(do, r, all \ all)>>)
                /\ call'[c].stage = (IF all = all THEN "done" ELSE "running")
      BY <3>5, InsertsOrNot
    <3>. QED BY <1>1, <3>2, <3>6
  <2>5. Gives(y, r)'
    BY <1>6, <2>1, <2>4 DEF Gives
  <2>6. Unblocked(y)'
    <3>1. \A z \in RuleIds : z # r => table'[z] = table[z] /\ assigned'[z] = assigned[z]
      BY <1>3, <2>4
    <3>. QED BY <1>7, <2>1, <2>5, <3>1
  <2>7. y.stage = "done" => Applies(y.key, r)'
    BY <1>3, <1>6, <2>1, <2>4 DEF Applies, Gives
  <2>8. Meets(y)'
    BY <2>1, <2>4, <2>5, <2>6, <2>7 DEF Meets
  <2>. QED BY <1>1, <2>8, MeetsNext
<1>. QED BY <1>2, <1>8, <1>9 DEF Meets

LEMMA UnblockedAtFirst ==
  ASSUME NEW x, x.before = Access, x.key \in Keys
  PROVE  Unblocked(x)
<1>1. x.before[x.key].file = FileLevel(LevelsFor(x.key, "file"))
  BY DEF Access, FileAccess
<1>. QED BY <1>1 DEF Unblocked, FileLevel, Combine

LEMMA MeetsKept == Typed /\ Alone /\ Asked /\ AllWiden /\ AllMeet /\ [Next]_vars => AllMeet'
<1>. SUFFICES ASSUME Typed, Alone, Asked, AllWiden, AllMeet, [Next]_vars, NEW c \in Callers,
                     call'[c].op \in Approvals, call'[c].alone
              PROVE  Meets(call[c])'
  BY DEF AllMeet, Approvals
<1>0. /\ call \in [Callers -> CallRecord] /\ Idle.op = "none"
      /\ call[c].op \in Approvals => call[c].stage # "idle" /\ call[c].key \in Keys
      /\ call[c].op = "anyone" => call[c].want = "all"
  BY DEF Typed, Idle, CallOK, Sensible, Meant, KeyOps, Approvals, Asked
<1>1. ASSUME UNCHANGED <<resource, table, assigned>>, NEW y, y = call'[c], Meets(y) PROVE Meets(call[c])'
  <2>1. RowsHere' = RowsHere
    BY <1>1, SameTypes
  <2>2. \A r : Gives(y, r)' <=> Gives(y, r)
    BY <1>1 DEF Gives, IsCandidate
  <2>3. \A row : IsCandidate(y, row)' <=> IsCandidate(y, row)
    BY <1>1 DEF IsCandidate
  <2>4. \A r : Applies(y.key, r)' <=> Applies(y.key, r)
    BY <1>1 DEF Applies
  <2>5. Unblocked(y)' <=> Unblocked(y)
    BY <1>1 DEF Unblocked, LevelsFor, RowsFor, Applies
  <2>6. Meets(y)'
    BY <1>1, <2>1, <2>2, <2>3, <2>4, <2>5 DEF Meets
  <2>. QED BY <1>1, <2>6, MeetsNext
<1>2. ASSUME UNCHANGED <<resource, table, assigned>>, call'[c] = call[c] PROVE Meets(call[c])'
  BY <1>1, <1>2 DEF AllMeet
<1>3. ASSUME NEW b \in Callers, b # c, call[b].stage # "idle" PROVE ~(call'[c] = call[c])
  <2>. SUFFICES ASSUME call'[c] = call[c] PROVE FALSE
    OBVIOUS
  <2>. QED BY <1>0, <1>3 DEF Alone, Lone
<1>4. ASSUME NEW b \in Callers, Begin(b) PROVE Meets(call[c])'
  <2>1. PICK op, key, want, rule, ks : Offered(op, key, want, rule, ks) /\ Start(b, op, key, want, rule, ks)
    BY <1>4, BeginStep DEF Opens
  <2>2. PICK y \in CallRecord :
          /\ CallOK(y) /\ StartsAs(b, y) /\ UNCHANGED <<resource, table, assigned, live>>
          /\ y.op = op /\ y.before = Access /\ (op \notin {"create", "created"} => y.stage = "reading")
    BY <2>1, StartStep DEF Offered
  <2>3. c = b
    <3>. SUFFICES ASSUME c # b PROVE FALSE
      OBVIOUS
    <3>1. call'[c] = [call[c] EXCEPT !.alone = FALSE] /\ call[c] \in CallRecord
      BY <1>0, <2>2 DEF StartsAs
    <3>. QED BY <3>1 DEF CallRecord
  <2>4. call'[c] = y
    BY <2>2, <2>3 DEF StartsAs
  <2>5. y.op \in Approvals /\ y.key \in Keys /\ y.stage = "reading"
    BY <2>2, <2>4 DEF CallOK, Sensible, Meant, KeyOps, Approvals
  <2>6. Meets(y)
    BY <2>2, <2>5, UnblockedAtFirst DEF Meets
  <2>. QED BY <1>1, <2>2, <2>4, <2>6
<1>5. ASSUME NEW b \in Callers, b # c, Read(b) \/ Look(b) \/ Execute(b) PROVE Meets(call[c])'
  BY <1>5, <1>3, Continued
<1>6. ASSUME NEW b \in Callers, Return(b) \/ Crash(b) PROVE Meets(call[c])'
  <2>1. CASE b = c
    <3>1. call'[c] = Idle
      BY <1>0, <1>6, <2>1 DEF Return, Crash
    <3>. QED BY <1>0, <3>1 DEF Approvals
  <2>2. CASE b # c
    BY <1>0, <1>6, <1>3, <2>2 DEF Return, Crash
  <2>. QED BY <2>1, <2>2
<1>7. ASSUME NEW x, SameCall(x, c), UNCHANGED <<resource, table, assigned>>, call[c].op \in Approvals, call[c].alone,
             \A r \in Seen(x) : x.seen[r] = assigned[r], \A r \in x.cands : Gives(x, r),
             NEW y, y = call'[c], y \in Planned(x) \/ (Like(y, x) /\ y.cands = x.cands /\ y.stage = "looking")
      PROVE  Meets(call[c])'
  <2>1. Like(x, call[c]) /\ x \in CallRecord /\ Sensible(x) /\ x.op \in Approvals
    BY <1>7 DEF SameCall, Like
  <2>2. Unblocked(x)
    BY <1>7, <2>1, GivesLike DEF AllMeet, Meets
  <2>3. CASE y \in Planned(x)
    <3>1. x.op = "anyone" => x.want = "all"
      BY <1>0, <2>1 DEF Like
    <3>2. Meets(y)
      BY <1>7, <2>1, <2>2, <2>3, <3>1, MeetsPlans
    <3>. QED BY <1>1, <1>7, <3>2
  <2>4. CASE Like(y, x) /\ y.cands = x.cands /\ y.stage = "looking"
    <3>1. Meets(y)
      BY <1>7, <2>1, <2>2, <2>4, GivesLike DEF Meets
    <3>. QED BY <1>1, <1>7, <3>1
  <2>. QED BY <1>7, <2>3, <2>4
<1>8. ASSUME Read(c) \/ Look(c) PROVE Meets(call[c])'
  <2>0. /\ call[c].op \in Approvals /\ call[c].alone /\ UNCHANGED <<resource, table, assigned>>
        /\ Widens(c) /\ Meets(call[c]) /\ call[c].op \in Grants
    BY <1>8, Continued DEF AllWiden, AllMeet, Read, Look, Approvals, Grants
  <2>. PICK y : y = call'[c]
    OBVIOUS
  <2>1. CASE Read(c)
    <3>1. call[c].stage = "reading" /\ DOMAIN call[c].seen = {}
      BY <2>1 DEF Read, Typed, CallOK, Sensible
    <3>2. PICK cands \in SUBSET RuleIds :
            /\ cands \subseteq Candidates(call[c])
            /\ y = [Finding(c, cands) EXCEPT !.stage = "looking"] \/ y \in Planned(Finding(c, cands))
      BY <1>0, <2>1, ReadStep
    <3>. DEFINE x == Finding(c, cands)
    <3>3. SameCall(x, c) /\ x.cands = cands /\ x.seen = call[c].seen
      BY <3>1, FindingOK
    <3>4. \A r \in Seen(x) : x.seen[r] = assigned[r]
      BY <3>1, <3>3 DEF Seen
    <3>5. Like(x, call[c])
      BY <3>3 DEF Like, SameCall
    <3>6. \A r \in cands : Gives(call[c], r)
      BY <2>0, <3>2 DEF Candidates, Select, Existing, Gives, Approvals, OneRuleOps
    <3>7. \A r \in x.cands : Gives(x, r)
      BY <2>0, <3>3, <3>5, <3>6, GivesLike
    <3>8. y \in Planned(x) \/ (Like(y, x) /\ y.cands = x.cands /\ y.stage = "looking")
      <4>1. x \in CallRecord
        BY <3>3 DEF SameCall
      <4>. QED BY <3>2, <4>1 DEF Like, CallRecord
    <3>. HIDE DEF x
    <3>. QED BY <1>7, <2>0, <3>3, <3>4, <3>7, <3>8
  <2>2. CASE Look(c)
    <3>1. call[c].stage = "looking"
      BY <2>2 DEF Look
    <3>2. PICK rs \in SUBSET call[c].cands : y \in {Seeing(c, rs)} \cup Planned(Seeing(c, rs))
      BY <1>0, <2>2, LookStep
    <3>. DEFINE x == Seeing(c, rs)
    <3>3. SameCall(x, c) /\ x.cands = call[c].cands /\ Seen(x) = Seen(call[c]) \cup rs
      BY <3>1, SeeingOK
    <3>4. \A r \in Seen(x) : x.seen[r] = assigned[r]
      <4>1. \A r \in Seen(call[c]) \cup rs : x.seen[r] = IF r \in rs THEN assigned[r] ELSE call[c].seen[r]
        BY <3>1, SeeingOK
      <4>2. \A r \in Seen(call[c]) : call[c].seen[r] = assigned[r]
        BY <2>0, <3>1 DEF Widens
      <4>. HIDE DEF x
      <4>. QED BY <3>3, <4>1, <4>2
    <3>. HIDE DEF x
    <3>5. Like(x, call[c]) /\ x.stage = "looking"
      BY <3>1, <3>3 DEF Like, SameCall
    <3>6. \A r \in x.cands : Gives(x, r)
      BY <2>0, <3>1, <3>3, <3>5, GivesLike DEF Meets
    <3>7. y \in Planned(x) \/ (Like(y, x) /\ y.cands = x.cands /\ y.stage = "looking")
      BY <3>2, <3>5 DEF x, Like
    <3>. QED BY <1>7, <2>0, <3>3, <3>4, <3>6, <3>7
  <2>. QED BY <1>8, <2>1, <2>2
<1>9. ASSUME Execute(c) PROVE Meets(call[c])'
  <2>1. call[c].op \in Approvals /\ Meets(call[c])
    BY <1>9, Continued DEF AllMeet
  <2>. QED BY <1>9, <2>1, MeetsExecute
<1>10. CASE UNCHANGED <<resource, table, assigned, call>>
  BY <1>10, <1>2
<1>. QED BY <1>4, <1>5, <1>6, <1>8, <1>9, <1>10 DEF Next, RevokeKey, vars

LEMMA InitMeets == Init => AllMeet
<1>. SUFFICES ASSUME Init PROVE AllMeet
  OBVIOUS
<1>1. \A c \in Callers : call[c].op \in {"none", "created"}
  <2>1. CASE call = [c \in Callers |-> Idle]
    BY <2>1 DEF Idle
  <2>2. ASSUME NEW c \in Callers, NEW k \in Keys, NEW row \in {Row("file", "write", TRUE), Row("drive", "write", TRUE)},
               NEW y \in Planned([Idle EXCEPT !.op = "created", !.key = k, !.want = row, !.before = Access]),
               resource = "file", call = [d \in Callers |-> IF d = c THEN y ELSE Idle]
        PROVE  \A d \in Callers : call[d].op \in {"none", "created"}
    <3>0. Granting(y, k, row)
      BY <2>2, CreatedOK
    <3>1. y.op = "created"
      BY <3>0 DEF Granting
    <3>. QED BY <2>2, <3>1 DEF Idle
  <2>. QED BY <2>1, <2>2 DEF Init
<1>. QED BY <1>1 DEF AllMeet, Approvals

LEMMA MetIsEnough == Typed /\ Asked /\ AllMeet => ApprovalSatisfiesRetry
<1>. SUFFICES ASSUME Typed, Asked, AllMeet, NEW c \in Callers, call[c].op \in Approvals, call[c].stage = "done", call[c].alone
              PROVE  LET k == call[c].key
                     IN  IF resource = "mail" THEN SendRank(SendAccess(k)) >= SendRank(call[c].want)
                         ELSE call[c].before[k].file # "block" => FileRank(FileAccess(k)) >= FileRank(call[c].want)
  BY DEF ApprovalSatisfiesRetry, Completed, Approvals
<1>. DEFINE x == call[c]
<1>0. /\ resource \in {"mail", "file"}
      /\ x.op = "anyone" => resource = "mail" /\ x.want = "all"
      /\ x.op = "approve" => x.want \in LevelsHere /\ x.want \in {"one", "all", "read", "write"}
  BY DEF Typed, CallOK, Sensible, Meant, MailOps, Approvals, Asked
<1>1. PICK r \in RuleIds : Gives(x, r) /\ Applies(x.key, r)
  BY DEF AllMeet, Meets
<1>2. CASE resource = "mail"
  <2>1. x.want \in {"one", "all"}
    BY <1>0, <1>2 DEF Approvals, LevelsHere, Levels
  <2>2. table[r].service = "gmail" /\ table[r].level \in {"all", x.want}
    BY <1>0, <1>1, <1>2 DEF Gives, IsCandidate, Approvals
  <2>3. table[r].level \in LevelsFor(x.key, "gmail")
    BY <1>1, <2>2 DEF LevelsFor, RowsFor
  <2>. QED BY <1>2, <2>1, <2>2, <2>3 DEF SendAccess, SendLevel, SendRank
<1>3. CASE resource = "file"
  <2>1. x.op = "approve" /\ x.want \in {"read", "write"}
    BY <1>0, <1>3 DEF Approvals, LevelsHere, Levels
  <2>2. table[r].service = "file" /\ table[r].level \in {"write", x.want}
    BY <1>1, <1>3, <2>1 DEF Gives, IsCandidate
  <2>3. table[r].level \in LevelsFor(x.key, "file")
    BY <1>1, <2>2 DEF LevelsFor, RowsFor
  <2>4. x.before[x.key].file # "block" => "block" \notin LevelsFor(x.key, "file")
    BY <1>3 DEF AllMeet, Meets, Unblocked
  <2>. QED BY <1>3, <2>1, <2>2, <2>3, <2>4 DEF FileAccess, FileLevel, Combine, FileRank
<1>. QED BY <1>0, <1>2, <1>3

(* When an approval that no other call ran beside says that the agent can  *)
(* retry (approveRuleAction and approveAnyRecipientAction, actions.ts),    *)
(* the rules then in the tables allow that profile what was asked for,     *)
(* whatever rules it had, as long as no block stood in the way.            *)
THEOREM ApprovedMayRetry == Spec => []ApprovalSatisfiesRetry
<1>. DEFINE Inv == Typed /\ Alone /\ Asked /\ AllWiden /\ AllMeet
<1>1. Init => Inv
  BY InitOK, InitWidens, InitMeets
<1>2. Inv /\ [Next]_vars => Inv'
  BY TypedKept, AloneKept, AskedKept, WidensKept, MeetsKept
<1>3. Inv => ApprovalSatisfiesRetry
  BY MetIsEnough
<1>. QED BY <1>1, <1>2, <1>3, PTL DEF Spec
------------------------------------------------------------------------------
(* What profiles are given by a set of rows.                               *)
View(X, k) == {table[r] : r \in {y \in RuleIds \ X : Applies(k, y)}}
OfKind(V, service) == {row \in V : row.service = service}
LevelsIn(V, service) == {row.level : row \in OfKind(V, service)}
Decide(V) ==
  LET user == {row \in OfKind(V, "drive") : ~row.agent}
  IN  IF user # {} THEN user ELSE IF OfKind(V, "drive") # {} THEN OfKind(V, "drive") ELSE OfKind(V, "file")
AccessBy(V) ==
  [send |-> SendLevel(LevelsIn(V, "gmail")), file |-> FileLevel(LevelsIn(V, "file")),
   tree |-> IF Decide(V) = {} THEN "inherit" ELSE Combine({row.level : row \in Decide(V)})]

(* A list of statements about different rules is as good as its elements.  *)
Elems(e) == {e[i] : i \in DOMAIN e}
OneEach(e) == \A i, j \in DOMAIN e : i # j => e[i].rule # e[j].rule

(* A tree setting that runs alone.  X are the rules in flux, those that    *)
(* are global only until the call's next statement; E are the statements   *)
(* left, each of which finds its rule as the call has seen it.             *)
Setting(x) == Row("drive", x.want, FALSE)

Placed(x, s, X) ==
  LET r == s.rule
  IN  /\ r \in RuleIds
      /\ \/ /\ s.do = "change" /\ s.row = x.want /\ x.op = "set"
            /\ r \notin X /\ assigned[r] = {x.key} /\ IsCandidate(x, table[r])
         \/ s.do = "remove" /\ r \notin X /\ assigned[r] = {x.key}
         \/ /\ s.do = "unassign" /\ s.keys = {x.key}
            /\ r \notin X /\ x.key \in assigned[r] /\ assigned[r] # {x.key}
         \/ s.do = "delete" /\ (r \in X \/ live \ {x.key} = {})
         \/ /\ s.do = "pin" /\ live \ {x.key} \subseteq s.keys /\ x.key \notin s.keys /\ s.keys # {}
            /\ r \notin X /\ assigned[r] = {} /\ table[r] # NoRule
         \/ /\ s.do = "assign" /\ s.keys = {x.key} /\ x.op = "set"
            /\ r \in X /\ assigned[r] = {} /\ table[r] = Setting(x)

OthersHave(x, X) == \A k \in live \ {x.key} : x.before[k] = AccessBy(View(X, k))
InOrder(x, E, X) ==
  /\ \A s \in E : Placed(x, s, X)
  /\ \A r \in X : \E s \in E : s.rule = r /\ s.do \in {"delete", "assign"}
(* Every rule of the kind that applies to the profile is still to go, or   *)
(* it is global or has the level that is to be set; and one with that      *)
(* level is there, or is to be.                                            *)
Leaves(x, E) ==
  \A r \in RuleIds : Applies(x.key, r) /\ IsCandidate(x, table[r]) =>
    (\E s \in E : s.rule = r) \/ (x.op = "set" /\ (assigned[r] = {} \/ table[r].level = x.want))
Keeps(x, E) ==
  \/ \E s \in E : s.do \in {"change", "assign"}
  \/ \E r \in RuleIds : /\ Applies(x.key, r) /\ IsCandidate(x, table[r]) /\ table[r].level = x.want
                        /\ \A s \in E : s.rule # r

(* The statements about rules that are there, then those of a new one.     *)
Remains(x, e, last, X) ==
  /\ x.todo = e \o last /\ e \in Seq(Statement) /\ OneEach(e)
  /\ last = <<>> \/ (x.op = "set" /\ last = <<Insert(Setting(x)), Assign("assign", New, {x.key})>>)
  /\ OthersHave(x, X) /\ InOrder(x, Elems(e), X)
  /\ x.stage \in {"running", "done"} => /\ Leaves(x, Elems(e))
                                        /\ x.op = "set" /\ last = <<>> => Keeps(x, Elems(e))

Settles(x) ==
  /\ \E X \in SUBSET RuleIds : \E e, last : Remains(x, e, last, X)
  /\ x.stage = "looking" => x.cands = Candidates(x)
AllSettle ==
  \A c \in Callers : call[c].op \in TreeOps /\ call[c].alone /\ call[c].stage # "failed" => Settles(call[c])

LEMMA ListOfNone == <<>> \in Seq(Statement) /\ Elems(<<>>) = {} /\ OneEach(<<>>)
<1>1. <<>> \in Seq(Statement) /\ DOMAIN <<>> = {}
  BY EmptySeq, NothingSeen
<1>. QED BY <1>1 DEF Elems, OneEach

LEMMA ListOfOne ==
  ASSUME NEW a \in Statement
  PROVE  <<a>> \in Seq(Statement) /\ Elems(<<a>>) = {a} /\ OneEach(<<a>>)
<1>1. <<a>> \in Seq(Statement) /\ Len(<<a>>) = 1 /\ <<a>>[1] = a
  OBVIOUS
<1>2. DOMAIN <<a>> = 1..1
  BY <1>1, LenProperties
<1>3. \A i \in DOMAIN <<a>> : i = 1
  BY <1>2
<1>. QED BY <1>1, <1>2, <1>3 DEF Elems, OneEach

LEMMA ListsJoined ==
  ASSUME NEW a \in Seq(Statement), NEW b \in Seq(Statement), OneEach(a), OneEach(b),
         \A s \in Elems(a), t \in Elems(b) : s.rule # t.rule
  PROVE  a \o b \in Seq(Statement) /\ Elems(a \o b) = Elems(a) \cup Elems(b) /\ OneEach(a \o b)
<1>. DEFINE l == a \o b
            n == Len(a)
            m == Len(b)
<1>1. /\ n \in Nat /\ m \in Nat /\ DOMAIN a = 1..n /\ DOMAIN b = 1..m /\ l \in Seq(Statement) /\ Len(l) = n + m
      /\ \A i \in 1..(n + m) : l[i] = IF i <= n THEN a[i] ELSE b[i - n]
  BY LenProperties, ConcatProperties
<1>2. DOMAIN l = 1..(n + m)
  BY <1>1, LenProperties
<1>. HIDE DEF l, n, m
<1>3. \A i \in DOMAIN l : \/ i \in DOMAIN a /\ l[i] = a[i]
                          \/ i \notin DOMAIN a /\ i - n \in DOMAIN b /\ l[i] = b[i - n]
  BY <1>1, <1>2
<1>4. /\ \A i \in DOMAIN a : i \in DOMAIN l /\ l[i] = a[i]
      /\ \A i \in DOMAIN b : i + n \in DOMAIN l /\ l[i + n] = b[i]
  <2>1. ASSUME NEW i \in DOMAIN a PROVE i \in DOMAIN l /\ l[i] = a[i]
    BY <1>1, <1>2
  <2>2. ASSUME NEW i \in DOMAIN b PROVE i + n \in DOMAIN l /\ l[i + n] = b[i]
    <3>1. i + n \in 1..(n + m) /\ ~(i + n <= n) /\ (i + n) - n = i
      BY <1>1
    <3>. QED BY <1>1, <1>2, <3>1
  <2>. QED BY <2>1, <2>2
<1>5. Elems(l) = Elems(a) \cup Elems(b)
  <2>1. Elems(l) \subseteq Elems(a) \cup Elems(b)
    BY <1>3 DEF Elems
  <2>2. Elems(a) \subseteq Elems(l)
    BY <1>4 DEF Elems
  <2>3. Elems(b) \subseteq Elems(l)
    BY <1>4 DEF Elems
  <2>. QED BY <2>1, <2>2, <2>3
<1>6. ASSUME NEW i \in DOMAIN l, NEW j \in DOMAIN l, i # j PROVE l[i].rule # l[j].rule
  <2>1. CASE i \in DOMAIN a /\ j \in DOMAIN a
    BY <1>4, <1>6, <2>1 DEF OneEach
  <2>2. CASE i \notin DOMAIN a /\ j \notin DOMAIN a
    <3>1. /\ i - n \in DOMAIN b /\ l[i] = b[i - n]
          /\ j - n \in DOMAIN b /\ l[j] = b[j - n]
      BY <1>3, <2>2
    <3>2. i - n # j - n
      BY <1>1, <1>2, <1>6
    <3>. QED BY <3>1, <3>2 DEF OneEach
  <2>3. CASE i \in DOMAIN a /\ j \notin DOMAIN a
    <3>1. l[i] \in Elems(a) /\ l[j] \in Elems(b)
      BY <1>3, <2>3 DEF Elems
    <3>. QED BY <3>1
  <2>4. CASE i \notin DOMAIN a /\ j \in DOMAIN a
    <3>1. l[j] \in Elems(a) /\ l[i] \in Elems(b)
      BY <1>3, <2>4 DEF Elems
    <3>. QED BY <3>1
  <2>. QED BY <2>1, <2>2, <2>3, <2>4
<1>7. OneEach(l)
  BY <1>6 DEF OneEach
<1>. QED BY <1>1, <1>5, <1>7 DEF l

LEMMA RestOfList ==
  ASSUME NEW e \in Seq(Statement), OneEach(e), e # <<>>
  PROVE  /\ Head(e) \in Elems(e) /\ Head(e) \in Statement /\ Tail(e) \in Seq(Statement) /\ OneEach(Tail(e))
         /\ Elems(Tail(e)) = {s \in Elems(e) : s.rule # Head(e).rule}
         /\ \A s \in Elems(e) : s # Head(e) => s.rule # Head(e).rule
<1>. DEFINE h == Head(e)
            t == Tail(e)
            n == Len(e)
<1>1. /\ n \in Nat \ {0} /\ DOMAIN e = 1..n /\ h \in Statement /\ t \in Seq(Statement) /\ Len(t) = n - 1
      /\ \A i \in 1..(n - 1) : t[i] = e[i + 1]
  BY EmptySeq, LenProperties, HeadTailProperties
<1>2. DOMAIN t = 1..(n - 1) /\ h = e[1]
  BY <1>1, LenProperties
<1>. HIDE DEF h, t, n
<1>3. h \in Elems(e)
  BY <1>1, <1>2 DEF Elems
<1>4. \A i \in DOMAIN t : i + 1 \in DOMAIN e /\ t[i] = e[i + 1] /\ i + 1 # 1
  BY <1>1, <1>2
<1>5. ASSUME NEW i \in DOMAIN e, i # 1 PROVE i - 1 \in DOMAIN t /\ t[i - 1] = e[i]
  <2>1. i - 1 \in 1..(n - 1) /\ (i - 1) + 1 = i
    BY <1>1, <1>5
  <2>. QED BY <1>1, <1>2, <2>1
<1>6. OneEach(t)
  <2>. SUFFICES ASSUME NEW i \in DOMAIN t, NEW j \in DOMAIN t, i # j PROVE t[i].rule # t[j].rule
    BY DEF OneEach
  <2>1. i + 1 # j + 1
    BY <1>2
  <2>. QED BY <1>4, <2>1 DEF OneEach
<1>7. \A i \in DOMAIN e : i # 1 => e[i].rule # h.rule
  BY <1>1, <1>2 DEF OneEach
<1>8. Elems(t) = {s \in Elems(e) : s.rule # h.rule}
  <2>1. ASSUME NEW s \in Elems(t) PROVE s \in Elems(e) /\ s.rule # h.rule
    BY <1>4, <1>7 DEF Elems
  <2>2. ASSUME NEW s \in Elems(e), s.rule # h.rule PROVE s \in Elems(t)
    BY <1>2, <1>5, <2>2 DEF Elems
  <2>. QED BY <2>1, <2>2
<1>9. \A s \in Elems(e) : s # h => s.rule # h.rule
  BY <1>2, <1>7 DEF Elems
<1>. QED BY <1>1, <1>3, <1>6, <1>8, <1>9 DEF h, t

(* One statement for each rule, in whatever order.                         *)
LEMMA ListOfEach ==
  ASSUME Typed, NEW x, x.key \in Keys, NEW S \in SUBSET RuleIds
  PROVE  /\ \A p \in Each(x, S, Detach) :
              p \in Seq(Statement) /\ OneEach(p) /\ Elems(p) = {Detach(x, r) : r \in S}
         /\ \A p \in Each(x, S, Pin) :
              p \in Seq(Statement) /\ OneEach(p) /\ Elems(p) = {Pin(x, r) : r \in S}
<1>1. ASSUME NEW order \in SetToSeqs(S) PROVE \A r \in S : \E i \in DOMAIN order : order[i] = r
  <2>. DEFINE n == Cardinality(S)
  <2>1. n \in Nat /\ order \in [1..n -> S] /\ \A i, j \in DOMAIN order : i # j => order[i] # order[j]
    BY OrdersOK
  <2>2. IsFiniteSet(S)
    BY Distinct, FS_Subset
  <2>3. order \in Injection(1..n, S)
    BY <2>1 DEF Injection, IsInjective
  <2>4. Cardinality(1..n) = n
    BY <2>1, FS_Interval
  <2>5. order \in Surjection(1..n, S)
    BY <2>2, <2>3, <2>4, FS_Injection
  <2>. QED BY <2>1, <2>5 DEF Surjection
<1>2. ASSUME NEW order \in SetToSeqs(S), NEW p, p = [i \in DOMAIN order |-> p[i]],
             \A i \in DOMAIN order : p[i] \in Statement /\ p[i].rule = order[i]
      PROVE  p \in Seq(Statement) /\ OneEach(p) /\ Elems(p) = {p[i] : i \in DOMAIN order}
  <2>1. p \in Seq(Statement) /\ DOMAIN p = DOMAIN order
    BY <1>2, EachOK
  <2>2. OneEach(p)
    BY <1>2, <2>1, OrdersOK DEF OneEach
  <2>. QED BY <2>1, <2>2 DEF Elems
<1>3. \A r \in S : /\ Detach(x, r) \in Statement /\ Detach(x, r).rule = r
                   /\ Pin(x, r) \in Statement /\ Pin(x, r).rule = r
  BY DetachOK, PinOK DEF Detach, Pin, Do, Assign
<1>4. ASSUME NEW order \in SetToSeqs(S), NEW p, p = [i \in DOMAIN order |-> Detach(x, order[i])]
      PROVE  p \in Seq(Statement) /\ OneEach(p) /\ Elems(p) = {Detach(x, r) : r \in S}
  <2>1. \A i \in DOMAIN order : order[i] \in S
    BY OrdersOK
  <2>2. \A i \in DOMAIN order : p[i] = Detach(x, order[i]) /\ p[i] \in Statement /\ p[i].rule = order[i]
    BY <1>3, <1>4, <2>1
  <2>3. p = [i \in DOMAIN order |-> p[i]]
    BY <1>4
  <2>4. p \in Seq(Statement) /\ OneEach(p) /\ Elems(p) = {p[i] : i \in DOMAIN order}
    BY <1>2, <2>2, <2>3
  <2>5. {p[i] : i \in DOMAIN order} = {Detach(x, r) : r \in S}
    BY <1>1, <2>1, <2>2
  <2>. QED BY <2>4, <2>5
<1>5. ASSUME NEW order \in SetToSeqs(S), NEW p, p = [i \in DOMAIN order |-> Pin(x, order[i])]
      PROVE  p \in Seq(Statement) /\ OneEach(p) /\ Elems(p) = {Pin(x, r) : r \in S}
  <2>1. \A i \in DOMAIN order : order[i] \in S
    BY OrdersOK
  <2>2. \A i \in DOMAIN order : p[i] = Pin(x, order[i]) /\ p[i] \in Statement /\ p[i].rule = order[i]
    BY <1>3, <1>5, <2>1
  <2>3. p = [i \in DOMAIN order |-> p[i]]
    BY <1>5
  <2>4. p \in Seq(Statement) /\ OneEach(p) /\ Elems(p) = {p[i] : i \in DOMAIN order}
    BY <1>2, <2>2, <2>3
  <2>5. {p[i] : i \in DOMAIN order} = {Pin(x, r) : r \in S}
    BY <1>1, <2>1, <2>2
  <2>. QED BY <2>4, <2>5
<1>. QED BY <1>4, <1>5 DEF Each

(* The two ways to say what a profile has.                                 *)
LEMMA AccessByView == ASSUME NEW k \in Keys PROVE Access[k] = AccessBy(View({}, k))
<1>1. ASSUME NEW service PROVE OfKind(View({}, k), service) = RowsFor(k, service)
  BY DEF OfKind, View, RowsFor
<1>2. \A service : LevelsIn(View({}, k), service) = LevelsFor(k, service)
  BY <1>1 DEF LevelsIn, LevelsFor
<1>3. Decide(View({}, k)) = Deciding(k)
  BY <1>1 DEF Decide, Deciding
<1>4. Access[k] = [send |-> SendAccess(k), file |-> FileAccess(k), tree |-> TreeAccess(k)]
  BY DEF Access
<1>5. SendLevel(LevelsIn(View({}, k), "gmail")) = SendAccess(k)
  BY <1>2 DEF SendAccess
<1>6. FileLevel(LevelsIn(View({}, k), "file")) = FileAccess(k)
  BY <1>2 DEF FileAccess
<1>7. (IF Decide(View({}, k)) = {} THEN "inherit" ELSE Combine({row.level : row \in Decide(View({}, k))})) = TreeAccess(k)
  BY <1>3 DEF TreeAccess
<1>. QED BY <1>4, <1>5, <1>6, <1>7 DEF AccessBy

LEMMA LikeTree ==
  ASSUME NEW x, NEW y, Like(y, x), x.op \in TreeOps
  PROVE  /\ \A row : IsCandidate(y, row) <=> IsCandidate(x, row)
         /\ Candidates(y) = Candidates(x)
         /\ \A X : OthersHave(y, X) <=> OthersHave(x, X)
         /\ \A E, X : InOrder(y, E, X) <=> InOrder(x, E, X)
         /\ \A E : (Leaves(y, E) <=> Leaves(x, E)) /\ (Keeps(y, E) <=> Keeps(x, E))
<1>1. \A row : IsCandidate(y, row) <=> IsCandidate(x, row)
  BY DEF IsCandidate, Like, TreeOps
<1>2. Candidates(y) = Candidates(x)
  BY <1>1 DEF Candidates, Select, Like, TreeOps, OneRuleOps
<1>3. \A X : OthersHave(y, X) <=> OthersHave(x, X)
  BY DEF OthersHave, Like
<1>4. \A s, X : Placed(y, s, X) <=> Placed(x, s, X)
  <2>. SUFFICES ASSUME NEW s, NEW X PROVE Placed(y, s, X) <=> Placed(x, s, X)
    OBVIOUS
  <2>1. /\ y.op = x.op /\ y.key = x.key /\ y.want = x.want /\ Setting(y) = Setting(x)
        /\ IsCandidate(y, table[s.rule]) <=> IsCandidate(x, table[s.rule])
    BY <1>1 DEF Like, Setting
  <2>. QED BY <2>1 DEF Placed
<1>5. \A E : (Leaves(y, E) <=> Leaves(x, E)) /\ (Keeps(y, E) <=> Keeps(x, E))
  BY <1>1 DEF Leaves, Keeps, Like
<1>. QED BY <1>1, <1>2, <1>3, <1>4, <1>5 DEF InOrder

LEMMA TreeCandidates ==
  ASSUME Typed, NEW x, x.op \in TreeOps
  PROVE  Candidates(x) = {r \in RuleIds : table[r] # NoRule /\ IsCandidate(x, table[r])}
BY DEF Candidates, Select, Existing, TreeOps, OneRuleOps

LEMMA PlansSettle ==
  ASSUME Typed, NEW x, Sensible(x), x.op \in TreeOps, x.cands = Candidates(x), Seen(x) = x.cands,
         \A r \in Seen(x) : x.seen[r] = assigned[r], OthersHave(x, {}), NEW y \in Planned(x)
  PROVE  Settles(y)
<1>. DEFINE M == Mine(x)
            G == Globals(x)
<1>1. /\ x \in CallRecord /\ x.key \in Keys /\ resource = "file" /\ (x.op = "set" => x.want \in LevelsHere)
      /\ live \subseteq Keys
  BY DEF Sensible, Meant, KeyOps, FileOps, TreeOps, Typed
<1>2. y.todo \in Plans(x) /\ y.stage \in {"running", "done"} /\ Like(y, x)
  BY <1>1, PlannedFields DEF Like
<1>3. x.cands = {r \in RuleIds : table[r] # NoRule /\ IsCandidate(x, table[r])}
  BY TreeCandidates
<1>4. /\ M = {r \in x.cands : x.key \in assigned[r]} /\ G = {r \in x.cands : assigned[r] = {}}
      /\ \A r \in x.cands : x.seen[r] = assigned[r]
  BY DEF Mine, Globals
<1>5. M \subseteq RuleIds /\ G \subseteq RuleIds /\ M \cap G = {}
  BY <1>3, <1>4
<1>. HIDE DEF M, G
<1>6. ASSUME NEW r \in M PROVE Placed(x, Detach(x, r), {}) /\ Detach(x, r).rule = r
  BY <1>3, <1>4 DEF Placed, Detach, Do, Assign
<1>7. ASSUME NEW r \in G PROVE Placed(x, Pin(x, r), {}) /\ Pin(x, r).rule = r
  BY <1>3, <1>4 DEF Placed, Pin, Do, Assign
<1>8. ASSUME NEW E, M \cup G \subseteq {s.rule : s \in E} \/ (x.op = "set" /\ M \subseteq {s.rule : s \in E})
      PROVE  Leaves(x, E)
  <2>. SUFFICES ASSUME NEW r \in RuleIds, Applies(x.key, r), IsCandidate(x, table[r])
                PROVE  (\E s \in E : s.rule = r) \/ (x.op = "set" /\ assigned[r] = {})
    BY DEF Leaves
  <2>1. r \in M \/ (r \in G /\ assigned[r] = {})
    BY <1>3, <1>4 DEF Applies
  <2>. QED BY <1>8, <2>1
<1>9. ASSUME NEW e, NEW last, y.todo = e \o last, e \in Seq(Statement), OneEach(e),
             last = <<>> \/ (x.op = "set" /\ last = <<Insert(Setting(x)), Assign("assign", New, {x.key})>>),
             \A s \in Elems(e) : Placed(x, s, {}), Leaves(x, Elems(e)), x.op = "set" /\ last = <<>> => Keeps(x, Elems(e))
      PROVE  Settles(y)
  <2>1. InOrder(x, Elems(e), {})
    BY <1>9 DEF InOrder
  <2>2. InOrder(y, Elems(e), {}) /\ OthersHave(y, {}) /\ Leaves(y, Elems(e))
        /\ (x.op = "set" /\ last = <<>> => Keeps(y, Elems(e)))
    BY <1>2, <1>9, <2>1, LikeTree
  <2>3. y.op = x.op /\ y.key = x.key /\ Setting(y) = Setting(x)
    BY <1>2 DEF Like, Setting
  <2>4. Remains(y, e, last, {})
    BY <1>9, <2>2, <2>3 DEF Remains
  <2>5. y.stage # "looking"
    BY <1>2
  <2>. QED BY <2>4, <2>5 DEF Settles
<1>10. CASE x.op \in {"inherit", "clear"}
  <2>1. y.todo \in InheritPlans(x)
    BY <1>2, <1>10 DEF Plans, OneRuleOps
  <2>2. PICK d \in Each(x, M, Detach), g \in Each(x, G, Pin) : y.todo = d \o g
    BY <2>1 DEF InheritPlans, Then, M, G
  <2>3. /\ d \in Seq(Statement) /\ OneEach(d) /\ Elems(d) = {Detach(x, r) : r \in M}
        /\ g \in Seq(Statement) /\ OneEach(g) /\ Elems(g) = {Pin(x, r) : r \in G}
    BY <1>1, <1>5, <2>2, ListOfEach
  <2>4. \A s \in Elems(d), t \in Elems(g) : s.rule # t.rule
    BY <1>5, <1>6, <1>7, <2>3
  <2>. DEFINE e == d \o g
  <2>5. e \in Seq(Statement) /\ OneEach(e) /\ Elems(e) = Elems(d) \cup Elems(g)
    BY <2>3, <2>4, ListsJoined
  <2>6. e \o <<>> = e
    BY <2>5, ConcatEmptySeq
  <2>. HIDE DEF e
  <2>7. \A s \in Elems(e) : Placed(x, s, {})
    BY <1>6, <1>7, <2>3, <2>5
  <2>8. Leaves(x, Elems(e))
    <3>1. M \cup G \subseteq {s.rule : s \in Elems(e)}
      BY <1>6, <1>7, <2>3, <2>5
    <3>. QED BY <1>8, <3>1
  <2>. QED BY <1>9, <1>10, <2>2, <2>5, <2>6, <2>7, <2>8 DEF e
<1>11. CASE x.op = "set"
  <2>1. y.todo \in SetPlans(x)
    BY <1>2, <1>11 DEF Plans, OneRuleOps
  <2>2. CASE \E d \in Each(x, M, Detach) : y.todo = d \o Create(Setting(x), {x.key})
    <3>1. PICK d \in Each(x, M, Detach) : y.todo = d \o Create(Setting(x), {x.key})
      BY <2>2
    <3>2. d \in Seq(Statement) /\ OneEach(d) /\ Elems(d) = {Detach(x, r) : r \in M}
      BY <1>1, <1>5, <3>1, ListOfEach
    <3>3. Create(Setting(x), {x.key}) = <<Insert(Setting(x)), Assign("assign", New, {x.key})>>
      BY TwoOK DEF Create, AssignTo
    <3>4. \A s \in Elems(d) : Placed(x, s, {})
      BY <1>6, <3>2
    <3>5. Leaves(x, Elems(d))
      <4>1. M \subseteq {s.rule : s \in Elems(d)}
        BY <1>6, <3>2
      <4>. QED BY <1>8, <1>11, <4>1
    <3>6. <<Insert(Setting(x)), Assign("assign", New, {x.key})>> # <<>>
      BY HeadsOK
    <3>. QED BY <1>9, <1>11, <3>1, <3>2, <3>3, <3>4, <3>5, <3>6
  <2>3. CASE \E r \in M : \E d \in Each(x, M \ {r}, Detach) : x.seen[r] = {x.key} /\ y.todo = <<Change(r, x.want)>> \o d
    <3>1. PICK r \in M : \E d \in Each(x, M \ {r}, Detach) : x.seen[r] = {x.key} /\ y.todo = <<Change(r, x.want)>> \o d
      BY <2>3
    <3>2. PICK d \in Each(x, M \ {r}, Detach) : x.seen[r] = {x.key} /\ y.todo = <<Change(r, x.want)>> \o d
      BY <3>1
    <3>3. d \in Seq(Statement) /\ OneEach(d) /\ Elems(d) = {Detach(x, z) : z \in M \ {r}}
      <4>1. M \ {r} \in SUBSET RuleIds
        BY <1>5
      <4>. QED BY <1>1, <3>2, <4>1, ListOfEach
    <3>. DEFINE ch == Change(r, x.want)
                e == <<ch>> \o d
    <3>4. ch \in Statement /\ ch.rule = r /\ ch.do = "change" /\ ch.row = x.want
      BY <1>1, <1>5, <1>11, StatementsOK DEF Change
    <3>5. Placed(x, ch, {})
      BY <1>3, <1>4, <1>11, <3>2, <3>4 DEF Placed
    <3>. HIDE DEF ch
    <3>6. <<ch>> \in Seq(Statement) /\ OneEach(<<ch>>) /\ Elems(<<ch>>) = {ch}
      BY <3>4, ListOfOne
    <3>7. \A s \in Elems(<<ch>>), t \in Elems(d) : s.rule # t.rule
      BY <1>6, <3>3, <3>4, <3>6
    <3>8. e \in Seq(Statement) /\ OneEach(e) /\ Elems(e) = {ch} \cup Elems(d)
      BY <3>3, <3>6, <3>7, ListsJoined
    <3>9. e \o <<>> = e /\ y.todo = e
      BY <3>2, <3>8, ConcatEmptySeq DEF ch
    <3>. HIDE DEF e
    <3>10. \A s \in Elems(e) : Placed(x, s, {})
      BY <1>6, <3>3, <3>5, <3>8
    <3>11. Leaves(x, Elems(e))
      <4>1. M \subseteq {s.rule : s \in Elems(e)}
        BY <1>6, <3>3, <3>4, <3>8
      <4>. QED BY <1>8, <1>11, <4>1
    <3>12. Keeps(x, Elems(e))
      BY <3>4, <3>8 DEF Keeps
    <3>. QED BY <1>9, <3>8, <3>9, <3>10, <3>11, <3>12
  <2>4. y.todo \in Then(Each(x, M, Detach), {Create(Setting(x), {x.key})})
        \/ \E r \in M : x.seen[r] = {x.key} /\ y.todo \in Then({<<Change(r, x.want)>>}, Each(x, M \ {r}, Detach))
    BY <2>1 DEF SetPlans, M, Setting
  <2>5. ASSUME NEW A, NEW B, y.todo \in Then(A, B) PROVE \E a \in A : \E b \in B : y.todo = a \o b
    BY <2>5 DEF Then
  <2>6. CASE y.todo \in Then(Each(x, M, Detach), {Create(Setting(x), {x.key})})
    <3>. DEFINE A == Each(x, M, Detach)
                b == Create(Setting(x), {x.key})
                B == {b}
    <3>. HIDE DEF A, b, B
    <3>1. y.todo \in Then(A, B)
      BY <2>6 DEF A, b, B
    <3>2. \E d \in A : \E g \in B : y.todo = d \o g
      BY <2>5, <3>1
    <3>3. \E d \in A : y.todo = d \o b
      BY <3>2 DEF B
    <3>. QED BY <2>2, <3>3 DEF A, b
  <2>7. CASE \E r \in M : x.seen[r] = {x.key} /\ y.todo \in Then({<<Change(r, x.want)>>}, Each(x, M \ {r}, Detach))
    <3>1. PICK r \in M : x.seen[r] = {x.key} /\ y.todo \in Then({<<Change(r, x.want)>>}, Each(x, M \ {r}, Detach))
      BY <2>7
    <3>. DEFINE B == Each(x, M \ {r}, Detach)
                a == <<Change(r, x.want)>>
    <3>. HIDE DEF B, a
    <3>2. y.todo \in Then({a}, B)
      BY <3>1 DEF B, a
    <3>. DEFINE A == {a}
    <3>. HIDE DEF A
    <3>3. y.todo \in Then(A, B)
      BY <3>2 DEF A
    <3>4. \E b \in A : \E d \in B : y.todo = b \o d
      BY <2>5, <3>3
    <3>5. \E d \in B : y.todo = a \o d
      BY <3>4 DEF A
    <3>. QED BY <2>3, <3>1, <3>5 DEF B, a
  <2>. QED BY <2>4, <2>6, <2>7
<1>. QED BY <1>10, <1>11 DEF TreeOps

LEMMA HeadOfJoined ==
  ASSUME NEW S, NEW a \in Seq(S), a # <<>>, NEW b \in Seq(S)
  PROVE  Head(a \o b) = Head(a) /\ Tail(a \o b) = Tail(a) \o b
<1>. DEFINE l == a \o b
            t == Tail(a)
            n == Len(a)
            m == Len(b)
<1>1. /\ n \in Nat \ {0} /\ m \in Nat /\ t \in Seq(S) /\ Len(t) = n - 1 /\ \A i \in 1..(n - 1) : t[i] = a[i + 1]
      /\ l \in Seq(S) /\ Len(l) = n + m /\ \A i \in 1..(n + m) : l[i] = IF i <= n THEN a[i] ELSE b[i - n]
      /\ Head(a) = a[1]
  BY EmptySeq, LenProperties, ConcatProperties, HeadTailProperties
<1>2. t \o b \in Seq(S) /\ Len(t \o b) = (n - 1) + m
      /\ \A i \in 1..((n - 1) + m) : (t \o b)[i] = IF i <= n - 1 THEN t[i] ELSE b[i - (n - 1)]
  BY <1>1, ConcatProperties
<1>3. l # <<>> /\ Head(l) = l[1] /\ Tail(l) \in Seq(S) /\ Len(Tail(l)) = (n + m) - 1
      /\ \A i \in 1..((n + m) - 1) : Tail(l)[i] = l[i + 1]
  BY <1>1, EmptySeq, HeadTailProperties
<1>4. Head(l) = Head(a)
  BY <1>1, <1>3
<1>. DEFINE p == Tail(l)
            q == t \o b
<1>. HIDE DEF l, t, n, m, p, q
<1>5. ASSUME NEW i \in 1..((n - 1) + m) PROVE p[i] = q[i]
  <2>1. p[i] = l[i + 1] /\ i + 1 \in 1..(n + m)
    BY <1>1, <1>3 DEF p
  <2>2. CASE i <= n - 1
    <3>1. i \in 1..(n - 1) /\ i + 1 <= n
      BY <1>1, <2>2
    <3>. QED BY <1>1, <1>2, <2>1, <2>2, <3>1 DEF q
  <2>3. CASE ~(i <= n - 1)
    <3>1. ~(i + 1 <= n) /\ (i + 1) - n = i - (n - 1)
      BY <1>1, <2>3
    <3>. QED BY <1>1, <1>2, <2>1, <2>3, <3>1 DEF q
  <2>. QED BY <2>2, <2>3
<1>6. Len(p) = (n - 1) + m /\ Len(q) = (n - 1) + m /\ p \in Seq(S) /\ q \in Seq(S)
  BY <1>1, <1>2, <1>3 DEF p, q
<1>7. p = q
  BY <1>5, <1>6, SeqEqual
<1>. QED BY <1>4, <1>7 DEF l, p, q, t

(* What the call's next record settles, the call does.                     *)
LEMMA SettlesNext == ASSUME NEW c, NEW y, y = call'[c], Settles(y)' PROVE Settles(call[c])'
<1>1. Setting(y) = Setting(call[c])' /\ \A row : IsCandidate(y, row)' <=> IsCandidate(call[c], row)'
  BY DEF Setting, IsCandidate
<1>2. \A s, X : Placed(y, s, X)' <=> Placed(call[c], s, X)'
  BY <1>1 DEF Placed
<1>3. \A X : OthersHave(y, X)' <=> OthersHave(call[c], X)'
  BY DEF OthersHave
<1>4. \A E : (Leaves(y, E)' <=> Leaves(call[c], E)') /\ (Keeps(y, E)' <=> Keeps(call[c], E)')
  BY <1>1 DEF Leaves, Keeps
<1>5. \A E, X : InOrder(y, E, X)' <=> InOrder(call[c], E, X)'
  BY <1>2 DEF InOrder
<1>6. Candidates(y)' = Candidates(call[c])'
  BY <1>1 DEF Candidates, Select
<1>7. \A e, last, X : Remains(y, e, last, X)' <=> Remains(call[c], e, last, X)'
  BY <1>1, <1>3, <1>4, <1>5 DEF Remains
<1>. QED BY <1>6, <1>7 DEF Settles

(* The settings survive what other steps do: profiles are only revoked.    *)
LEMMA SettlesUnmoved ==
  ASSUME UNCHANGED <<resource, table, assigned>>, live' \subseteq live, NEW x, Settles(x)
  PROVE  Settles(x)'
<1>1. Statement' = Statement
  BY DEF Statement, RowsHere, LevelsHere
<1>2. /\ \A row : IsCandidate(x, row)' <=> IsCandidate(x, row)
      /\ \A k, r : Applies(k, r)' <=> Applies(k, r)
  BY DEF IsCandidate, Applies
<1>3. Candidates(x)' = Candidates(x)
  BY <1>2 DEF Candidates, Select, Existing
<1>4. ASSUME NEW s, NEW X, Placed(x, s, X) PROVE Placed(x, s, X)'
  BY <1>2, <1>4 DEF Placed, Setting
<1>5. ASSUME NEW X, OthersHave(x, X) PROVE OthersHave(x, X)'
  BY <1>2, <1>5 DEF OthersHave, View
<1>6. ASSUME NEW E PROVE (Leaves(x, E)' <=> Leaves(x, E)) /\ (Keeps(x, E)' <=> Keeps(x, E))
  BY <1>2 DEF Leaves, Keeps
<1>7. ASSUME NEW E, NEW X, InOrder(x, E, X) PROVE InOrder(x, E, X)'
  BY <1>4, <1>7 DEF InOrder
<1>8. ASSUME NEW X, NEW e, NEW last, Remains(x, e, last, X) PROVE Remains(x, e, last, X)'
  BY <1>1, <1>5, <1>6, <1>7, <1>8 DEF Remains, Setting
<1>. QED BY <1>3, <1>8 DEF Settles

(* A statement about rule r is done: f is what is left of the list, and    *)
(* the others have of that rule what they had.                             *)
Turns(x, r, e, f, X, Y) ==
  /\ \A z \in RuleIds : z # r => table'[z] = table[z] /\ assigned'[z] = assigned[z] /\ (z \in Y <=> z \in X)
  /\ \/ Elems(f) = Elems(Tail(e)) /\ r \notin Y
     \/ Elems(f) = Elems(Tail(e)) \cup {Do("delete", r)} /\ r \in Y /\ Head(e).do \notin {"change", "assign"}
  /\ \A k \in live \ {x.key} : /\ (r \notin Y /\ Applies(k, r)') <=> (r \notin X /\ Applies(k, r))
                               /\ r \notin Y /\ Applies(k, r)' => table'[r] = table[r]
  /\ Applies(x.key, r)' /\ IsCandidate(x, table'[r]) =>
       (\E s \in Elems(f) : s.rule = r) \/ (x.op = "set" /\ table'[r].level = x.want)
  /\ Head(e).do \in {"change", "assign"} =>
       Applies(x.key, r)' /\ IsCandidate(x, table'[r]) /\ table'[r].level = x.want

LEMMA RemainsAfter ==
  ASSUME Typed, UNCHANGED <<resource, live>>, NEW x, NEW y, Like(y, x), x.op \in TreeOps, x.stage = "running",
         NEW X \in SUBSET RuleIds, NEW Y \in SUBSET RuleIds, NEW e, NEW last, NEW f, NEW r \in RuleIds,
         Remains(x, e, last, X), e # <<>>, r = Head(e).rule,
         y.todo = f \o last, f \in Seq(Statement), OneEach(f), Turns(x, r, e, f, X, Y)
  PROVE  Remains(y, f, last, Y)'
<1>0. /\ \A z \in RuleIds : z # r => table'[z] = table[z] /\ assigned'[z] = assigned[z] /\ (z \in Y <=> z \in X)
      /\ \/ Elems(f) = Elems(Tail(e)) /\ r \notin Y
         \/ Elems(f) = Elems(Tail(e)) \cup {Do("delete", r)} /\ r \in Y /\ Head(e).do \notin {"change", "assign"}
      /\ \A k \in live \ {x.key} : /\ (r \notin Y /\ Applies(k, r)') <=> (r \notin X /\ Applies(k, r))
                                   /\ r \notin Y /\ Applies(k, r)' => table'[r] = table[r]
      /\ Applies(x.key, r)' /\ IsCandidate(x, table'[r]) =>
           (\E s \in Elems(f) : s.rule = r) \/ (x.op = "set" /\ table'[r].level = x.want)
      /\ Head(e).do \in {"change", "assign"} =>
           Applies(x.key, r)' /\ IsCandidate(x, table'[r]) /\ table'[r].level = x.want
  BY DEF Turns
<1>. DEFINE E == Elems(e)
            F == Elems(f)
            T == Elems(Tail(e))
            h == Head(e)
            d == Do("delete", r)
<1>1. /\ e \in Seq(Statement) /\ OneEach(e)
      /\ last = <<>> \/ (x.op = "set" /\ last = <<Insert(Setting(x)), Assign("assign", New, {x.key})>>)
      /\ OthersHave(x, X) /\ InOrder(x, E, X) /\ Leaves(x, E) /\ (x.op = "set" /\ last = <<>> => Keeps(x, E))
  BY DEF Remains
<1>2. h \in E /\ T = {s \in E : s.rule # r} /\ \A s \in E : s # h => s.rule # r
  <2>1. /\ Head(e) \in Elems(e) /\ Elems(Tail(e)) = {s \in Elems(e) : s.rule # Head(e).rule}
        /\ \A s \in Elems(e) : s # Head(e) => s.rule # Head(e).rule
    BY <1>1, RestOfList
  <2>. QED BY <2>1
<1>3. d.do = "delete" /\ d.rule = r
  BY DEF Do
<1>4. F = T \/ (F = T \cup {d} /\ r \in Y /\ h.do \notin {"change", "assign"})
  BY <1>0
<1>5. F = T => r \notin Y
  <2>1. d \notin T
    BY <1>2, <1>3
  <2>. QED BY <1>0, <2>1
<1>. HIDE DEF E, F, T, h, d
<1>6. /\ y.op = x.op /\ y.key = x.key /\ y.want = x.want /\ y.before = x.before /\ Setting(y) = Setting(x)
      /\ \A row : IsCandidate(y, row)' <=> IsCandidate(x, row)
  <2>1. \A row : IsCandidate(y, row) <=> IsCandidate(x, row)
    BY LikeTree
  <2>2. \A row : IsCandidate(y, row)' <=> IsCandidate(y, row)
    BY DEF IsCandidate
  <2>. QED BY <2>1, <2>2 DEF Like, Setting
<1>7. \A z \in RuleIds : \A k : z # r => (Applies(k, z)' <=> Applies(k, z))
  BY <1>0 DEF Applies
<1>8. ASSUME NEW s \in T PROVE Placed(y, s, Y)'
  <2>1. s.rule # r /\ Placed(x, s, X)
    BY <1>1, <1>2 DEF InOrder
  <2>2. PICK z : z = s.rule
    OBVIOUS
  <2>3. z \in RuleIds /\ z # r /\ table'[z] = table[z] /\ assigned'[z] = assigned[z] /\ (z \in Y <=> z \in X)
    BY <1>0, <2>1, <2>2 DEF Placed
  <2>4. IsCandidate(y, table[z])' <=> IsCandidate(x, table[z])
    BY <1>6, <2>3
  <2>. QED BY <1>6, <2>1, <2>2, <2>3, <2>4 DEF Placed
<1>9. InOrder(y, F, Y)'
  <2>1. r \in Y => Placed(y, d, Y)'
    BY <1>3 DEF Placed
  <2>2. \A s \in F : Placed(y, s, Y)'
    BY <1>4, <1>8, <2>1
  <2>3. ASSUME NEW z \in Y PROVE \E s \in F : s.rule = z /\ s.do \in {"delete", "assign"}
    <3>1. CASE z = r
      BY <1>3, <1>4, <1>5, <3>1
    <3>2. CASE z # r
      <4>1. z \in X
        BY <1>0, <3>2
      <4>2. PICK s \in E : s.rule = z /\ s.do \in {"delete", "assign"}
        BY <1>1, <4>1 DEF InOrder
      <4>. QED BY <1>2, <1>4, <3>2, <4>2
    <3>. QED BY <3>1, <3>2
  <2>. QED BY <2>2, <2>3 DEF InOrder
<1>10. OthersHave(y, Y)'
  <2>. SUFFICES ASSUME NEW k \in live \ {x.key} PROVE View(Y, k)' = View(X, k)
    BY <1>1, <1>6 DEF OthersHave
  <2>1. \A z \in RuleIds : (z \notin Y /\ Applies(k, z)') <=> (z \notin X /\ Applies(k, z))
    BY <1>0, <1>7
  <2>2. \A z \in RuleIds : z \notin Y /\ Applies(k, z)' => table'[z] = table[z]
    BY <1>0
  <2>. QED BY <2>1, <2>2 DEF View
<1>11. Leaves(y, F)'
  <2>. SUFFICES ASSUME NEW z \in RuleIds, Applies(x.key, z)', IsCandidate(x, table'[z])
                PROVE  (\E s \in F : s.rule = z) \/ (x.op = "set" /\ (assigned'[z] = {} \/ table'[z].level = x.want))
    BY <1>6 DEF Leaves
  <2>1. CASE z = r
    BY <1>0, <2>1 DEF F
  <2>2. CASE z # r
    <3>1. Applies(x.key, z) /\ IsCandidate(x, table[z])
      BY <1>0, <1>7, <2>2
    <3>2. (\E s \in E : s.rule = z) \/ (x.op = "set" /\ (assigned[z] = {} \/ table[z].level = x.want))
      BY <1>1, <3>1 DEF Leaves
    <3>. QED BY <1>0, <1>2, <1>4, <2>2, <3>2
  <2>. QED BY <2>1, <2>2
<1>12. ASSUME Keeps(x, E) PROVE Keeps(y, F)'
  <2>1. CASE \E s \in E : s # h /\ s.do \in {"change", "assign"}
    BY <1>2, <1>4, <2>1 DEF Keeps
  <2>2. CASE h.do \in {"change", "assign"}
    <3>1. Applies(x.key, r)' /\ IsCandidate(x, table'[r]) /\ table'[r].level = x.want
      BY <1>0, <2>2 DEF h
    <3>2. \A s \in F : s.rule # r
      BY <1>2, <1>4, <2>2
    <3>. QED BY <1>6, <3>1, <3>2 DEF Keeps
  <2>3. CASE \E z \in RuleIds : /\ Applies(x.key, z) /\ IsCandidate(x, table[z]) /\ table[z].level = x.want
                                /\ \A s \in E : s.rule # z
    <3>1. PICK z \in RuleIds : /\ Applies(x.key, z) /\ IsCandidate(x, table[z]) /\ table[z].level = x.want
                               /\ \A s \in E : s.rule # z
      BY <2>3
    <3>2. z # r
      BY <1>2, <3>1 DEF h
    <3>3. Applies(y.key, z)' /\ IsCandidate(y, table[z])' /\ table'[z].level = y.want
      BY <1>0, <1>6, <1>7, <3>1, <3>2
    <3>4. \A s \in F : s.rule # z
      BY <1>2, <1>3, <1>4, <3>1, <3>2
    <3>. QED BY <3>3, <3>4 DEF Keeps
  <2>. QED BY <1>12, <2>1, <2>2, <2>3 DEF Keeps
<1>13. Statement' = Statement
  BY DEF Statement, RowsHere, LevelsHere
<1>. QED BY <1>1, <1>6, <1>9, <1>10, <1>11, <1>12, <1>13 DEF Remains, F

(* One statement of a tree setting that runs alone.                        *)
LEMMA SettlesStatement ==
  ASSUME Typed, NEW c \in Callers, Execute(c), call'[c].stage # "failed", NEW x, NEW y, x = call[c], y = call'[c],
         x.op \in TreeOps, NEW X \in SUBSET RuleIds, NEW e, NEW last, Remains(x, e, last, X), e # <<>>
  PROVE  \E Y \in SUBSET RuleIds : \E f : Remains(y, f, last, Y)'
<1>. DEFINE h == Head(e)
            t == Tail(e)
            r == h.rule
<1>1. /\ x \in CallRecord /\ x.key \in Keys /\ (x.op = "set" => x.want \in LevelsHere) /\ x.stage = "running"
      /\ live \subseteq Keys /\ UNCHANGED <<resource, live>> /\ resource = "file"
      /\ table \in [RuleIds -> RowsHere \cup {NoRule}] /\ assigned \in [RuleIds -> SUBSET Keys]
      /\ \A z \in RuleIds : table[z] = NoRule => assigned[z] = {}
  BY DEF Typed, CallOK, Sensible, Meant, KeyOps, FileOps, TreeOps, Execute
<1>2. /\ x.todo = e \o last /\ e \in Seq(Statement) /\ OneEach(e) /\ InOrder(x, Elems(e), X)
      /\ last = <<>> \/ (x.op = "set" /\ last = <<Insert(Setting(x)), Assign("assign", New, {x.key})>>)
  BY DEF Remains
<1>3. last \in Seq(Statement)
  <2>1. x.op = "set" => Insert(Setting(x)) \in Statement
    BY <1>1, StatementsOK DEF Setting, Row, RowsHere, Services
  <2>2. Assign("assign", New, {x.key}) \in Statement
    BY <1>1, StatementsOK
  <2>3. \A a \in Statement, b \in Statement : <<a, b>> \in Seq(Statement)
    OBVIOUS
  <2>. QED BY <1>2, <2>1, <2>2, <2>3, ListOfNone
<1>4. /\ h \in Elems(e) /\ h \in Statement /\ t \in Seq(Statement) /\ OneEach(t)
      /\ \A s \in Elems(t) : s.rule # r
  BY <1>2, RestOfList
<1>5. Head(x.todo) = h /\ Tail(x.todo) = t \o last
  BY <1>2, <1>3, HeadOfJoined
<1>6. Placed(x, h, X) /\ r \in RuleIds
  BY <1>2, <1>4 DEF InOrder, Placed
<1>7. /\ Like(y, x)
      /\ \A left : Advance(c, left) => y.todo = left
      /\ ~Throw(c)
  <2>1. \A left : Advance(c, left) \/ (Throw(c) /\ left = <<>>) => Like(y, x) /\ y.todo = left
    BY TodoFields DEF Like
  <2>2. \E left : Advance(c, left) \/ (Throw(c) /\ left = <<>>)
    BY ExecuteStep
  <2>3. Throw(c) => y.stage = "failed"
    BY DEF Throw, Typed, CallRecord
  <2>. QED BY <2>1, <2>2, <2>3
<1>8. \A z \in RuleIds : z # r /\ h.do # "insert" => table'[z] = table[z] /\ assigned'[z] = assigned[z]
  BY <1>1, <1>5, ExecuteStep
<1>9. t \o last \in Seq(Statement) /\ <<>> \o (t \o last) = t \o last
  BY <1>3, <1>4, ConcatProperties, ConcatEmptySeq
<1>0. h = Head(e) /\ t = Tail(e) /\ r = h.rule /\ r = Head(e).rule
  OBVIOUS
<1>. HIDE DEF h, t, r
<1>less. ASSUME h.do # "insert", NEW Y \in SUBSET RuleIds, \A z \in RuleIds : z # r => (z \in Y <=> z \in X), r \notin Y,
                NEW f, f \in Seq(Statement), OneEach(f), y.todo = f \o last, Elems(f) = Elems(Tail(e)),
                \A k \in live \ {x.key} : /\ Applies(k, r)' <=> (r \notin X /\ Applies(k, r))
                                          /\ Applies(k, r)' => table'[r] = table[r],
                Applies(x.key, r)' /\ IsCandidate(x, table'[r]) => x.op = "set" /\ table'[r].level = x.want,
                h.do \in {"change", "assign"} =>
                  Applies(x.key, r)' /\ IsCandidate(x, table'[r]) /\ table'[r].level = x.want
         PROVE  Remains(y, f, last, Y)'
  <2>1. Turns(x, r, e, f, X, Y)
    BY <1>0, <1>8, <1>less DEF Turns
  <2>. QED BY <1>0, <1>1, <1>6, <1>7, <1>less, <2>1, RemainsAfter
<1>10. ASSUME h.do # "insert", NEW Y \in SUBSET RuleIds, \A z \in RuleIds : z # r => (z \in Y <=> z \in X), r \notin Y,
              y.todo = t \o last,
              \A k \in live \ {x.key} : /\ Applies(k, r)' <=> (r \notin X /\ Applies(k, r))
                                        /\ Applies(k, r)' => table'[r] = table[r],
              Applies(x.key, r)' /\ IsCandidate(x, table'[r]) => x.op = "set" /\ table'[r].level = x.want,
              h.do \in {"change", "assign"} =>
                Applies(x.key, r)' /\ IsCandidate(x, table'[r]) /\ table'[r].level = x.want
       PROVE  \E Z \in SUBSET RuleIds : \E f : Remains(y, f, last, Z)'
  <2>1. Elems(t) = Elems(Tail(e))
    BY <1>0
  <2>2. Remains(y, t, last, Y)'
    BY <1>4, <1>10, <1>less, <2>1
  <2>. QED BY <2>2
<1>removed. ASSUME NEW Y \in SUBSET RuleIds, r \in Y, NEW f, f \in Seq(Statement), OneEach(f), y.todo = f \o last,
               \A z \in RuleIds : z # r => table'[z] = table[z] /\ assigned'[z] = assigned[z],
               \A z \in RuleIds : z # r => (z \in Y <=> z \in X), h.do = "remove",
               Elems(f) = Elems(Tail(e)) \cup {Do("delete", r)}, \E s \in Elems(f) : s.rule = r,
               \A k \in live \ {x.key} : ~Applies(k, r)
        PROVE  Remains(y, f, last, Y)'
  <2>1. Turns(x, r, e, f, X, Y)
    BY <1>0, <1>removed DEF Turns
  <2>. QED BY <1>0, <1>1, <1>6, <1>7, <1>removed, <2>1, RemainsAfter
<1>11. CASE h.do = "change"
  <2>1. UpdateRow(c, h)
    BY <1>5, <1>11 DEF Execute
  <2>2. h.row = x.want /\ x.op = "set" /\ r \notin X /\ assigned[r] = {x.key} /\ IsCandidate(x, table[r])
    BY <1>6, <1>11 DEF Placed, r
  <2>3. table[r] \in RowsHere
    BY <1>1, <1>6, <2>2
  <2>4. /\ table' = [table EXCEPT ![r] = IF @ = NoRule THEN @ ELSE [@ EXCEPT !.level = h.row]]
        /\ UNCHANGED assigned /\ Advance(c, Tail(x.todo))
    BY <1>11, <2>1 DEF UpdateRow, r
  <2>5. table[r] # NoRule
    BY <1>1, <1>6, <2>2
  <2>6. table'[r] = [table[r] EXCEPT !.level = x.want]
    BY <1>1, <1>6, <2>2, <2>4, <2>5
  <2>7. /\ table'[r].level = x.want /\ table'[r].service = table[r].service /\ table'[r].agent = table[r].agent
        /\ table'[r] # NoRule
    <3>1. [table[r] EXCEPT !.level = x.want] \in RowsHere
      BY <1>1, <2>2, <2>3 DEF RowsHere
    <3>2. NoRule \notin RowsHere
      BY <1>1, HereIsTyped
    <3>. QED BY <2>3, <2>6, <3>1, <3>2 DEF RowsHere
  <2>8. IsCandidate(x, table'[r])
    BY <2>2, <2>7 DEF IsCandidate
  <2>9. \A k : Applies(k, r)' <=> k = x.key
    BY <2>2, <2>4, <2>7 DEF Applies
  <2>10. \A k : Applies(k, r) <=> k = x.key
    BY <2>2, <2>5 DEF Applies
  <2>. QED BY <1>5, <1>7, <1>10, <1>11, <2>2, <2>4, <2>7, <2>8, <2>9, <2>10
<1>12. CASE h.do \in {"unassign", "delete"}
  <2>1. DeleteRows(c, h)
    BY <1>5, <1>12 DEF Execute
  <2>2. /\ table' = [table EXCEPT ![r] = IF h.do = "delete" THEN NoRule ELSE @]
        /\ assigned' = [assigned EXCEPT ![r] = IF h.do = "unassign" THEN @ \ h.keys ELSE {}]
        /\ Advance(c, <<>> \o Tail(x.todo))
    BY <1>12, <2>1 DEF DeleteRows, r
  <2>3. y.todo = t \o last
    BY <1>5, <1>7, <1>9, <2>2
  <2>4. CASE h.do = "unassign"
    <3>1. h.keys = {x.key} /\ r \notin X /\ x.key \in assigned[r] /\ assigned[r] # {x.key}
      BY <1>6, <2>4 DEF Placed, r
    <3>2. table'[r] = table[r] /\ assigned'[r] = assigned[r] \ {x.key} /\ assigned'[r] # {} /\ assigned[r] # {}
      BY <1>1, <1>6, <2>2, <2>4, <3>1
    <3>3. \A k : Applies(k, r)' <=> k # x.key /\ Applies(k, r)
      BY <3>2 DEF Applies
    <3>. QED BY <1>10, <2>3, <2>4, <3>1, <3>2, <3>3
  <2>5. CASE h.do = "delete"
    <3>1. r \in X \/ live \ {x.key} = {}
      BY <1>6, <2>5 DEF Placed, r
    <3>2. table'[r] = NoRule
      BY <1>1, <1>6, <2>2, <2>5
    <3>3. \A k : ~Applies(k, r)'
      BY <3>2 DEF Applies
    <3>. DEFINE Y == X \ {r}
    <3>4. Y \in SUBSET RuleIds /\ r \notin Y /\ \A z \in RuleIds : z # r => (z \in Y <=> z \in X)
      OBVIOUS
    <3>. HIDE DEF Y
    <3>. QED BY <1>10, <2>3, <2>5, <3>1, <3>3, <3>4
  <2>. QED BY <1>12, <2>4, <2>5
<1>13. CASE h.do = "remove"
  <2>1. DeleteRows(c, h)
    BY <1>5, <1>13 DEF Execute
  <2>. DEFINE d == Do("delete", r)
              f == <<d>> \o t
              Y == X \cup {r}
  <2>2. UNCHANGED table /\ Advance(c, <<d>> \o Tail(x.todo))
    <3>1. table' = [table EXCEPT ![r] = table[r]] /\ Advance(c, <<d>> \o Tail(x.todo))
      BY <1>13, <2>1 DEF DeleteRows, r
    <3>. QED BY <1>1, <3>1
  <2>3. d \in Statement /\ d.rule = r
    BY <1>1, <1>6, StatementsOK DEF Do
  <2>. HIDE DEF d
  <2>4. <<d>> \in Seq(Statement) /\ OneEach(<<d>>) /\ Elems(<<d>>) = {d}
    BY <2>3, ListOfOne
  <2>5. f \in Seq(Statement) /\ OneEach(f) /\ Elems(f) = Elems(t) \cup {d}
    <3>1. \A s \in Elems(<<d>>), z \in Elems(t) : s.rule # z.rule
      BY <1>4, <2>3, <2>4
    <3>2. PICK a : a = <<d>>
      OBVIOUS
    <3>3. a \in Seq(Statement) /\ OneEach(a) /\ \A s \in Elems(a), z \in Elems(t) : s.rule # z.rule
      BY <2>4, <3>1, <3>2
    <3>4. a \o t \in Seq(Statement) /\ Elems(a \o t) = Elems(a) \cup Elems(t) /\ OneEach(a \o t)
      BY <1>4, <3>3, ListsJoined
    <3>. QED BY <2>4, <3>2, <3>4
  <2>6. y.todo = f \o last
    <3>1. <<d>> \o (t \o last) = (<<d>> \o t) \o last
      BY <1>3, <1>4, <2>4, ConcatAssociative
    <3>. QED BY <1>5, <1>7, <2>2, <3>1
  <2>7. assigned[r] = {x.key} /\ r \notin X
    BY <1>6, <1>13 DEF Placed, r
  <2>8. \A k \in live \ {x.key} : ~Applies(k, r)
    BY <2>7 DEF Applies
  <2>9. Y \in SUBSET RuleIds /\ r \in Y /\ \A z \in RuleIds : z # r => (z \in Y <=> z \in X)
    BY <1>6
  <2>10. \E s \in Elems(f) : s.rule = r
    BY <2>3, <2>5
  <2>. HIDE DEF f, Y
  <2>11. \A z \in RuleIds : z # r => table'[z] = table[z] /\ assigned'[z] = assigned[z]
    BY <1>8, <1>13
  <2>12. Elems(f) = Elems(Tail(e)) \cup {Do("delete", r)}
    BY <1>0, <2>5 DEF d
  <2>13. Remains(y, f, last, Y)'
    BY <1>0, <1>removed, <1>13, <2>5, <2>6, <2>8, <2>9, <2>10, <2>11, <2>12
  <2>. QED BY <2>9, <2>13
<1>14. CASE h.do \in {"pin", "assign"}
  <2>1. PICK ks : /\ InsertAssignments(c, h, ks) /\ h.keys = ks /\ ks # {}
                  /\ h.do = "assign" => ks = {x.key}
    <3>1. AssignKeys(c, h)
      BY <1>5, <1>14 DEF Execute
    <3>2. CASE h.do = "assign"
      <4>1. h.keys = {x.key}
        BY <1>6, <3>2 DEF Placed
      <4>. QED BY <3>1, <3>2, <4>1 DEF AssignKeys
    <3>3. CASE h.do = "pin"
      <4>1. h.keys # {}
        BY <1>6, <3>3 DEF Placed
      <4>. QED BY <3>1, <3>3, <4>1 DEF AssignKeys
    <3>. QED BY <1>14, <3>2, <3>3
  <2>2. UNCHANGED table /\ assigned' = [assigned EXCEPT ![r] = @ \cup ks] /\ Advance(c, <<>> \o Tail(x.todo))
    BY <1>7, <2>1 DEF InsertAssignments, r
  <2>3. y.todo = t \o last
    BY <1>5, <1>7, <1>9, <2>2
  <2>4. assigned[r] = {}
    BY <1>6, <1>14 DEF Placed, r
  <2>5. assigned'[r] = ks /\ table'[r] = table[r]
    BY <1>1, <1>6, <2>2, <2>4
  <2>6. \A k : Applies(k, r)' <=> table[r] # NoRule /\ k \in ks
    BY <2>1, <2>5 DEF Applies
  <2>7. CASE h.do = "pin"
    <3>1. live \ {x.key} \subseteq ks /\ x.key \notin ks /\ r \notin X /\ table[r] # NoRule
      BY <1>6, <2>1, <2>7 DEF Placed, r
    <3>2. \A k : Applies(k, r)
      BY <2>4, <3>1 DEF Applies
    <3>. QED BY <1>10, <2>3, <2>5, <2>6, <2>7, <3>1, <3>2
  <2>8. CASE h.do = "assign"
    <3>1. ks = {x.key} /\ x.op = "set" /\ r \in X /\ table[r] = Setting(x)
      BY <1>6, <2>1, <2>8 DEF Placed, r
    <3>2. table[r] # NoRule /\ table[r].level = x.want /\ IsCandidate(x, table[r])
      <4>1. Setting(x) \in RowsHere /\ NoRule \notin RowsHere
        BY <1>1, <3>1, HereIsTyped DEF Setting, Row, RowsHere, Services
      <4>2. Setting(x).service = "drive" /\ Setting(x).level = x.want /\ Setting(x).agent = FALSE
        BY DEF Setting, Row
      <4>3. IsCandidate(x, Setting(x))
        BY <3>1, <4>2 DEF IsCandidate
      <4>. QED BY <3>1, <4>1, <4>2, <4>3
    <3>. DEFINE Y == X \ {r}
    <3>3. Y \in SUBSET RuleIds /\ r \notin Y /\ \A z \in RuleIds : z # r => (z \in Y <=> z \in X)
      OBVIOUS
    <3>. HIDE DEF Y
    <3>. QED BY <1>10, <2>3, <2>5, <2>6, <2>8, <3>1, <3>2, <3>3
  <2>. QED BY <1>14, <2>7, <2>8
<1>. QED BY <1>6, <1>11, <1>12, <1>13, <1>14 DEF Placed

LEMMA RestToAssign ==
  ASSUME NEW a, NEW ks, NEW r
  PROVE  Rest(<<a, Assign("assign", New, ks)>>, r) = <<Assign("assign", r, ks)>>
<1>1. [Assign("assign", New, ks) EXCEPT !.rule = IF @ = New THEN r ELSE @] = Assign("assign", r, ks)
  BY DEF Assign
<1>. QED BY <1>1, RestOfTwo

(* The setting is inserted: until its assignment is, it is global.         *)
LEMMA SettlesInsert ==
  ASSUME Typed, NEW c \in Callers, Execute(c), NEW x, NEW y, x = call[c], y = call'[c],
         x.op = "set", NEW X \in SUBSET RuleIds, NEW last, Remains(x, <<>>, last, X)
  PROVE  \E Y \in SUBSET RuleIds : \E f, l : Remains(y, f, l, Y)'
<1>1. /\ x \in CallRecord /\ x.key \in Keys /\ x.want \in LevelsHere /\ x.stage = "running" /\ x.todo # <<>>
      /\ UNCHANGED <<resource, live>> /\ resource = "file" /\ x.op \in TreeOps
      /\ table \in [RuleIds -> RowsHere \cup {NoRule}] /\ assigned \in [RuleIds -> SUBSET Keys]
  BY DEF Typed, CallOK, Sensible, Meant, KeyOps, FileOps, TreeOps, Execute
<1>. DEFINE put == Insert(Setting(x))
            to == Assign("assign", New, {x.key})
<1>2. last = <<put, to>> /\ x.todo = <<put, to>>
  <2>1. x.todo = <<>> \o last /\ (last = <<>> \/ last = <<put, to>>)
    BY DEF Remains
  <2>2. <<put, to>> \in Seq({put, to})
    OBVIOUS
  <2>3. last \in Seq({put, to})
    BY <2>1, <2>2, EmptySeq
  <2>4. <<>> \o last = last
    BY <2>3, ConcatEmptySeq
  <2>. QED BY <1>1, <2>1, <2>4
<1>3. X = {} /\ OthersHave(x, {}) /\ Leaves(x, {})
  <2>1. OthersHave(x, X) /\ InOrder(x, {}, X) /\ Leaves(x, {})
    BY <1>1, ListOfNone DEF Remains
  <2>2. X = {}
    BY <2>1 DEF InOrder
  <2>. QED BY <2>1, <2>2
<1>4. Head(x.todo) = put /\ put.do = "insert" /\ put.row = Setting(x)
  BY <1>2, HeadsOK DEF Insert
<1>5. PICK r \in Fresh : /\ table' = [table EXCEPT ![r] = Setting(x)] /\ assigned' = [assigned EXCEPT ![r] = {}]
                         /\ Advance(c, Rest(x.todo, r))
  <2>. HIDE DEF put
  <2>1. PICK row : row = Setting(x)
    OBVIOUS
  <2>2. PICK r \in Fresh : /\ table' = [table EXCEPT ![r] = row] /\ assigned' = [assigned EXCEPT ![r] = {}]
                           /\ Advance(c, Rest(x.todo, r))
    BY <1>4, <2>1 DEF Execute, InsertRow, Rest
  <2>. QED BY <2>1, <2>2
<1>6. r \in RuleIds /\ table[r] = NoRule /\ table'[r] = Setting(x) /\ assigned'[r] = {}
  BY <1>1, <1>5 DEF Fresh
<1>7. \A z \in RuleIds : z # r => table'[z] = table[z] /\ assigned'[z] = assigned[z]
  BY <1>1, <1>5
<1>. DEFINE s == Assign("assign", r, {x.key})
            f == <<s>>
            Y == {r}
<1>8. Like(y, x) /\ y.todo = f
  <2>1. PICK ks : ks = {x.key}
    OBVIOUS
  <2>. HIDE DEF put
  <2>2. Rest(<<put, Assign("assign", New, ks)>>, r) = <<Assign("assign", r, ks)>>
    BY RestToAssign
  <2>3. Rest(x.todo, r) = f
    BY <1>2, <2>1, <2>2
  <2>. QED BY <1>5, <2>3, TodoFields DEF Like
<1>9. s \in Statement /\ s.do = "assign" /\ s.rule = r /\ s.keys = {x.key}
  BY <1>1, <1>6, StatementsOK DEF Assign
<1>. HIDE DEF s
<1>10. f \in Seq(Statement) /\ OneEach(f) /\ Elems(f) = {s}
  BY <1>9, ListOfOne
<1>11. f \o <<>> = f
  BY NoneOK
<1>. HIDE DEF put, to, f
<1>12. /\ y.op = x.op /\ y.key = x.key /\ y.want = x.want /\ y.before = x.before /\ Setting(y) = Setting(x)
       /\ \A row : IsCandidate(y, row)' <=> IsCandidate(x, row)
  <2>1. \A row : IsCandidate(y, row) <=> IsCandidate(x, row)
    BY <1>1, <1>8, LikeTree
  <2>2. \A row : IsCandidate(y, row)' <=> IsCandidate(y, row)
    BY <1>1 DEF IsCandidate
  <2>. QED BY <1>8, <2>1, <2>2 DEF Like, Setting
<1>13. \A z \in RuleIds : \A k : z # r => (Applies(k, z)' <=> Applies(k, z))
  BY <1>7 DEF Applies
<1>14. OthersHave(y, Y)'
  <2>2. ASSUME NEW k PROVE View(Y, k)' = View({}, k)
    <3>1. ~Applies(k, r)
      BY <1>6 DEF Applies
    <3>. QED BY <1>7, <1>13, <3>1 DEF View
  <2>3. \A k \in live \ {x.key} : x.before[k] = AccessBy(View({}, k))
    BY <1>3 DEF OthersHave
  <2>4. \A k \in live \ {x.key} : y.before[k] = AccessBy(View(Y, k)')
    BY <1>12, <2>2, <2>3
  <2>. QED BY <1>1, <1>12, <2>4 DEF OthersHave
<1>15. InOrder(y, {s}, Y)'
  <2>1. Placed(y, s, Y)'
    BY <1>6, <1>9, <1>12 DEF Placed
  <2>. QED BY <1>9, <2>1 DEF InOrder
<1>16. Leaves(y, {s})'
  <2>. SUFFICES ASSUME NEW z \in RuleIds, Applies(x.key, z)', IsCandidate(x, table'[z]), z # r
                PROVE  assigned'[z] = {} \/ table'[z].level = x.want
    BY <1>9, <1>12 DEF Leaves
  <2>1. Applies(x.key, z) /\ IsCandidate(x, table[z])
    BY <1>7, <1>13
  <2>. QED BY <1>3, <1>7, <2>1 DEF Leaves
<1>17. Keeps(y, {s})'
  BY <1>9 DEF Keeps
<1>18. Statement' = Statement
  BY <1>1 DEF Statement, RowsHere, LevelsHere
<1>19. Remains(y, f, <<>>, Y)'
  BY <1>8, <1>10, <1>11, <1>14, <1>15, <1>16, <1>17, <1>18 DEF Remains
<1>20. Y \in SUBSET RuleIds
  BY <1>6
<1>. QED BY <1>19, <1>20

LEMMA SettlesExecute ==
  ASSUME Typed, NEW c \in Callers, Execute(c), call[c].op \in TreeOps, Settles(call[c]), call'[c].stage # "failed"
  PROVE  Settles(call[c])'
<1>1. PICK x, y : x = call[c] /\ y = call'[c]
  OBVIOUS
<1>2. PICK X \in SUBSET RuleIds : \E e, last : Remains(x, e, last, X)
  BY <1>1 DEF Settles
<1>3. PICK e, last : Remains(x, e, last, X)
  BY <1>2
<1>4. x.stage = "running" /\ x.todo # <<>> /\ x.op \in TreeOps
  BY <1>1 DEF Execute, Typed, CallOK, Sensible
<1>5. y.stage # "looking"
  <2>1. PICK todo : Advance(c, todo)
    <3>1. PICK todo : Advance(c, todo) \/ (Throw(c) /\ todo = <<>>)
      BY ExecuteStep
    <3>2. ~Throw(c)
      BY DEF Throw, Typed, CallRecord
    <3>. QED BY <3>1, <3>2
  <2>. QED BY <1>1, <2>1, TodoFields
<1>6. \E Y \in SUBSET RuleIds : \E f, l : Remains(y, f, l, Y)'
  <2>1. CASE e # <<>>
    <3>1. \E Y \in SUBSET RuleIds : \E f : Remains(y, f, last, Y)'
      BY <1>1, <1>3, <1>4, <2>1, SettlesStatement
    <3>. QED BY <3>1
  <2>2. CASE e = <<>>
    <3>1. x.op = "set"
      <4>1. last = <<>> => x.todo = <<>>
        BY <1>3, <2>2, NoneOK DEF Remains
      <4>. QED BY <1>3, <1>4, <4>1 DEF Remains
    <3>. QED BY <1>1, <1>3, <2>2, <3>1, SettlesInsert
  <2>. QED BY <2>1, <2>2
<1>7. Settles(y)'
  BY <1>5, <1>6 DEF Settles
<1>. QED BY <1>1, <1>7, SettlesNext

LEMMA NothingLeft ==
  ASSUME NEW x, Settles(x), x.todo = <<>>
  PROVE  /\ OthersHave(x, {})
         /\ x.stage = "done" => Leaves(x, {}) /\ (x.op = "set" => Keeps(x, {}))
<1>1. PICK X \in SUBSET RuleIds : \E e, last : Remains(x, e, last, X)
  BY DEF Settles
<1>2. PICK e, last : Remains(x, e, last, X)
  BY <1>1
<1>. DEFINE a == Insert(Setting(x))
            b == Assign("assign", New, {x.key})
            S == Statement \cup {a, b}
<1>. HIDE DEF a, b
<1>3. e \o last = <<>> /\ e \in Seq(Statement) /\ (last = <<>> \/ last = <<a, b>>)
  BY <1>2 DEF Remains, a, b
<1>4. e \in Seq(S) /\ last \in Seq(S)
  <2>1. e \in Seq(S)
    BY <1>3
  <2>2. <<a, b>> \in Seq(S)
    OBVIOUS
  <2>. QED BY <1>3, <2>1, <2>2, EmptySeq
<1>5. e = <<>> /\ last = <<>>
  <2>. HIDE DEF S
  <2>1. Len(e) \in Nat /\ Len(last) \in Nat /\ Len(e \o last) = Len(e) + Len(last)
    BY <1>4, LenProperties, ConcatProperties
  <2>2. Len(e) = 0 /\ Len(last) = 0
    BY <1>3, <2>1, EmptySeq
  <2>. QED BY <1>4, <2>2, EmptySeq
<1>6. OthersHave(x, X) /\ InOrder(x, {}, X) /\ (x.stage = "done" => Leaves(x, {}) /\ (x.op = "set" => Keeps(x, {})))
  BY <1>2, <1>5, ListOfNone DEF Remains
<1>7. X = {}
  BY <1>6 DEF InOrder
<1>. QED BY <1>6, <1>7

(* A call that has planned nothing yet, while the others have what they    *)
(* had.                                                                    *)
LEMMA SettlesAtFirst ==
  ASSUME NEW x, OthersHave(x, {}), x.todo = <<>>, x.stage \notin {"running", "done"},
         x.stage = "looking" => x.cands = Candidates(x)
  PROVE  Settles(x)
<1>1. InOrder(x, {}, {})
  BY DEF InOrder
<1>2. Remains(x, <<>>, <<>>, {})
  BY <1>1, ListOfNone, NoneOK DEF Remains
<1>. QED BY <1>2 DEF Settles

LEMMA SettlesKept == Typed /\ Alone /\ AllSettle /\ [Next]_vars => AllSettle'
<1>. SUFFICES ASSUME Typed, Alone, AllSettle, [Next]_vars, NEW c \in Callers,
                     call'[c].op \in TreeOps, call'[c].alone, call'[c].stage # "failed"
              PROVE  Settles(call[c])'
  BY DEF AllSettle, TreeOps
<1>0. /\ call \in [Callers -> CallRecord] /\ Idle.op = "none"
      /\ call[c].op \in TreeOps => call[c].stage # "idle" /\ call[c].key \in Keys
  BY DEF Typed, Idle, CallOK, Sensible, Meant, KeyOps, TreeOps
<1>1. ASSUME UNCHANGED <<resource, table, assigned>>, live' \subseteq live, NEW y, y = call'[c], Settles(y)
      PROVE  Settles(call[c])'
  BY <1>1, SettlesUnmoved, SettlesNext
<1>2. ASSUME UNCHANGED <<resource, table, assigned>>, live' \subseteq live, call'[c] = call[c]
      PROVE  Settles(call[c])'
  <2>1. PICK y : y = call'[c]
    OBVIOUS
  <2>. QED BY <1>1, <1>2, <2>1 DEF AllSettle
<1>3. ASSUME NEW b \in Callers, b # c, call[b].stage # "idle" PROVE ~(call'[c] = call[c])
  <2>. SUFFICES ASSUME call'[c] = call[c] PROVE FALSE
    OBVIOUS
  <2>. QED BY <1>0, <1>3 DEF Alone, Lone
<1>4. ASSUME NEW b \in Callers, Begin(b) PROVE Settles(call[c])'
  <2>1. PICK op, key, want, rule, ks : Offered(op, key, want, rule, ks) /\ Start(b, op, key, want, rule, ks)
    BY <1>4, BeginStep DEF Opens
  <2>2. PICK y \in CallRecord :
          /\ CallOK(y) /\ StartsAs(b, y) /\ UNCHANGED <<resource, table, assigned, live>>
          /\ y.op = op /\ y.before = Access /\ (op \notin {"create", "created"} => y.stage = "reading")
    BY <2>1, StartStep DEF Offered
  <2>3. c = b
    <3>. SUFFICES ASSUME c # b PROVE FALSE
      OBVIOUS
    <3>1. call'[c] = [call[c] EXCEPT !.alone = FALSE] /\ call[c] \in CallRecord
      BY <1>0, <2>2 DEF StartsAs
    <3>. QED BY <3>1 DEF CallRecord
  <2>4. call'[c] = y
    BY <2>2, <2>3 DEF StartsAs
  <2>5. y.op \in TreeOps /\ y.stage = "reading" /\ y.todo = <<>>
    BY <2>2, <2>4 DEF CallOK, Sensible, TreeOps
  <2>6. OthersHave(y, {})
    <3>1. \A k \in live : k \in Keys /\ y.before[k] = Access[k]
      BY <2>2 DEF Typed
    <3>. QED BY <3>1, AccessByView DEF OthersHave
  <2>7. Settles(y)
    BY <2>5, <2>6, SettlesAtFirst
  <2>. QED BY <1>1, <2>2, <2>4, <2>7
<1>5. ASSUME NEW b \in Callers, b # c, Read(b) \/ Look(b) \/ Execute(b) PROVE Settles(call[c])'
  BY <1>5, <1>3, Continued
<1>6. ASSUME NEW b \in Callers, Return(b) \/ Crash(b) PROVE Settles(call[c])'
  <2>1. CASE b = c
    <3>1. call'[c] = Idle
      BY <1>0, <1>6, <2>1 DEF Return, Crash
    <3>. QED BY <1>0, <3>1 DEF TreeOps
  <2>2. CASE b # c
    BY <1>0, <1>6, <1>3, <2>2 DEF Return, Crash
  <2>. QED BY <2>1, <2>2
<1>7. ASSUME Read(c) \/ Look(c)
      PROVE  /\ call[c].op \in TreeOps /\ UNCHANGED <<resource, table, assigned, live>>
             /\ call[c].todo = <<>> /\ OthersHave(call[c], {})
             /\ call[c].stage = "looking" => call[c].cands = Candidates(call[c])
  <2>1. /\ call[c].op \in TreeOps /\ call[c].alone /\ UNCHANGED <<resource, table, assigned, live>>
        /\ call[c].stage \in {"reading", "looking"}
    BY <1>7, Continued DEF Read, Look
  <2>2. Settles(call[c]) /\ call[c].todo = <<>>
    BY <2>1 DEF AllSettle, Typed, CallOK, Sensible
  <2>3. PICK x : x = call[c]
    OBVIOUS
  <2>4. OthersHave(x, {})
    BY <2>2, <2>3, NothingLeft
  <2>. QED BY <2>1, <2>2, <2>3, <2>4 DEF Settles
<1>8. ASSUME NEW x, SameCall(x, c), UNCHANGED <<resource, table, assigned, live>>, call[c].op \in TreeOps,
             OthersHave(call[c], {}), x.cands = Candidates(call[c]), Seen(x) = x.cands,
             \A r \in Seen(x) : x.seen[r] = assigned[r], call'[c] \in Planned(x)
      PROVE  Settles(call[c])'
  <2>1. Like(x, call[c]) /\ Sensible(x) /\ x.op \in TreeOps
    BY <1>8 DEF SameCall, Like
  <2>2. OthersHave(x, {}) /\ x.cands = Candidates(x)
    BY <1>8, <2>1, LikeTree
  <2>3. PICK y \in Planned(x) : y = call'[c]
    BY <1>8
  <2>4. Settles(y)
    BY <1>8, <2>1, <2>2, PlansSettle
  <2>. QED BY <1>1, <1>8, <2>3, <2>4
<1>9. ASSUME Read(c) PROVE Settles(call[c])'
  <2>0. /\ call[c].op \in TreeOps /\ UNCHANGED <<resource, table, assigned, live>>
        /\ call[c].todo = <<>> /\ OthersHave(call[c], {})
    BY <1>7, <1>9
  <2>1. call[c].stage = "reading" /\ DOMAIN call[c].seen = {}
    BY <1>9 DEF Read, Typed, CallOK, Sensible
  <2>2. PICK cands \in SUBSET RuleIds :
          /\ cands = Candidates(call[c])
          /\ \/ cands # {} /\ call'[c] = [Finding(c, cands) EXCEPT !.stage = "looking"]
             \/ cands = {} /\ call'[c] \in Planned(Finding(c, cands))
    <3>1. call[c].op # "expose"
      BY <2>0 DEF TreeOps
    <3>2. PICK cands \in SUBSET RuleIds :
            /\ cands = Candidates(call[c])
            /\ \E y : /\ call' = [call EXCEPT ![c] = y]
                      /\ IF call[c].op \in TreeOps \cup {"anyone", "approve"} /\ cands # {}
                         THEN y = [Finding(c, cands) EXCEPT !.stage = "looking"]
                         ELSE y \in Planned(Finding(c, cands))
      BY <1>9, <3>1, ReadStep
    <3>3. PICK y : /\ call' = [call EXCEPT ![c] = y]
                   /\ IF cands # {} THEN y = [Finding(c, cands) EXCEPT !.stage = "looking"]
                      ELSE y \in Planned(Finding(c, cands))
      BY <2>0, <3>2
    <3>4. call'[c] = y
      BY <1>0, <3>3
    <3>. QED BY <3>2, <3>3, <3>4
  <2>. DEFINE x == Finding(c, cands)
  <2>3. SameCall(x, c) /\ x.cands = cands /\ x.seen = call[c].seen
    BY <2>1, FindingOK
  <2>4. CASE cands = {} /\ call'[c] \in Planned(x)
    <3>1. Seen(x) = {}
      BY <2>1, <2>3 DEF Seen
    <3>. HIDE DEF x
    <3>. QED BY <1>8, <2>0, <2>2, <2>3, <2>4, <3>1
  <2>5. CASE call'[c] = [x EXCEPT !.stage = "looking"]
    <3>1. PICK y : y = call'[c]
      OBVIOUS
    <3>2. x \in CallRecord /\ x.todo = <<>> /\ Like(x, call[c])
      BY <2>0, <2>3 DEF SameCall, Like
    <3>. HIDE DEF x
    <3>3. y.stage = "looking" /\ y.todo = <<>> /\ y.cands = cands /\ Like(y, x)
      BY <2>3, <2>5, <3>1, <3>2 DEF CallRecord, Like
    <3>4. Like(y, call[c])
      BY <3>2, <3>3 DEF Like
    <3>5. OthersHave(y, {}) /\ y.cands = Candidates(y)
      BY <2>0, <2>2, <3>3, <3>4, LikeTree
    <3>6. Settles(y)
      BY <3>3, <3>5, SettlesAtFirst
    <3>. QED BY <1>1, <2>0, <3>1, <3>6
  <2>. QED BY <2>2, <2>4, <2>5
<1>10. ASSUME Look(c) PROVE Settles(call[c])'
  <2>0. /\ call[c].op \in TreeOps /\ UNCHANGED <<resource, table, assigned, live>>
        /\ OthersHave(call[c], {}) /\ call[c].stage = "looking" /\ call[c].cands = Candidates(call[c])
    BY <1>7, <1>10 DEF Look
  <2>. DEFINE rs == call[c].cands
              x == Seeing(c, rs)
  <2>1. DOMAIN call[c].seen \subseteq rs
    BY DEF Typed, CallOK, Sensible
  <2>2. /\ SameCall(x, c) /\ x.cands = rs /\ Seen(x) = Seen(call[c]) \cup rs
        /\ \A r \in Seen(call[c]) \cup rs : x.seen[r] = IF r \in rs THEN assigned[r] ELSE call[c].seen[r]
    BY <2>0, SeeingOK
  <2>3. Seen(x) = rs
    BY <2>1, <2>2 DEF Seen
  <2>4. call'[c] \in Planned(x)
    <3>1. PICK ss \in SUBSET call[c].cands :
            /\ call[c].op \in TreeOps => ss = call[c].cands
            /\ \E y \in {Seeing(c, ss)} \cup Planned(Seeing(c, ss)) :
                 /\ call' = [call EXCEPT ![c] = y]
                 /\ IF \/ Seen(Seeing(c, ss)) = call[c].cands
                       \/ call[c].op \notin TreeOps /\ Covered(Seeing(c, ss))
                    THEN y \in Planned(Seeing(c, ss)) ELSE y = Seeing(c, ss)
      BY <1>10, LookStep
    <3>2. ss = rs
      BY <2>0, <3>1
    <3>3. PICK y : call' = [call EXCEPT ![c] = y] /\ (Seen(x) = rs => y \in Planned(x))
      BY <3>1, <3>2
    <3>. HIDE DEF x
    <3>. QED BY <1>0, <2>3, <3>3
  <2>. HIDE DEF x
  <2>5. \A r \in Seen(x) : x.seen[r] = assigned[r]
    BY <2>2, <2>3
  <2>. QED BY <1>8, <2>0, <2>2, <2>3, <2>4, <2>5
<1>11. ASSUME Execute(c) PROVE Settles(call[c])'
  <2>1. call[c].op \in TreeOps /\ call[c].alone /\ call[c].stage = "running"
    BY <1>11, Continued DEF Execute
  <2>2. Settles(call[c])
    BY <2>1 DEF AllSettle
  <2>. QED BY <1>11, <2>1, <2>2, SettlesExecute
<1>12. ASSUME NEW k \in Keys, RevokeKey(k) PROVE Settles(call[c])'
  BY <1>2, <1>12 DEF RevokeKey
<1>13. CASE UNCHANGED vars
  BY <1>2, <1>13 DEF vars
<1>. QED BY <1>4, <1>5, <1>6, <1>9, <1>10, <1>11, <1>12, <1>13 DEF Next

LEMMA InitSettles == Init => AllSettle
<1>. SUFFICES ASSUME Init PROVE AllSettle
  OBVIOUS
<1>1. \A c \in Callers : call[c].op \in {"none", "created"}
  <2>1. CASE call = [c \in Callers |-> Idle]
    BY <2>1 DEF Idle
  <2>2. ASSUME NEW c \in Callers, NEW k \in Keys, NEW row \in {Row("file", "write", TRUE), Row("drive", "write", TRUE)},
               NEW y \in Planned([Idle EXCEPT !.op = "created", !.key = k, !.want = row, !.before = Access]),
               resource = "file", call = [d \in Callers |-> IF d = c THEN y ELSE Idle]
        PROVE  \A d \in Callers : call[d].op \in {"none", "created"}
    <3>0. Granting(y, k, row)
      BY <2>2, CreatedOK
    <3>1. y.op = "created"
      BY <3>0 DEF Granting
    <3>. QED BY <2>2, <3>1 DEF Idle
  <2>. QED BY <2>1, <2>2 DEF Init
<1>. QED BY <1>1 DEF AllSettle, TreeOps

(* A tree setting that is done.                                            *)
LEMMA SettledCall ==
  ASSUME Typed, AllSettle, NEW c \in Completed(TreeOps)
  PROVE  \E x : x = call[c] /\ OthersHave(x, {}) /\ Leaves(x, {}) /\ (x.op = "set" => Keeps(x, {}))
<1>1. c \in Callers /\ call[c].op \in TreeOps /\ call[c].stage = "done" /\ call[c].alone
  BY DEF Completed
<1>2. Settles(call[c]) /\ call[c].todo = <<>>
  BY <1>1 DEF AllSettle, Typed, CallOK, Sensible
<1>3. PICK x : x = call[c]
  OBVIOUS
<1>. QED BY <1>1, <1>2, <1>3, NothingLeft

LEMMA OthersHaveTheirs == Typed /\ AllSettle => OthersUntouched
<1>. SUFFICES ASSUME Typed, AllSettle, NEW c \in Completed(TreeOps), NEW k \in live \ {call[c].key}
              PROVE  Access[k] = call[c].before[k]
  BY DEF OthersUntouched
<1>1. PICK x : x = call[c] /\ OthersHave(x, {})
  BY SettledCall
<1>2. k \in Keys
  BY DEF Typed
<1>. QED BY <1>1, <1>2, AccessByView DEF OthersHave

LEMMA SettledDecides == Typed /\ AllSettle => SettingDecides
<1>. SUFFICES ASSUME Typed, AllSettle PROVE SettingDecides
  OBVIOUS
<1>1. ASSUME NEW c \in Completed({"set"}),
             \A r \in Existing : table[r].service = "drive" => table[r].agent \/ assigned[r] # {}
      PROVE  TreeAccess(call[c].key) = call[c].want
  <2>1. PICK x : x = call[c] /\ Leaves(x, {}) /\ (x.op = "set" => Keeps(x, {}))
    <3>1. c \in Completed(TreeOps)
      BY <1>1 DEF Completed, TreeOps
    <3>. QED BY <3>1, SettledCall
  <2>. DEFINE k == x.key
              U == {row \in RowsFor(k, "drive") : ~row.agent}
  <2>2. x.op = "set" /\ x.want \in {"read", "write", "block"}
    BY <1>1, <2>1 DEF Completed, Typed, CallOK, Sensible, Meant, FileOps, LevelsHere, Levels
  <2>3. \A row : IsCandidate(x, row) <=> row.service = "drive" /\ ~row.agent
    BY <2>2 DEF IsCandidate
  <2>4. PICK r \in RuleIds : Applies(k, r) /\ IsCandidate(x, table[r]) /\ table[r].level = x.want
    BY <2>1, <2>2 DEF Keeps
  <2>5. table[r] \in U /\ table[r].level = x.want
    BY <2>3, <2>4 DEF RowsFor
  <2>6. ASSUME NEW row \in U PROVE row.level = x.want
    <3>1. PICK z \in RuleIds : Applies(k, z) /\ table[z].service = "drive" /\ table[z] = row /\ ~row.agent
      BY <2>6 DEF RowsFor
    <3>2. assigned[z] = {} \/ table[z].level = x.want
      BY <2>1, <2>3, <3>1 DEF Leaves
    <3>3. assigned[z] # {}
      BY <1>1, <3>1 DEF Existing, Applies
    <3>. QED BY <3>1, <3>2, <3>3
  <2>7. Deciding(k) = U /\ U # {}
    BY <2>5 DEF Deciding
  <2>8. {row.level : row \in U} = {x.want}
    BY <2>5, <2>6
  <2>9. TreeAccess(k) = Combine({x.want})
    BY <2>7, <2>8 DEF TreeAccess
  <2>. QED BY <2>1, <2>2, <2>9 DEF Combine
<1>2. ASSUME NEW c \in Completed({"inherit"}), NEW row \in Deciding(call[c].key) PROVE row.agent
  <2>1. PICK x : x = call[c] /\ Leaves(x, {})
    <3>1. c \in Completed(TreeOps)
      BY <1>2 DEF Completed, TreeOps
    <3>. QED BY <3>1, SettledCall
  <2>2. x.op = "inherit"
    BY <1>2, <2>1 DEF Completed
  <2>3. PICK r \in RuleIds : Applies(x.key, r) /\ table[r] = row /\ row.service \in {"drive", "file"}
    <3>1. row \in RowsFor(x.key, "drive") \/ row \in RowsFor(x.key, "file")
      BY <1>2, <2>1 DEF Deciding
    <3>. QED BY <3>1 DEF RowsFor
  <2>4. ~IsCandidate(x, table[r])
    BY <2>1, <2>2, <2>3 DEF Leaves
  <2>5. table[r].agent
    BY <2>2, <2>3, <2>4 DEF IsCandidate
  <2>. QED BY <2>3, <2>5
<1>. QED BY <1>1, <1>2 DEF SettingDecides

(* Setting, inheriting or clearing one profile's access to a node (the     *)
(* tree's actions, actions.ts:1590) leaves every other live profile with   *)
(* the access it had, whatever rules it shares with it, when no other call *)
(* ran beside.                                                             *)
THEOREM OthersStayUntouched == Spec => []OthersUntouched
<1>. DEFINE Inv == Typed /\ Alone /\ AllSettle
<1>1. Init => Inv
  BY InitOK, InitWidens, InitSettles
<1>2. Inv /\ [Next]_vars => Inv'
  BY TypedKept, AloneKept, SettlesKept
<1>3. Inv => OthersUntouched
  BY OthersHaveTheirs
<1>. QED BY <1>1, <1>2, <1>3, PTL DEF Spec

(* And for that profile the node is then what it was set to, unless a tree *)
(* setting on it is global; after inherit only the agent's own grants are  *)
(* left to decide, whatever mix of rules there was.                        *)
THEOREM SettingsDecide == Spec => []SettingDecides
<1>. DEFINE Inv == Typed /\ Alone /\ AllSettle
<1>1. Init => Inv
  BY InitOK, InitWidens, InitSettles
<1>2. Inv /\ [Next]_vars => Inv'
  BY TypedKept, AloneKept, SettlesKept
<1>3. Inv => SettingDecides
  BY SettledDecides
<1>. QED BY <1>1, <1>2, <1>3, PTL DEF Spec
------------------------------------------------------------------------------
(* Requests, while the tables are written.  What is asked of the plans is  *)
(* a matter of the constants and of the classifier alone, and of no        *)
(* behaviour; TLC checks it of every call there is (ArrivalsCovered).      *)
PlansCover == \A w \in Scenario : \A r \in Arriving[w] : Covers(r)
------------------------------------------------------------------------------
Fields == {"stage", "plan", "check", "effect", "needed", "key", "hard", "rules", "own", "everyone", "open", "touched"}

(* What the check will judge by: the tables as they are, where it was read *)
(* already.                                                                *)
Snapshots(q, tbl, asg) ==
  \A i \in DOMAIN q.plan : q.plan[i] = "check" =>
    /\ Before("rules", q.plan, i) \/ q.rules = tbl
    /\ Before("own", q.plan, i) \/ q.own = {r \in RuleIds : q.key \in asg[r]}
    /\ Before("everyone", q.plan, i) \/ q.everyone = {r \in RuleIds : asg[r] # {}}
(* The facts that must have held; the rules only if none were written      *)
(* since the request came.                                                 *)
Due(q) == q.needed \ (IF q.touched THEN {"rules"} ELSE {})

GoingOK(q, tbl, asg) ==
  /\ PlanShape(q.plan) /\ q.effect # "never"
  /\ q.key = NoKey <=> q.plan[1] = "connection"
  /\ q.key = NoKey => q.open = {} /\ \A i \in DOMAIN q.plan : q.plan[i] = "check" => Before("own", q.plan, i)
  /\ q.key \in Keys \cup {NoKey} /\ q.open \subseteq Facts /\ q.needed \subseteq Facts
  /\ ~q.touched => Snapshots(q, tbl, asg)
  /\ \A f \in Due(q) : f \in q.open \/ StillRead(f, q.plan)
  /\ "rules" \in q.needed => Judges(q.check, q.effect)

LEMMA TailShape ==
  ASSUME NEW plan, PlanShape(plan), plan[1] # "serve"
  PROVE  /\ PlanShape(Tail(plan))
         /\ Len(Tail(plan)) = Len(plan) - 1 /\ Len(plan) > 1
         /\ DOMAIN Tail(plan) = 1..(Len(plan) - 1)
         /\ \A i \in DOMAIN Tail(plan) : Tail(plan)[i] = plan[i + 1] /\ i + 1 \in DOMAIN plan
         /\ Tail(plan)[1] # "connection"
<1> DEFINE t == Tail(plan)
<1>1. plan \in Seq(STRING) /\ Len(plan) \in Nat /\ DOMAIN plan = 1..Len(plan) /\ Len(plan) >= 1
  BY DEF PlanShape
<1>2. Len(plan) > 1
  BY <1>1 DEF PlanShape
<1>3. t \in Seq(STRING) /\ Len(t) = Len(plan) - 1 /\ DOMAIN t = 1..(Len(plan) - 1) /\ \A i \in 1..(Len(plan) - 1) : t[i] = plan[i + 1]
  BY <1>1, <1>2
<1>4. ASSUME NEW i \in 1..Len(t)
      PROVE  /\ i + 1 \in 1..Len(plan) /\ t[i] = plan[i + 1]
             /\ t[i] = "serve" <=> i = Len(t)
             /\ t[i] # "connection"
             /\ t[i] = "check" => ~Before("check", t, i)
  <2>1. i + 1 \in 1..Len(plan) /\ t[i] = plan[i + 1]
    BY <1>1, <1>2, <1>3
  <2>2. plan[i + 1] = "serve" <=> i + 1 = Len(plan)
    BY <2>1, <1>1 DEF PlanShape
  <2>3. plan[i + 1] # "connection"
    BY <2>1, <1>1 DEF PlanShape
  <2>4. ASSUME t[i] = "check", Before("check", t, i)
        PROVE  FALSE
    <3>1. PICK j \in 1..(i - 1) : t[j] = "check"
      BY <2>4 DEF Before
    <3>2. j + 1 \in 1..((i + 1) - 1) /\ plan[j + 1] = "check"
      BY <3>1, <1>3
    <3>3. ~Before("check", plan, i + 1)
      BY <2>1, <2>4, <1>1 DEF PlanShape
    <3>4. QED
      BY <3>2, <3>3 DEF Before
  <2> HIDE DEF t
  <2>5. QED
    <3>1. t[i] = "serve" <=> i = Len(t)
      <4>1. i \in Nat /\ Len(t) = Len(plan) - 1
        BY <1>1, <1>3
      <4>2. i + 1 = Len(plan) <=> i = Len(t)
        BY <4>1, <1>1
      <4>3. QED
        BY <4>2, <2>1, <2>2
    <3>2. QED
      BY <2>1, <2>3, <2>4, <3>1
<1>5. t # <<>>
  <2>1. Len(t) > 0
    BY <1>1, <1>2, <1>3
  <2> HIDE DEF t
  <2>2. QED
    BY <2>1
<1>6. PlanShape(t)
  BY <1>1, <1>2, <1>3, <1>4, <1>5 DEF PlanShape
<1>7. t[1] # "connection"
  <2>1. 1 \in 1..Len(t)
    BY <1>1, <1>2, <1>3
  <2>2. QED
    BY <2>1, <1>4
<1>8. QED
  BY <1>1, <1>2, <1>3, <1>4, <1>6, <1>7

(* What a passed step leaves of a request in progress.                     *)
LEMMA PassedStep ==
  ASSUME NEW q, NEW p, NEW tbl, NEW asg, GoingOK(q, tbl, asg), q.plan[1] # "serve",
         p.plan = Tail(q.plan), p.effect = q.effect, p.needed = q.needed, p.check = q.check,
         p.touched = q.touched, p.key \in Keys, q.key = NoKey \/ q.key = p.key,
         q.open \subseteq p.open, p.open \subseteq Facts,
         \A f \in Due(q) \cap Reads(q.plan[1]) : f \in p.open,
         q.plan[1] # "check" =>
           /\ IF q.plan[1] = "rules" THEN p.rules = tbl ELSE p.rules = q.rules
           /\ IF q.plan[1] = "own" THEN p.own = {r \in RuleIds : q.key \in asg[r]} ELSE p.own = q.own
           /\ IF q.plan[1] = "everyone" THEN p.everyone = {r \in RuleIds : asg[r] # {}} ELSE p.everyone = q.everyone
  PROVE  GoingOK(p, tbl, asg)
<1> DEFINE plan == q.plan
           t == Tail(plan)
<1>1. PlanShape(plan) /\ plan[1] # "serve"
  BY DEF GoingOK
<1>2. /\ PlanShape(t) /\ Len(t) = Len(plan) - 1 /\ Len(plan) > 1 /\ DOMAIN t = 1..(Len(plan) - 1)
      /\ \A i \in DOMAIN t : t[i] = plan[i + 1] /\ i + 1 \in DOMAIN plan
      /\ t[1] # "connection"
  BY <1>1, TailShape
<1>3. plan \in Seq(STRING) /\ Len(plan) \in Nat /\ DOMAIN plan = 1..Len(plan)
  BY <1>1 DEF PlanShape
<1>4. ASSUME NEW i \in DOMAIN t, NEW step, Before(step, plan, i + 1), plan[1] # step
      PROVE  Before(step, t, i)
  <2>1. PICK j \in 1..((i + 1) - 1) : plan[j] = step
    BY <1>4 DEF Before
  <2>2. i \in Nat
    BY <1>2, <1>3
  <2>3. j # 1 /\ j - 1 \in 1..(i - 1) /\ j - 1 \in DOMAIN t /\ t[j - 1] = plan[(j - 1) + 1]
    BY <2>1, <2>2, <1>2, <1>3, <1>4
  <2>4. QED
    BY <2>1, <2>3 DEF Before
<1>5. ASSUME ~q.touched
      PROVE  Snapshots(p, tbl, asg)
  <2>1. Snapshots(q, tbl, asg)
    BY <1>5 DEF GoingOK
  <2>2. ASSUME NEW i \in DOMAIN t, t[i] = "check"
        PROVE  /\ Before("rules", t, i) \/ p.rules = tbl
               /\ Before("own", t, i) \/ p.own = {r \in RuleIds : p.key \in asg[r]}
               /\ Before("everyone", t, i) \/ p.everyone = {r \in RuleIds : asg[r] # {}}
    <3>1. i + 1 \in DOMAIN plan /\ plan[i + 1] = "check"
      BY <2>2, <1>2
    <3>2. plan[1] # "check"
      <4>1. ~Before("check", plan, i + 1)
        BY <3>1, <1>1 DEF PlanShape
      <4>2. 1 \in 1..((i + 1) - 1)
        BY <1>2, <1>3
      <4>3. QED
        BY <4>1, <4>2 DEF Before
    <3>3. /\ Before("rules", plan, i + 1) \/ q.rules = tbl
          /\ Before("own", plan, i + 1) \/ q.own = {r \in RuleIds : q.key \in asg[r]}
          /\ Before("everyone", plan, i + 1) \/ q.everyone = {r \in RuleIds : asg[r] # {}}
      BY <2>1, <3>1 DEF Snapshots
    <3>4. Before("rules", t, i) \/ p.rules = tbl
      BY <3>2, <3>3, <1>4, <2>2
    <3>5. Before("everyone", t, i) \/ p.everyone = {r \in RuleIds : asg[r] # {}}
      BY <3>2, <3>3, <1>4, <2>2
    <3>6. Before("own", t, i) \/ p.own = {r \in RuleIds : p.key \in asg[r]}
      <4>1. CASE q.key = NoKey
        <5>1. plan[1] = "connection" /\ Before("own", plan, i + 1)
          BY <4>1, <3>1 DEF GoingOK
        <5>2. QED
          BY <5>1, <1>4, <2>2
      <4>2. CASE q.key = p.key
        BY <4>2, <3>2, <3>3, <1>4, <2>2
      <4>3. QED
        BY <4>1, <4>2
    <3>7. QED
      BY <3>4, <3>5, <3>6
  <2>3. QED
    BY <2>2 DEF Snapshots
<1>6. ASSUME NEW f \in Due(p)
      PROVE  f \in p.open \/ StillRead(f, t)
  <2>1. f \in Due(q)
    BY <1>6 DEF Due
  <2>2. CASE f \in q.open \/ f \in Reads(plan[1])
    BY <2>1, <2>2
  <2>3. CASE f \notin q.open /\ f \notin Reads(plan[1])
    <3>1. PICK i \in DOMAIN plan : f \in Reads(plan[i])
      BY <2>1, <2>3 DEF GoingOK, StillRead
    <3>2. i # 1 /\ i - 1 \in DOMAIN t /\ t[i - 1] = plan[(i - 1) + 1]
      BY <3>1, <2>3, <1>2, <1>3
    <3>3. QED
      BY <3>1, <3>2, <1>3 DEF StillRead
  <2>4. QED
    BY <2>2, <2>3
<1>7. p.key # NoKey
  BY DefaultIsAKey
<1>8. p.needed \subseteq Facts /\ p.effect # "never" /\ ("rules" \in p.needed => Judges(p.check, p.effect))
  BY DEF GoingOK
<1> HIDE DEF t
<1>9. p.plan = t
  BY DEF t
<1>10. QED
  BY <1>2, <1>5, <1>6, <1>7, <1>8, <1>9 DEF GoingOK
------------------------------------------------------------------------------
AccessInv == AccessTypeOK /\ (delegation = "none" => \A k \in Keys : Later("insert", k) \notin pending)

DeniedRightly(q) == ~q.touched => ~RulesAllow(q.key, q.check, q.hard) \/ q.check # q.effect

RequestOK ==
  /\ DOMAIN request = Fields
  /\ request.stage \in {"idle", "going", "served", "refused", "denied"}
  /\ request.key \in Keys \cup {NoKey} /\ request.open \subseteq Facts
  /\ request.stage = "idle" => request = NoRequest
  /\ request.stage = "going" => GoingOK(request, table, assigned)
  /\ request.stage = "served" => request.effect # "never" /\ Due(request) \subseteq request.open /\ request.key # NoKey
  /\ request.stage = "denied" => DeniedRightly(request) /\ request.key # NoKey
GateInv == AccessInv /\ world \in Scenario /\ RequestOK

LEMMA AccessStart == GateInit => AccessInv
<1> SUFFICES ASSUME GateInit PROVE AccessInv
  OBVIOUS
<1>1. Default \in Keys /\ NoKey \notin Keys
  BY DefaultIsAKey
<1>2. /\ connection \in [status : {"none", "pending", "approved", "blocked"}, key : Keys \cup {NoKey}]
      /\ connection.status = "approved" <=> connection.key \in Keys
      /\ current \in SUBSET Keys /\ temporary \in [Keys -> {"none", "live", "dead"}]
  BY <1>1 DEF GateInit, CredentialsInit, CredentialsOpen, Connection
<1>3. delegation \in {"none", "active", "revoked"} /\ rows \in SUBSET Keys /\ (delegation = "none" => rows = {})
  BY DEF GateInit, MailboxesInit, MailboxesOpen
<1>4. pending = {}
  BY DEF GateInit
<1>5. QED
  BY <1>2, <1>3, <1>4 DEF AccessInv, AccessTypeOK

LEMMA LaterDiffer ==
  /\ \A k \in Keys : \A do \in {"sync", "attach", "insert", "approve"} : Later(do, k) \in Laters
  /\ Later("teardown", NoKey) \in Laters
  /\ \A do, k, other, l : Later(do, k) = Later(other, l) <=> do = other /\ k = l
BY DEF Later, Laters

LEMMA AccessWritten ==
  ASSUME AccessInv,
         \/ (FirstUse /\ UNCHANGED <<current, temporary, delegation, rows, pending>>)
         \/ MailboxesNext \/ CredentialsNext \/ (\E s \in pending : Abandon(s)) \/ (\E k \in Keys : EndProfile(k))
         \/ UNCHANGED access
  PROVE  AccessInv'
<1> USE DefaultIsAKey DEF AccessInv, AccessTypeOK
<1> DEFINE Conn == /\ connection' \in [status : {"none", "pending", "approved", "blocked"}, key : Keys \cup {NoKey}]
                   /\ connection'.status = "approved" <=> connection'.key \in Keys
           Creds == current' \in SUBSET Keys /\ temporary' \in [Keys -> {"none", "live", "dead"}]
           Boxes == /\ delegation' \in {"none", "active", "revoked"} /\ rows' \in SUBSET Keys
                    /\ delegation' = "none" => rows' = {}
           Pend == pending' \in SUBSET Laters /\ (delegation' = "none" => \A k \in Keys : Later("insert", k) \notin pending')
<1>0. SUFFICES Conn /\ Creds /\ Boxes /\ Pend
  OBVIOUS
<1>a. ASSUME NEW status \in {"none", "pending", "approved", "blocked"}, NEW key \in Keys \cup {NoKey},
             connection' = Connection(status, key), status = "approved" <=> key \in Keys
      PROVE  Conn
  BY <1>a DEF Connection
<1>b. ASSUME UNCHANGED connection PROVE Conn
  BY <1>b
<1>c. ASSUME UNCHANGED <<current, temporary>> PROVE Creds
  BY <1>c
<1>d. ASSUME UNCHANGED <<delegation, rows>> PROVE Boxes
  BY <1>d
<1>e. ASSUME UNCHANGED delegation, NEW others, pending' \subseteq pending \cup others, others \subseteq Laters,
             delegation = "none" => \A k \in Keys : Later("insert", k) \notin others
      PROVE  Pend
  BY <1>e
<1>f. ASSUME UNCHANGED <<delegation, pending>> PROVE Pend
  BY <1>f
<1> HIDE DEF Conn, Creds, Boxes, Pend
<1>1. CASE FirstUse /\ UNCHANGED <<current, temporary, delegation, rows, pending>>
  BY <1>1, <1>a, <1>c, <1>d, <1>f DEF FirstUse
<1>2. CASE CredentialsNext
  <2>1. CASE Block
    BY <2>1, <1>a, <1>c, <1>d, <1>f DEF Block
  <2>2. ASSUME NEW k \in Keys, AttachConnection(k)
        PROVE  Conn /\ Creds /\ Boxes /\ Pend
    BY <2>2, <1>b, <1>c, <1>d, <1>e, LaterDiffer DEF AttachConnection, Leave
  <2>3. ASSUME NEW k \in Keys, UpdateConnection(k)
        PROVE  Conn /\ Creds /\ Boxes /\ Pend
    BY <2>3, <1>a, <1>c, <1>d, <1>e DEF UpdateConnection, Resume
  <2>4. ASSUME NEW k \in Keys, Rotate(k)
        PROVE  Conn /\ Creds /\ Boxes /\ Pend
    <3>1. Creds
      BY <2>4 DEF Rotate, Creds
    <3>2. QED
      BY <2>4, <3>1, <1>b, <1>d, <1>f DEF Rotate
  <2>5. ASSUME NEW k \in Keys, MintTemporary(k) \/ EndTemporary(k)
        PROVE  Conn /\ Creds /\ Boxes /\ Pend
    <3>1. Creds
      BY <2>5 DEF MintTemporary, EndTemporary, Creds
    <3>2. QED
      BY <2>5, <3>1, <1>b, <1>d, <1>f DEF MintTemporary, EndTemporary
  <2>6. QED
    BY <1>2, <2>1, <2>2, <2>3, <2>4, <2>5 DEF CredentialsNext
<1>3. CASE MailboxesNext
  <2>1. CASE Grant
    BY <2>1, <1>b, <1>c, LaterDiffer DEF Grant, Leave, Boxes, Pend
  <2>2. CASE Sync
    BY <2>2, <1>b, <1>c, <1>d, <1>e, LaterDiffer DEF Sync, Resume
  <2>3. CASE Revoke
    BY <2>3, <1>b, <1>c, LaterDiffer DEF Revoke, Leave, Boxes, Pend
  <2>4. CASE Teardown
    BY <2>4, <1>b, <1>c, <1>e DEF Teardown, Resume, Boxes
  <2>5. ASSUME NEW k \in Keys, AddMailbox(k)
        PROVE  Conn /\ Creds /\ Boxes /\ Pend
    BY <2>5, <1>b, <1>c, <1>d, <1>e, LaterDiffer DEF AddMailbox, Leave
  <2>6. ASSUME NEW k \in Keys, LookForDelegation(k)
        PROVE  Conn /\ Creds /\ Boxes /\ Pend
    BY <2>6, <1>b, <1>c, <1>d, <1>e, LaterDiffer DEF LookForDelegation, Resume
  <2>7. ASSUME NEW k \in Keys, InsertRowOf(k)
        PROVE  Conn /\ Creds /\ Boxes /\ Pend
    BY <2>7, <1>b, <1>c, <1>e DEF InsertRowOf, Resume, Boxes
  <2>8. QED
    BY <1>3, <2>1, <2>2, <2>3, <2>4, <2>5, <2>6, <2>7 DEF MailboxesNext
<1>4. ASSUME NEW s \in pending, Abandon(s)
      PROVE  Conn /\ Creds /\ Boxes /\ Pend
  BY <1>4, <1>b, <1>c, <1>d, <1>e DEF Abandon, Resume
<1>5. ASSUME NEW k \in Keys, EndProfile(k)
      PROVE  Conn /\ Creds /\ Boxes /\ Pend
  BY <1>5, <1>b, <1>c, <1>d, <1>f DEF EndProfile
<1>6. CASE UNCHANGED access
  BY <1>6, <1>b, <1>c, <1>d, <1>f DEF access
<1>7. QED
  BY <1>1, <1>2, <1>3, <1>4, <1>5, <1>6
LEMMA GateStarts == GateInit => GateInv
<1> SUFFICES ASSUME GateInit PROVE GateInv
  OBVIOUS
<1>1. request = NoRequest /\ world \in Scenario
  BY DEF GateInit
<1>2. DOMAIN NoRequest = Fields /\ NoRequest.stage = "idle" /\ NoRequest.key = NoKey /\ NoRequest.open = {}
  BY DEF NoRequest, Fields
<1>3. RequestOK
  BY <1>1, <1>2 DEF RequestOK
<1>4. QED
  BY <1>1, <1>3, AccessStart DEF GateInv

(* What is read stands open from then on.                                  *)
LEMMA StandForNeeded ==
  ASSUME NEW q, q.needed \subseteq Facts
  PROVE  StandFor(q) \subseteq Facts /\ (q.key = NoKey => StandFor(q) = {})
BY DEF StandFor

LEMMA GoFields ==
  ASSUME NEW q, DOMAIN q = Fields
  PROVE  /\ DOMAIN Go(q) = Fields /\ Go(q).plan = Tail(q.plan) /\ Go(q).open = q.open \cup StandFor(q)
         /\ \A f \in Fields \ {"plan", "open"} : Go(q)[f] = q[f]
BY DEF Go, Fields

(* Nothing is judged by the tables it was read from once they are the same.*)
LEMMA JudgedAsTheyStand ==
  ASSUME request.rules = table, request.own = {r \in RuleIds : request.key \in assigned[r]},
         request.everyone = {r \in RuleIds : assigned[r] # {}}
  PROVE  \A service : LevelsRead(service) = LevelsFor(request.key, service)
<1> TAKE service
<1>1. ASSUME NEW r \in RuleIds
      PROVE  r \in Applicable <=> Applies(request.key, r)
  BY DEF Applicable, Applies
<1>2. {x \in Applicable : request.rules[x].service = service} = {x \in RuleIds : Applies(request.key, x) /\ table[x].service = service}
  BY <1>1 DEF Applicable
<1>3. QED
  BY <1>2 DEF LevelsRead, LevelsFor, RowsFor

LEMMA JudgedEffect ==
  ASSUME NEW gmail, NEW file, NEW check, NEW effect, NEW hard, Judges(check, effect), effect \in RuleEffects,
         LevelsAllow(gmail, file, check, hard)
  PROVE  LevelsAllow(gmail, file, effect, hard)
BY DEF Judges, RuleEffects, LevelsAllow, Allows

LEMMA ArrivalStarts ==
  ASSUME PlansCover, GateInv, Arrive
  PROVE  RequestOK'
<1>1. PICK r \in Arriving[world], k \in Keys, hard \in BOOLEAN :
        LET q == [NoRequest EXCEPT !.stage = "going", !.plan = r.plan, !.check = r.check, !.effect = r.effect,
                    !.needed = r.needed, !.hard = hard,
                    !.key = IF Head(r.plan) = "connection" THEN NoKey ELSE k]
        IN  request' = [q EXCEPT !.open = StandFor(q)]
  BY ZenonT(30) DEF Arrive
<1> DEFINE q == [NoRequest EXCEPT !.stage = "going", !.plan = r.plan, !.check = r.check, !.effect = r.effect,
                    !.needed = r.needed, !.hard = hard,
                    !.key = IF Head(r.plan) = "connection" THEN NoKey ELSE k]
<1>2. Covers(r)
  BY <1>1 DEF PlansCover, GateInv
<1>3. /\ DOMAIN q = Fields /\ q.stage = "going" /\ q.plan = r.plan /\ q.check = r.check /\ q.effect = r.effect
      /\ q.needed = r.needed /\ q.key = (IF Head(r.plan) = "connection" THEN NoKey ELSE k) /\ q.touched = FALSE
  BY DEF NoRequest, Fields
<1> DEFINE p == [q EXCEPT !.open = StandFor(q)]
<1>4. request' = p
  BY <1>1
<1> HIDE DEF q
<1>5. /\ DOMAIN p = Fields /\ p.stage = "going" /\ p.plan = r.plan /\ p.check = r.check /\ p.effect = r.effect
      /\ p.needed = r.needed /\ p.key = q.key /\ p.touched = FALSE /\ p.open = StandFor(q)
  BY <1>3 DEF Fields
<1> HIDE DEF p
<1>6. r.plan[1] = Head(r.plan) /\ PlanShape(r.plan)
  BY <1>2 DEF Covers, PlanShape
<1>7. r.needed \subseteq Facts
  <2>1. ASSUME NEW f \in r.needed PROVE f \in Facts
    <3>1. PICK i \in DOMAIN r.plan : f \in Reads(r.plan[i])
      BY <1>2 DEF Covers, StillRead
    <3>2. QED
      BY <3>1 DEF Reads, Facts
  <2>2. QED
    BY <2>1
<1>8. StandFor(q) \subseteq Facts /\ (q.key = NoKey => StandFor(q) = {})
  BY <1>3, <1>7, StandForNeeded
<1>9. q.key \in Keys \cup {NoKey} /\ (q.key = NoKey <=> r.plan[1] = "connection")
  BY <1>3, <1>6, DefaultIsAKey
<1>10. \A i \in DOMAIN r.plan : r.plan[i] = "check" =>
         Before("rules", r.plan, i) /\ Before("own", r.plan, i) /\ Before("everyone", r.plan, i)
  BY <1>2 DEF Covers
<1>11. Snapshots(p, table', assigned')
  BY <1>5, <1>10 DEF Snapshots
<1>12. \A f \in Due(p) : StillRead(f, p.plan)
  BY <1>2, <1>5 DEF Due, Covers
<1>13. GoingOK(p, table', assigned')
  BY <1>2, <1>5, <1>6, <1>7, <1>8, <1>9, <1>10, <1>11, <1>12 DEF GoingOK, Covers
<1>14. QED
  BY <1>4, <1>5, <1>8, <1>9, <1>13 DEF RequestOK

(* A request that goes on.                                                 *)
LEMMA WentOn ==
  ASSUME GateInv, Going, UNCHANGED <<table, assigned>>, GoingOK(request', table, assigned),
         request'.stage = "going", DOMAIN request' = Fields
  PROVE  RequestOK'
BY DEF RequestOK, GoingOK

LEMMA Stopped ==
  ASSUME GateInv, Going, Stop
  PROVE  RequestOK'
<1>1. /\ DOMAIN request' = Fields /\ request'.stage = "refused"
      /\ \A f \in Fields \ {"stage"} : request'[f] = request[f]
  BY DEF GateInv, RequestOK, Stop, Fields
<1>2. request'.key = request.key /\ request'.open = request.open
  BY <1>1 DEF Fields
<1>3. QED
  BY <1>1, <1>2 DEF GateInv, RequestOK

LEMMA GoingHere ==
  ASSUME GateInv, Going
  PROVE  /\ GoingOK(request, table, assigned) /\ Step = request.plan[1] /\ DOMAIN request = Fields
         /\ StandFor(request) \subseteq Facts
         /\ Step # "connection" => request.key \in Keys
<1>1. GoingOK(request, table, assigned) /\ DOMAIN request = Fields
  BY DEF GateInv, RequestOK, Going
<1>2. Step = request.plan[1]
  BY <1>1 DEF GoingOK, PlanShape, Step
<1>3. QED
  BY <1>1, <1>2, StandForNeeded DEF GoingOK

(* A step that looks whether a fact stands.                                *)
LEMMA FactRead ==
  ASSUME GateInv, Going, UNCHANGED <<table, assigned>>, Step \notin {"connection", "rules", "own", "everyone", "check", "serve"},
         \A f \in Reads(Step) : Stands(f, request), Pass(request)
  PROVE  RequestOK'
<1> DEFINE p == Go(request)
<1>1. /\ GoingOK(request, table, assigned) /\ Step = request.plan[1] /\ DOMAIN request = Fields
      /\ StandFor(request) \subseteq Facts /\ request.key \in Keys
  BY GoingHere
<1>2. /\ DOMAIN p = Fields /\ p.plan = Tail(request.plan) /\ p.open = request.open \cup StandFor(request)
      /\ p.stage = request.stage /\ p.check = request.check /\ p.effect = request.effect /\ p.needed = request.needed
      /\ p.key = request.key /\ p.rules = request.rules /\ p.own = request.own /\ p.everyone = request.everyone
      /\ p.touched = request.touched
  <2>1. /\ DOMAIN Go(request) = Fields /\ Go(request).plan = Tail(request.plan)
        /\ Go(request).open = request.open \cup StandFor(request)
        /\ \A f \in Fields \ {"plan", "open"} : Go(request)[f] = request[f]
    BY <1>1, GoFields
  <2>2. QED
    BY <2>1, SMTT(30) DEF Fields
<1>3. request' = p
  BY DEF Pass
<1> HIDE DEF p
<1>4. \A f \in Due(request) \cap Reads(Step) : f \in StandFor(request)
  BY <1>1, DefaultIsAKey DEF StandFor, Due
<1>5. request.open \subseteq Facts
  BY <1>1 DEF GoingOK
<1>6. GoingOK(p, table, assigned)
  BY <1>1, <1>2, <1>4, <1>5, PassedStep
<1>7. QED
  BY <1>2, <1>3, <1>6, WentOn DEF Going
LEMMA ConnectionRead ==
  ASSUME GateInv, ReadConnection
  PROVE  RequestOK'
<1> USE DEF ReadConnection
<1>1. /\ GoingOK(request, table, assigned) /\ request.plan[1] = "connection" /\ DOMAIN request = Fields
      /\ Going /\ UNCHANGED <<table, assigned>> /\ request.key = NoKey /\ request.open = {}
  BY GoingHere DEF GoingOK, vars
<1>2. ASSUME NEW p, NEW key \in Keys, DOMAIN p = Fields, p.plan = Tail(request.plan), p.key = key, "connection" \in p.open,
             p.open \subseteq Facts, \A f \in Fields \ {"plan", "key", "open"} : p[f] = request[f], request' = p
      PROVE  RequestOK'
  <2>1. /\ p.stage = request.stage /\ p.check = request.check /\ p.effect = request.effect /\ p.needed = request.needed
        /\ p.rules = request.rules /\ p.own = request.own /\ p.everyone = request.everyone /\ p.touched = request.touched
    BY <1>2 DEF Fields
  <2>2. Reads("connection") = {"connection"}
    BY DEF Reads
  <2>3. GoingOK(p, table, assigned)
    BY <1>1, <1>2, <2>1, <2>2, PassedStep
  <2>4. QED
    BY <1>1, <1>2, <2>1, <2>3, WentOn DEF Going
<1>3. CASE /\ connection.status = "none" /\ FirstUse
           /\ request' = [request EXCEPT !.plan = Tail(@), !.key = Default, !.open = {"connection"}]
  <2>1. /\ DOMAIN request' = Fields /\ request'.plan = Tail(request.plan) /\ request'.key = Default /\ request'.open = {"connection"}
        /\ \A f \in Fields \ {"plan", "key", "open"} : request'[f] = request[f]
    BY <1>1, <1>3 DEF Fields
  <2>2. {"connection"} \subseteq Facts
    BY DEF Facts
  <2>3. QED
    BY <2>1, <2>2, <1>2, DefaultIsAKey
<1>4. CASE connection.status = "approved" /\ Pass([request EXCEPT !.key = connection.key])
  <2> DEFINE q == [request EXCEPT !.key = connection.key]
  <2>1. connection.key \in Keys /\ connection = Connection("approved", connection.key)
    BY <1>4 DEF GateInv, AccessInv, AccessTypeOK, Connection
  <2>2. /\ DOMAIN q = Fields /\ q.key = connection.key /\ \A f \in Fields \ {"key"} : q[f] = request[f]
    BY <1>1 DEF Fields
  <2>3. request' = Go(q)
    BY <1>4 DEF Pass
  <2> HIDE DEF q
  <2>4. q.needed = request.needed /\ q.open = request.open /\ q.plan = request.plan
    BY <2>2 DEF Fields
  <2>5. Stands("connection", q)
    BY <2>1, <2>2 DEF Stands
  <2>6. StandFor(q) \subseteq Facts /\ ("connection" \in q.needed => "connection" \in StandFor(q))
    BY <2>1, <2>2, <2>4, <2>5, <1>1, StandForNeeded, DefaultIsAKey DEF StandFor, GoingOK
  <2>7. /\ DOMAIN Go(q) = Fields /\ Go(q).plan = Tail(request.plan) /\ Go(q).open = StandFor(q) /\ Go(q).key = connection.key
        /\ \A f \in Fields \ {"plan", "key", "open"} : Go(q)[f] = request[f]
    <3>1. /\ DOMAIN Go(q) = Fields /\ Go(q).plan = Tail(q.plan) /\ Go(q).open = q.open \cup StandFor(q)
          /\ \A f \in Fields \ {"plan", "open"} : Go(q)[f] = q[f]
      BY <2>2, GoFields
    <3>2. Go(q).key = connection.key
      BY <3>1, <2>2 DEF Fields
    <3>3. \A f \in Fields \ {"plan", "key", "open"} : Go(q)[f] = request[f]
      BY <3>1, <2>2
    <3>4. QED
      BY <3>1, <3>2, <3>3, <2>4, <1>1
  <2>8. CASE "connection" \in request.needed
    BY <2>1, <2>3, <2>4, <2>6, <2>7, <2>8, <1>2
  <2>9. CASE "connection" \notin request.needed
    <3> DEFINE p == Go(q)
    <3>1. /\ p.stage = request.stage /\ p.check = request.check /\ p.effect = request.effect /\ p.needed = request.needed
          /\ p.rules = request.rules /\ p.own = request.own /\ p.everyone = request.everyone /\ p.touched = request.touched
      BY <2>7 DEF Fields
    <3> HIDE DEF p
    <3>2. Due(request) \cap Reads("connection") = {}
      BY <2>9 DEF Reads, Due
    <3>3. p.plan = Tail(request.plan) /\ p.open = StandFor(q) /\ p.key = connection.key /\ DOMAIN p = Fields /\ request' = p
      BY <2>3, <2>7 DEF p
    <3>4. GoingOK(p, table, assigned)
      BY <1>1, <2>1, <2>6, <3>1, <3>2, <3>3, PassedStep
    <3>5. QED
      BY <1>1, <3>1, <3>3, <3>4, WentOn DEF Going
  <2>10. QED
    BY <2>8, <2>9
<1>5. CASE Stop
  BY <1>1, <1>5, Stopped
<1>6. QED
  BY <1>3, <1>4, <1>5

LEMMA FactsRead ==
  ASSUME GateInv, ReadProfile \/ ReadStanding \/ ReadTemporary \/ ReadRows \/ ReadDelegation
  PROVE  RequestOK'
<1>1. UNCHANGED <<table, assigned>> /\ Going
  BY DEF ReadProfile, ReadStanding, ReadTemporary, ReadRows, ReadDelegation, PassIf, vars
<1>2. Stop => RequestOK'
  BY <1>1, Stopped
<1>3. ASSUME ~Stop
      PROVE  /\ Step \in {"profile", "parent", "standing", "temporary", "rows", "delegation", "owner"}
             /\ Pass(request) /\ \A f \in Reads(Step) : Stands(f, request)
  BY <1>3 DEF ReadProfile, ReadStanding, ReadTemporary, ReadRows, ReadDelegation, PassIf, Stands, Reads
<1>4. QED
  BY <1>1, <1>2, <1>3, FactRead

LEMMA SnapshotTaken ==
  ASSUME GateInv, ReadRules \/ ReadOwnAssignments \/ ReadAssignments
  PROVE  RequestOK'
<1> DEFINE q == IF Step = "rules" THEN [request EXCEPT !.rules = table]
                ELSE IF Step = "own" THEN [request EXCEPT !.own = {r \in RuleIds : request.key \in assigned[r]}]
                ELSE [request EXCEPT !.everyone = {r \in RuleIds : assigned[r] # {}}]
           p == Go(q)
<1>1. /\ UNCHANGED <<table, assigned>> /\ Going /\ Step \in {"rules", "own", "everyone"} /\ request' = p
  BY DEF ReadRules, ReadOwnAssignments, ReadAssignments, Pass, vars
<1>2. /\ GoingOK(request, table, assigned) /\ Step = request.plan[1] /\ DOMAIN request = Fields
      /\ request.key \in Keys
  BY <1>1, GoingHere
<1>3. /\ DOMAIN q = Fields
      /\ \A f \in Fields \ {"rules", "own", "everyone"} : q[f] = request[f]
      /\ q.rules = IF Step = "rules" THEN table ELSE request.rules
      /\ q.own = IF Step = "own" THEN {r \in RuleIds : request.key \in assigned[r]} ELSE request.own
      /\ q.everyone = IF Step = "everyone" THEN {r \in RuleIds : assigned[r] # {}} ELSE request.everyone
  BY <1>1, <1>2 DEF Fields
<1> HIDE DEF q
<1>4. /\ q.plan = request.plan /\ q.open = request.open /\ q.key = request.key /\ q.needed = request.needed
  BY <1>3 DEF Fields
<1>5. StandFor(q) \subseteq Facts
  BY <1>2, <1>4, StandForNeeded DEF GoingOK
<1>6. /\ DOMAIN p = Fields /\ p.plan = Tail(request.plan) /\ p.open = request.open \cup StandFor(q)
      /\ p.stage = request.stage /\ p.check = request.check /\ p.effect = request.effect /\ p.needed = request.needed
      /\ p.key = request.key /\ p.touched = request.touched
      /\ p.rules = q.rules /\ p.own = q.own /\ p.everyone = q.everyone
  <2>1. /\ DOMAIN Go(q) = Fields /\ Go(q).plan = Tail(q.plan) /\ Go(q).open = q.open \cup StandFor(q)
        /\ \A f \in Fields \ {"plan", "open"} : Go(q)[f] = q[f]
    BY <1>3, GoFields
  <2>2. /\ p.rules = q.rules /\ p.own = q.own /\ p.everyone = q.everyone
    BY <2>1 DEF Fields
  <2>3. /\ p.stage = request.stage /\ p.check = request.check /\ p.effect = request.effect /\ p.needed = request.needed
        /\ p.key = request.key /\ p.touched = request.touched
    BY <2>1, <1>3 DEF Fields
  <2>4. QED
    BY <2>1, <2>2, <2>3, <1>4
<1> HIDE DEF p
<1>7. Reads(Step) = {}
  BY <1>1 DEF Reads
<1>8. request.open \subseteq Facts
  BY <1>2 DEF GoingOK
<1>9. GoingOK(p, table, assigned)
  BY <1>1, <1>2, <1>3, <1>5, <1>6, <1>7, <1>8, PassedStep
<1>10. QED
  BY <1>1, <1>6, <1>9, WentOn DEF Going

LEMMA Checked ==
  ASSUME GateInv, Check
  PROVE  RequestOK'
<1> DEFINE q == [request EXCEPT !.rules = <<>>, !.own = {}, !.everyone = {}]
           p == Go(q)
           passes == LevelsAllow(LevelsRead("gmail"), LevelsRead("file"), request.check, request.hard)
<1>1. /\ UNCHANGED <<table, assigned>> /\ Going /\ Step = "check"
      /\ IF passes THEN request' = p ELSE request' = [q EXCEPT !.stage = "denied"]
  BY DEF Check, Pass, vars
<1>2. /\ GoingOK(request, table, assigned) /\ Step = request.plan[1] /\ DOMAIN request = Fields
      /\ request.key \in Keys
  BY <1>1, GoingHere
<1>3. ASSUME ~request.touched
      PROVE  passes <=> RulesAllow(request.key, request.check, request.hard)
  <2>1. ~Before("rules", request.plan, 1) /\ ~Before("own", request.plan, 1) /\ ~Before("everyone", request.plan, 1)
    BY DEF Before
  <2>2. 1 \in DOMAIN request.plan
    BY <1>2 DEF GoingOK, PlanShape
  <2>3. Snapshots(request, table, assigned)
    BY <1>2, <1>3 DEF GoingOK
  <2>4. /\ request.rules = table /\ request.own = {r \in RuleIds : request.key \in assigned[r]}
        /\ request.everyone = {r \in RuleIds : assigned[r] # {}}
    BY <2>1, <2>2, <2>3, <1>1, <1>2 DEF Snapshots
  <2>5. \A service : LevelsRead(service) = LevelsFor(request.key, service)
    BY <2>4, JudgedAsTheyStand
  <2>6. QED
    BY <2>5 DEF RulesAllow
<1>4. DOMAIN q = Fields /\ \A f \in Fields \ {"rules", "own", "everyone"} : q[f] = request[f]
  BY <1>2 DEF Fields
<1> HIDE DEF q, passes
<1>5. /\ q.plan = request.plan /\ q.open = request.open /\ q.key = request.key /\ q.needed = request.needed
      /\ q.check = request.check /\ q.effect = request.effect /\ q.hard = request.hard /\ q.touched = request.touched
      /\ q.stage = request.stage
  BY <1>4 DEF Fields
<1>6. CASE passes
  <2>1. StandFor(q) \subseteq Facts
    BY <1>2, <1>5, StandForNeeded DEF GoingOK
  <2>2. /\ DOMAIN p = Fields /\ p.plan = Tail(request.plan) /\ p.open = request.open \cup StandFor(q)
        /\ p.stage = request.stage /\ p.check = request.check /\ p.effect = request.effect /\ p.needed = request.needed
        /\ p.key = request.key /\ p.touched = request.touched
    BY <1>4, <1>5, GoFields DEF Fields
  <2>3. request' = p
    BY <1>1, <1>6
  <2> HIDE DEF p
  <2>4. \A f \in Due(request) \cap Reads(Step) : f \in StandFor(q)
    <3> SUFFICES ASSUME "rules" \in Due(request)
                 PROVE  "rules" \in StandFor(q)
      BY <1>1 DEF Reads
    <3>1. ~request.touched /\ "rules" \in request.needed
      BY DEF Due
    <3>2. Judges(request.check, request.effect)
      BY <1>2, <3>1 DEF GoingOK
    <3>3. RulesAllow(request.key, request.effect, request.hard)
      <4>1. CASE request.effect \in RuleEffects
        BY <4>1, <1>3, <1>6, <3>1, <3>2, JudgedEffect DEF RulesAllow
      <4>2. CASE request.effect \notin RuleEffects
        BY <4>2 DEF RulesAllow, LevelsAllow, Allows, RuleEffects
      <4>3. QED
        BY <4>1, <4>2
    <3>4. QED
      BY <3>1, <3>3, <1>2, <1>5, DefaultIsAKey DEF StandFor, Stands
  <2>5. request.open \subseteq Facts
    BY <1>2 DEF GoingOK
  <2>6. GoingOK(p, table, assigned)
    BY <1>1, <1>2, <2>1, <2>2, <2>4, <2>5, PassedStep
  <2>7. QED
    BY <1>1, <2>2, <2>3, <2>6, WentOn DEF Going
<1>7. CASE ~passes
  <2>1. request' = [q EXCEPT !.stage = "denied"]
    BY <1>1, <1>7
  <2>2. /\ DOMAIN request' = Fields /\ request'.stage = "denied" /\ request'.key = request.key /\ request'.open = request.open
        /\ request'.check = request.check /\ request'.effect = request.effect /\ request'.hard = request.hard
        /\ request'.touched = request.touched
    BY <1>4, <1>5, <2>1 DEF Fields
  <2>3. DeniedRightly(request)'
    <3> SUFFICES ASSUME ~request'.touched
                 PROVE  ~RulesAllow(request.key, request.check, request.hard)'
      BY <2>2 DEF DeniedRightly
    <3>1. ~RulesAllow(request.key, request.check, request.hard)
      BY <1>3, <1>7, <2>2
    <3>2. QED
      BY <3>1, <2>2, <1>1 DEF RulesAllow, LevelsFor, RowsFor, Applies
  <2>4. request.key # NoKey
    BY <1>2, DefaultIsAKey
  <2>5. QED
    BY <1>2, <2>2, <2>3, <2>4 DEF RequestOK, GoingOK
<1>8. QED
  BY <1>6, <1>7
LEMMA ServedAndAnswered ==
  ASSUME GateInv, Serve \/ Answer
  PROVE  RequestOK'
<1>1. CASE Serve
  <2>1. /\ GoingOK(request, table, assigned) /\ request.plan[1] = "serve" /\ DOMAIN request = Fields
        /\ request.key \in Keys /\ request' = [request EXCEPT !.stage = "served"]
    BY <1>1, GoingHere DEF Serve
  <2>2. Len(request.plan) = 1 /\ DOMAIN request.plan = {1}
    <3>1. PlanShape(request.plan)
      BY <2>1 DEF GoingOK
    <3> DEFINE plan == request.plan
    <3> HIDE DEF plan
    <3>2. plan \in Seq(STRING) /\ plan # <<>> /\ \A i \in DOMAIN plan : plan[i] = "serve" <=> i = Len(plan)
      BY <3>1 DEF PlanShape, plan
    <3>3. 1 \in DOMAIN plan /\ DOMAIN plan = 1..Len(plan)
      BY <3>2
    <3>4. plan[1] = "serve"
      BY <2>1 DEF plan
    <3>5. Len(plan) = 1
      BY <3>2, <3>3, <3>4
    <3>6. QED
      BY <3>3, <3>5 DEF plan
  <2>3. \A f \in Due(request) : f \in request.open
    BY <2>1, <2>2 DEF GoingOK, StillRead, Reads
  <2>4. /\ DOMAIN request' = Fields /\ request'.stage = "served" /\ request'.key = request.key /\ request'.open = request.open
        /\ request'.effect = request.effect /\ request'.needed = request.needed /\ request'.touched = request.touched
    BY <2>1 DEF Fields
  <2>5. request.effect # "never" /\ request.open \subseteq Facts /\ Due(request)' = Due(request)
    BY <2>1, <2>4 DEF GoingOK, Due
  <2>6. QED
    BY <2>1, <2>3, <2>4, <2>5, DefaultIsAKey DEF RequestOK
<1>2. CASE Answer
  <2>1. request' = NoRequest
    BY <1>2 DEF Answer
  <2>2. DOMAIN NoRequest = Fields /\ NoRequest.stage = "idle" /\ NoRequest.key = NoKey /\ NoRequest.open = {}
    BY DEF NoRequest, Fields
  <2>3. QED
    BY <2>1, <2>2 DEF RequestOK
<1>3. QED
  BY <1>1, <1>2

(* The others' steps: what is noted of them.                               *)
LEMMA OthersNoted ==
  ASSUME GateInv, OthersNext
  PROVE  RequestOK'
<1> DEFINE noted == [request EXCEPT !.open = @ \cup StandFor(request)',
                                  !.touched = @ \/ <<table, assigned>>' # <<table, assigned>>]
<1>1. CASE request.stage = "idle"
  <2>1. request' = request
    BY <1>1 DEF OthersNext
  <2>2. QED
    BY <1>1, <2>1 DEF GateInv, RequestOK
<1>2. CASE request.stage = "going"
  <2>1. \E q \in {request} : request' = [q EXCEPT !.open = @ \cup StandFor(q)', !.touched = @ \/ <<table, assigned>>' # <<table, assigned>>]
    BY <1>2 DEF OthersNext
  <2>2. PICK q \in {request} : request' = [q EXCEPT !.open = @ \cup StandFor(q)', !.touched = @ \/ <<table, assigned>>' # <<table, assigned>>]
    BY <2>1
  <2>3. GoingOK(q, table, assigned) /\ DOMAIN q = Fields /\ q.stage = "going"
    BY <1>2, <2>2, GoingHere DEF Going
  <2> DEFINE p == request'
  <2>4. /\ DOMAIN p = Fields /\ p.open = q.open \cup StandFor(q)'
        /\ p.touched = (q.touched \/ <<table, assigned>>' # <<table, assigned>>)
        /\ p.stage = "going" /\ p.plan = q.plan /\ p.check = q.check /\ p.effect = q.effect /\ p.needed = q.needed
        /\ p.key = q.key /\ p.rules = q.rules /\ p.own = q.own /\ p.everyone = q.everyone
    BY <2>2, <2>3 DEF Fields
  <2>5. StandFor(q)' \subseteq Facts /\ (q.key = NoKey => StandFor(q)' = {})
    BY <2>3 DEF StandFor, GoingOK
  <2>6. ~p.touched => ~q.touched /\ table' = table /\ assigned' = assigned
    BY <2>4
  <2>7. ~p.touched => Snapshots(p, table', assigned')
    BY <2>3, <2>4, <2>6 DEF GoingOK, Snapshots
  <2>8. \A f \in Due(p) : f \in p.open \/ StillRead(f, p.plan)
    <3>1. Due(p) \subseteq Due(q)
      BY <2>4 DEF Due
    <3>2. QED
      BY <3>1, <2>3, <2>4 DEF GoingOK
  <2>9. p.open \subseteq Facts /\ (p.key = NoKey => p.open = {})
    BY <2>3, <2>4, <2>5 DEF GoingOK
  <2>10. GoingOK(p, table', assigned')
    BY <2>3, <2>4, <2>7, <2>8, <2>9 DEF GoingOK
  <2>11. p.key \in Keys \cup {NoKey}
    BY <2>3, <2>4 DEF GoingOK
  <2>12. QED
    BY <2>4, <2>9, <2>10, <2>11 DEF RequestOK
<1>3. QED
  BY <1>1, <1>2 DEF OthersNext

LEMMA GateSteps ==
  ASSUME PlansCover, GateInv, [GateNext]_gate_vars
  PROVE  GateInv'
<1>1. CASE RequestNext
  <2>1. RequestOK'
    BY <1>1, ArrivalStarts, ConnectionRead, FactsRead, SnapshotTaken, Checked, ServedAndAnswered DEF RequestNext
  <2>2. world' = world
    BY <1>1 DEF RequestNext, Arrive, ReadConnection, ReadProfile, ReadStanding, ReadTemporary, ReadRows, ReadDelegation,
                ReadRules, ReadOwnAssignments, ReadAssignments, PassIf, Check, Serve, Answer
  <2>3. \/ UNCHANGED access
        \/ FirstUse /\ UNCHANGED <<current, temporary, delegation, rows, pending>>
    BY <1>1 DEF RequestNext, Arrive, ReadConnection, ReadProfile, ReadStanding, ReadTemporary, ReadRows, ReadDelegation,
                ReadRules, ReadOwnAssignments, ReadAssignments, PassIf, Check, Serve, Answer
  <2>4. AccessInv'
    BY <2>3, AccessWritten DEF GateInv
  <2>5. QED
    BY <2>1, <2>2, <2>4 DEF GateInv
<1>2. CASE OthersNext
  <2>1. RequestOK'
    BY <1>2, OthersNoted
  <2>2. AccessInv'
    BY <1>2, AccessWritten DEF OthersNext, Others, GateInv
  <2>3. QED
    BY <1>2, <2>1, <2>2 DEF GateInv, OthersNext
<1>3. CASE UNCHANGED gate_vars
  <2>1. UNCHANGED <<access, world, request, table, assigned>>
    BY <1>3 DEF gate_vars, vars
  <2>2. AccessInv'
    BY <2>1, AccessWritten DEF GateInv
  <2>3. RequestOK'
    BY <2>1 DEF GateInv, RequestOK, DeniedRightly, RulesAllow, LevelsFor, RowsFor, Applies
  <2>4. QED
    BY <2>1, <2>2, <2>3 DEF GateInv
<1>4. QED
  BY <1>1, <1>2, <1>3 DEF GateNext

LEMMA GateInvariant == ASSUME PlansCover PROVE GateSpec => []GateInv
<1>1. GateInv /\ [GateNext]_gate_vars => GateInv'
  BY GateSteps
<1>2. QED
  BY <1>1, GateStarts, PTL DEF GateSpec

(* Whatever is written between the reads of a request: if it is served,    *)
(* each fact that its effect at Google depends on stood at some moment     *)
(* since it came (api/proxy/[...path]/route.ts, api/mcp/route.ts).         *)
THEOREM ServedOnWhatStood == ASSUME PlansCover PROVE GateSpec => []OnlyWhatStood
<1>1. GateInv => OnlyWhatStood
  BY DEF GateInv, RequestOK, OnlyWhatStood, Due
<1>2. QED
  BY <1>1, GateInvariant, PTL

(* A request denied for its rules is one they deny, if none were written   *)
(* while it was judged.                                                    *)
THEOREM DenialsAreRight == ASSUME PlansCover PROVE GateSpec => []DeniedByTheRules
<1>1. GateInv => DeniedByTheRules
  BY DEF GateInv, RequestOK, DeniedRightly, DeniedByTheRules
<1>2. QED
  BY <1>1, GateInvariant, PTL

(* Profiles, mailboxes and the request are what GateTypeOK says.           *)
THEOREM GateTypeCorrect == ASSUME PlansCover PROVE GateSpec => []GateTypeOK
<1>1. ASSUME GateInv, request.stage = "going"
      PROVE  Last(request.plan) = "serve"
  BY <1>1 DEF GateInv, RequestOK, GoingOK, PlanShape, Last
<1>2. GateInv => GateTypeOK
  BY <1>1 DEF GateInv, RequestOK, AccessInv, GateTypeOK
<1>3. QED
  BY <1>2, GateInvariant, PTL
=============================================================================
