----------------------------- MODULE RuleTables -----------------------------
(***************************************************************************)
(* The rule tables access_rules and key_rule_assignments, for the rules    *)
(* about ONE resource (a mailbox's recipients, or a Drive file), and every *)
(* call that writes them: the owner's dashboard actions and approvals, and *)
(* the grant the agent's own creations get.  No call runs in a             *)
(* transaction: each is a list of statements, executed one at a time, and  *)
(* what a call read may have changed by the time it writes.  A rule with   *)
(* no assignment is GLOBAL: it applies to every profile.                   *)
(***************************************************************************)
EXTENDS Naturals, FiniteSets, Sequences, SequencesExt

CONSTANTS
  Keys,           \* the owner's profiles (proxy_keys rows)
  RuleIds,        \* ids for rows of access_rules: bounds the rules that exist at once
  Callers,        \* calls that can run at the same time
  NoRule,         \* stands for the row of an id that has none
  New             \* stands for the row the call itself inserts

ASSUME Distinct == New \notin RuleIds /\ IsFiniteSet(RuleIds)

VARIABLES
  resource,       \* "mail" or "file": what the rules are about
  table,          \* access_rules: id -> row
  assigned,       \* key_rule_assignments: id -> the profiles it is assigned to
  live,           \* profiles that are not revoked
  call            \* the calls in progress

vars == <<resource, table, assigned, live, call>>

(* Mail rules let a profile send to one recipient or to all, or hide mail. *)
Levels(service) == IF service = "gmail" THEN {"one", "all", "hide"} ELSE {"read", "write", "block"}
Services(about) == IF about = "mail" THEN {"gmail"} ELSE {"file", "drive"}
(* A row: "file" is the per-file rule of the native kinds, "drive" the     *)
(* tree's setting; agent is the name's "Agent-created: " prefix.           *)
Row(service, level, agent) == [service |-> service, level |-> level, agent |-> agent]
Rows == UNION {[service : {s}, level : Levels(s), agent : BOOLEAN] : s \in {"gmail", "file", "drive"}}
ASSUME NoRow == NoRule \notin Rows

Existing == {r \in RuleIds : table[r] # NoRule}
Applies(k, r) == table[r] # NoRule /\ (assigned[r] = {} \/ k \in assigned[r])
RowsFor(k, service) == {table[r] : r \in {x \in RuleIds : Applies(k, x) /\ table[x].service = service}}
LevelsFor(k, service) == {row.level : row \in RowsFor(k, service)}
------------------------------------------------------------------------------
(* What the rules give a profile: may it send to one recipient or to all,  *)
(* the per-file check, and the tree's decision on the file itself.         *)
SendLevel(have) == IF "all" \in have THEN "all" ELSE IF "one" \in have THEN "one" ELSE "none"
SendAccess(k) == SendLevel(LevelsFor(k, "gmail"))

Combine(levels) ==
  IF "block" \in levels THEN "block" ELSE IF "write" \in levels THEN "write" ELSE "read"

FileLevel(have) == IF have = {} THEN "none" ELSE Combine(have)
FileAccess(k) == FileLevel(LevelsFor(k, "file"))

Deciding(k) ==
  LET user == {row \in RowsFor(k, "drive") : ~row.agent}
  IN  IF user # {} THEN user
      ELSE IF RowsFor(k, "drive") # {} THEN RowsFor(k, "drive") ELSE RowsFor(k, "file")

TreeAccess(k) ==
  IF Deciding(k) = {} THEN "inherit" ELSE Combine({row.level : row \in Deciding(k)})

Access == [k \in Keys |-> [send |-> SendAccess(k), file |-> FileAccess(k), tree |-> TreeAccess(k)]]
------------------------------------------------------------------------------
(* Calls.  A call reads the rules it works on, then their assignments,     *)
(* plans its statements, and executes them.                                *)
Idle == [op |-> "none", key |-> "none", want |-> "none", rule |-> New, keys |-> {}, cands |-> {},
         seen |-> <<>>, todo |-> <<>>, stage |-> "idle", before |-> <<>>, alone |-> TRUE]

TreeOps == {"set", "inherit", "clear"}
OneRuleOps == {"update", "delete", "level", "assign", "unassign"}

Insert(row) == [do |-> "insert", rule |-> New, row |-> row, keys |-> {}]
Do(what, r) == [do |-> what, rule |-> r, row |-> NoRule, keys |-> {}]
Assign(what, r, ks) == [do |-> what, rule |-> r, row |-> NoRule, keys |-> ks]
Change(r, level) == [do |-> "change", rule |-> r, row |-> level, keys |-> {}]

(* The rules a call selects.                                               *)
IsCandidate(x, row) ==
  CASE x.op = "expose" -> row.service = "file"
    [] x.op = "recommend" -> row.level = "hide"
    [] x.op = "anyone" -> row.service = "gmail" /\ row.level = "all"
    [] x.op = "approve" -> IF resource = "mail"
                           THEN row.service = "gmail" /\ row.level \in {"all", x.want}
                           ELSE row.service = "file" /\ row.level \in {"write", x.want}
    [] x.op = "inherit" -> row.service \in {"drive", "file"} /\ ~row.agent
    [] x.op \in {"set", "clear"} -> row.service = "drive" /\ ~row.agent
Select(x, P(_)) == IF x.op \in OneRuleOps THEN {x.rule} \cap Existing ELSE {r \in Existing : P(r)}
CandidatesAnyLevel(x) == Select(x, LAMBDA r : IsCandidate([x EXCEPT !.want = table[r].level], table[r]))  \* mutant
CandidatesWithAgents(x) == Select(x, LAMBDA r : IsCandidate(x, [table[r] EXCEPT !.agent = FALSE]))      \* mutant
Candidates(x) == Select(x, LAMBDA r : IsCandidate(x, table[r]))

Seen(x) == DOMAIN x.seen
Covered(x) == \E r \in Seen(x) : x.seen[r] = {} \/ x.key \in x.seen[r]
Mine(x) == {r \in Seen(x) : x.key \in x.seen[r]}
Globals(x) == {r \in Seen(x) : x.seen[r] = {}}

(* detachFromThisKey: a rule of this profile alone goes, its assignment    *)
(* first; a shared one loses this profile.                                 *)
Detach(x, r) ==
  IF x.seen[r] = {x.key} THEN Do("remove", r) ELSE Assign("unassign", r, {x.key})
(* A global rule is pinned to the other live profiles.                     *)
PinDeletes(x, r) == Do("delete", r)                                          \* mutant
Pin(x, r) ==
  IF live \ {x.key} = {} THEN Do("delete", r) ELSE Assign("pin", r, live \ {x.key})
Each(x, rules, P(_, _)) ==
  {[i \in DOMAIN order |-> P(x, order[i])] : order \in SetToSeqs(rules)}
Then(first, second) == UNION {{a \o b : b \in second} : a \in first}
AssignTo(r, ks) == IF ks = {} THEN <<>> ELSE <<Assign("assign", r, ks)>>
Create(row, ks) == <<Insert(row)>> \o AssignTo(New, ks)

ExposePlans(x) ==
  IF x.cands = {} THEN {Create(Row("file", "read", FALSE), {x.key} \cap Keys)}
  ELSE {<<Do("rename", r)>> \o (IF x.key \in Keys THEN <<Do("look", r), Assign("join", r, {x.key})>>
                                ELSE <<>>) : r \in x.cands}
AnyonePlans(x) ==
  IF Covered(x) THEN {<<>>}
  ELSE IF x.cands = {} THEN {Create(Row("gmail", "all", FALSE), {x.key})}
  ELSE {<<Assign("assign", r, {x.key})>> : r \in x.cands}
ApprovePlans(x) ==
  IF Covered(x) THEN {<<>>}
  ELSE {Create(Row(IF resource = "mail" THEN "gmail" ELSE "file", x.want, FALSE), {x.key})}
SetPlansKeepRest(x) ==                                                       \* mutant
  IF Mine(x) # {} THEN {<<Change(r, x.want)>> : r \in Mine(x)}
  ELSE {Create(Row("drive", x.want, FALSE), {x.key})}
SetPlans(x) ==
  LET own == {r \in Mine(x) : x.seen[r] = {x.key}}
  IN  IF own # {}
      THEN UNION {Then({<<Change(r, x.want)>>}, Each(x, Mine(x) \ {r}, Detach)) : r \in own}
      ELSE Then(Each(x, Mine(x), Detach), {Create(Row("drive", x.want, FALSE), {x.key})})
InheritPlans(x) == Then(Each(x, Mine(x), Detach), Each(x, Globals(x), Pin))

Plans(x) ==
  CASE x.op = "create" -> {Create(x.want, x.keys)}
    [] x.op = "created" -> {Create(x.want, {x.key})}
    [] x.op \in OneRuleOps /\ x.cands = {} -> {<<>>}
    [] x.op = "update" /\ x.cands # {} ->
         {<<Change(x.rule, x.want), Do("clear", x.rule)>> \o AssignTo(x.rule, x.keys)}
    [] x.op = "delete" /\ x.cands # {} -> {<<Do("delete", x.rule)>>}
    [] x.op = "level" /\ x.cands # {} -> {<<Change(x.rule, x.want)>>}
    [] x.op = "assign" /\ x.cands # {} -> {<<Assign("pinquietly", x.rule, {x.key})>>}
    [] x.op = "unassign" /\ x.cands # {} -> {<<Assign("unassign", x.rule, {x.key})>>}
    [] x.op = "recommend" -> {IF x.cands = {} THEN <<Insert(Row("gmail", "hide", FALSE))>> ELSE <<>>}
    [] x.op = "expose" -> ExposePlans(x)
    [] x.op = "anyone" -> AnyonePlans(x)
    [] x.op = "approve" -> ApprovePlans(x)
    [] x.op = "set" -> SetPlans(x)
    [] x.op \in {"inherit", "clear"} -> InheritPlans(x)
------------------------------------------------------------------------------
Busy == {c \in Callers : call[c].stage # "idle"}
(* Ids are never reused: a new row's id is one that no call remembers.     *)
Remembered == UNION {call[c].cands \cup {call[c].rule} \cup {call[c].todo[i].rule : i \in DOMAIN call[c].todo} :
                     c \in Callers}
Fresh == {r \in RuleIds : table[r] = NoRule} \ Remembered

(* The call's next record, with its statements once it has read enough.    *)
Planned(x) ==
  {[x EXCEPT !.todo = p, !.stage = IF p = <<>> THEN "done" ELSE "running", !.cands = {}, !.seen = <<>>] :
     p \in Plans(x)}

Start(c, op, key, want, rule, ks) ==
  /\ call[c].stage = "idle"
  /\ LET x == [Idle EXCEPT !.op = op, !.key = key, !.want = want, !.rule = rule, !.keys = ks,
                          !.stage = "reading", !.before = Access, !.alone = Busy = {}]
     IN  \E y \in (IF op \in {"create", "created"} THEN Planned(x) ELSE {x}) :
           call' = [d \in Callers |-> IF d = c THEN y ELSE [call[d] EXCEPT !.alone = FALSE]]
  /\ UNCHANGED <<resource, table, assigned, live>>

OfMail(c) ==
  /\ resource = "mail"
  /\ \/ \E row \in {Row("gmail", l, FALSE) : l \in Levels("gmail")}, ks \in SUBSET Keys :
          Start(c, "create", "none", row, New, ks)
     \/ \E r \in Existing, l \in Levels("gmail"), ks \in SUBSET Keys : Start(c, "update", "none", l, r, ks)
     \/ \E k \in live : \/ Start(c, "anyone", k, "all", New, {})
                       \/ \E l \in {"one", "all"} : Start(c, "approve", k, l, New, {})
     \/ Start(c, "recommend", "none", "hide", New, {})
OfFile(c) ==
  /\ resource = "file"
  /\ \/ \E r \in Existing : /\ table[r].service = "file"
                           /\ \E l \in Levels("file") : Start(c, "level", "none", l, r, {})
     \/ \E k \in Keys \cup {"every"} : Start(c, "expose", k, "read", New, {})
     \/ \E k \in live : \/ \E l \in {"read", "write"} : Start(c, "approve", k, l, New, {})
                       \/ \E l \in Levels("drive") : Start(c, "set", k, l, New, {})
                       \/ \E op \in {"inherit", "clear"} : Start(c, op, k, "none", New, {})
(* What the rule cards offer: rules of the native kinds cannot be deleted  *)
(* or applied there, and only a rule that is not global can be applied to  *)
(* one more profile or detached.                                           *)
OfOneRule(c) ==
  \E r \in Existing :
    \/ table[r].service # "file" /\ Start(c, "delete", "none", "none", r, {})
    \/ \E k \in Keys : \/ /\ table[r].service # "file" /\ assigned[r] # {} /\ k \notin assigned[r]
                          /\ Start(c, "assign", k, "none", r, {})
                       \/ k \in assigned[r] /\ Start(c, "unassign", k, "none", r, {})

Begin(c) == OfMail(c) \/ OfFile(c) \/ OfOneRule(c)

(* The selection of rules; exposing a file takes any one of those it finds.*)
Read(c) ==
  /\ call[c].stage = "reading"
  /\ LET found == Candidates(call[c])
     IN  \E cands \in (IF call[c].op = "expose" /\ found # {} THEN {{r} : r \in found} ELSE {found}) :
         LET x == [call[c] EXCEPT !.cands = cands]
             looks == x.op \in TreeOps \cup {"anyone", "approve"} /\ cands # {}
         IN  \E y \in (IF looks THEN {[x EXCEPT !.stage = "looking"]} ELSE Planned(x)) :
               call' = [call EXCEPT ![c] = y]
  /\ UNCHANGED <<resource, table, assigned, live>>

(* The assignments: of all the rules at once, or rule by rule until one    *)
(* covers the profile.                                                     *)
Look(c) ==
  /\ call[c].stage = "looking"
  /\ \E rs \in (IF call[c].op \in TreeOps THEN {call[c].cands}
                 ELSE {{r} : r \in call[c].cands \ Seen(call[c])}) :
       LET x == [call[c] EXCEPT !.seen = [r \in Seen(call[c]) \cup rs |->
                                           IF r \in rs THEN assigned[r] ELSE call[c].seen[r]]]
           enough == Seen(x) = x.cands \/ (x.op \notin TreeOps /\ Covered(x))
       IN  \E y \in (IF enough THEN Planned(x) ELSE {x}) : call' = [call EXCEPT ![c] = y]
  /\ UNCHANGED <<resource, table, assigned, live>>
------------------------------------------------------------------------------
(* Statements.                                                             *)
Advance(c, todo) ==
  call' = [call EXCEPT ![c].todo = todo, ![c].stage = IF todo = <<>> THEN "done" ELSE "running"]
Throw(c) == call' = [call EXCEPT ![c] = [@ EXCEPT !.todo = <<>>, !.stage = "failed"]]

InsertRow(c, s) ==
  \E r \in Fresh :
    /\ table' = [table EXCEPT ![r] = s.row]
    /\ assigned' = [assigned EXCEPT ![r] = {}]
    /\ Advance(c, [i \in 1..(Len(call[c].todo) - 1) |->
                    [call[c].todo[i + 1] EXCEPT !.rule = IF @ = New THEN r ELSE @]])

(* Inserted assignments: the pair is unique and the rule must exist; "pin" *)
(* is one statement for all its profiles, "assign" one for each, "join"    *)
(* for the profile the rule lacks, and "pinquietly" ignores a duplicate.   *)
InsertAssignments(c, s, ks) ==
  IF table[s.rule] = NoRule \/ (s.do # "pinquietly" /\ ks \cap assigned[s.rule] # {})
  THEN Throw(c) /\ UNCHANGED <<table, assigned>>
  ELSE /\ assigned' = [assigned EXCEPT ![s.rule] = @ \cup ks]
       /\ Advance(c, (IF s.keys = ks THEN <<>> ELSE <<[s EXCEPT !.keys = @ \ ks]>>) \o Tail(call[c].todo))
       /\ UNCHANGED table

AssignKeys(c, s) ==
  IF s.do = "assign" THEN \E k \in s.keys : InsertAssignments(c, s, {k})
  ELSE InsertAssignments(c, s, s.keys)

UpdateRow(c, s) ==
  /\ table' = [table EXCEPT ![s.rule] =
                 IF @ = NoRule THEN @
                 ELSE IF s.do = "rename" THEN [@ EXCEPT !.agent = FALSE] ELSE [@ EXCEPT !.level = s.row]]
  /\ Advance(c, Tail(call[c].todo)) /\ UNCHANGED assigned

(* "remove" is two statements: the assignments go first, then the row.     *)
DeleteRows(c, s) ==
  /\ table' = [table EXCEPT ![s.rule] = IF s.do = "delete" THEN NoRule ELSE @]
  /\ assigned' = [assigned EXCEPT ![s.rule] = IF s.do = "unassign" THEN @ \ s.keys ELSE {}]
  /\ Advance(c, (IF s.do = "remove" THEN <<Do("delete", s.rule)>> ELSE <<>>) \o Tail(call[c].todo))

(* The assignments of the rule to expose: it gains the profile unless it   *)
(* is global or has it already.                                            *)
Unless(c, needless) ==
  Advance(c, IF needless THEN <<>> ELSE Tail(call[c].todo)) /\ UNCHANGED <<table, assigned>>
LookAtRowAssigned(c, s) == Unless(c, call[c].key \in assigned[s.rule])       \* mutant
LookAtRow(c, s) == Unless(c, assigned[s.rule] = {} \/ call[c].key \in assigned[s.rule])

Execute(c) ==
  /\ call[c].stage = "running"
  /\ LET s == Head(call[c].todo)
     IN  CASE s.do = "insert" -> InsertRow(c, s)
           [] s.do \in {"assign", "pin", "pinquietly", "join"} -> AssignKeys(c, s)
           [] s.do \in {"change", "rename"} -> UpdateRow(c, s)
           [] s.do \in {"unassign", "clear", "remove", "delete"} -> DeleteRows(c, s)
           [] s.do = "look" -> LookAtRow(c, s)
  /\ UNCHANGED <<resource, live>>

(* The call answers; or its process is killed between two statements.      *)
Return(c) ==
  /\ call[c].stage \in {"done", "failed"}
  /\ call' = [call EXCEPT ![c] = Idle] /\ UNCHANGED <<resource, table, assigned, live>>
Crash(c) ==
  /\ call[c].stage = "running"
  /\ call' = [call EXCEPT ![c] = Idle] /\ UNCHANGED <<resource, table, assigned, live>>

RevokeKey(k) ==
  /\ k \in live /\ live' = live \ {k}
  /\ UNCHANGED <<resource, table, assigned, call>>

(* The file may be one that the agent of a profile is just creating: the   *)
(* grant the creation gets is then the first call.                         *)
Init ==
  /\ resource \in {"mail", "file"}
  /\ table = [r \in RuleIds |-> NoRule] /\ assigned = [r \in RuleIds |-> {}] /\ live = Keys
  /\ \/ call = [c \in Callers |-> Idle]
     \/ \E c \in Callers, k \in Keys, row \in {Row("file", "write", TRUE), Row("drive", "write", TRUE)} :
          LET x == [Idle EXCEPT !.op = "created", !.key = k, !.want = row, !.before = Access]
          IN  resource = "file" /\ \E y \in Planned(x) : call = [d \in Callers |-> IF d = c THEN y ELSE Idle]

Next ==
  \/ \E c \in Callers : Begin(c) \/ Read(c) \/ Look(c) \/ Execute(c) \/ Return(c) \/ Crash(c)
  \/ \E k \in Keys : RevokeKey(k)

Spec == Init /\ [][Next]_vars
------------------------------------------------------------------------------
TypeOK ==
  /\ resource \in {"mail", "file"} /\ live \in SUBSET Keys
  /\ \A r \in RuleIds : /\ table[r] \in Rows \cup {NoRule}
                        /\ table[r] # NoRule => table[r].service \in Services(resource)
                        /\ assigned[r] \in SUBSET Keys
                        /\ table[r] = NoRule => assigned[r] = {}
  /\ \A c \in Callers :
       /\ call[c].stage \in {"idle", "reading", "looking", "running", "done", "failed"}
       /\ call[c].stage = "running" <=> call[c].todo # <<>>
       /\ call[c].cands \in SUBSET RuleIds /\ call[c].alone \in BOOLEAN

SendRank(access) == CASE access = "none" -> 0 [] access = "one" -> 1 [] access = "all" -> 2
FileRank(access) == CASE access = "block" -> 0 [] access = "none" -> 1 [] access = "read" -> 2 [] access = "write" -> 3
Grants == {"create", "assign", "anyone", "approve", "expose", "created"}
Completed(ops) == {c \in Callers : call[c].op \in ops /\ call[c].stage = "done" /\ call[c].alone}

(* A call that gives one profile something never takes from another what   *)
(* its rules allow: not when it ends, and not between two of its           *)
(* statements, where it may be killed (actions.ts:805, :1014).             *)
NeverNarrowed ==
  \A c \in Callers : call[c].op \in Grants /\ call[c].alone =>
    \A k \in live \ {call[c].key} :
      /\ SendRank(Access[k].send) >= SendRank(call[c].before[k].send)
      /\ FileRank(Access[k].file) >= FileRank(call[c].before[k].file)

(* When an approval says that the agent can retry, the rules allow what    *)
(* was asked for, unless a block stood in the way (no link asks for that). *)
ApprovalSatisfiesRetry ==
  \A c \in Completed({"anyone", "approve"}) :
    LET k == call[c].key
    IN  IF resource = "mail" THEN SendRank(SendAccess(k)) >= SendRank(call[c].want)
        ELSE call[c].before[k].file # "block" => FileRank(FileAccess(k)) >= FileRank(call[c].want)

(* Setting, inheriting or clearing one profile's access to a node leaves   *)
(* every other live profile with the access it had (actions.ts:1590).      *)
OthersUntouched ==
  \A c \in Completed(TreeOps) : \A k \in live \ {call[c].key} : Access[k] = call[c].before[k]

(* A setting is what the node is for the profile afterwards, as long as no *)
(* tree setting on it is global; inherit leaves the profile nothing but    *)
(* the agent's own grant, whatever mix of own, shared, global and per-file *)
(* rules it had.                                                           *)
SettingDecides ==
  /\ \A c \in Completed({"set"}) :
       (\A r \in Existing : table[r].service = "drive" => table[r].agent \/ assigned[r] # {})
         => TreeAccess(call[c].key) = call[c].want
  /\ \A c \in Completed({"inherit"}) : \A row \in Deciding(call[c].key) : row.agent

(* A row the agent's creation made is never changed by the tree's calls:   *)
(* the owner's exposing the file first makes it the owner's.               *)
AgentRowsKept ==
  [][\A c \in Callers, r \in RuleIds :
       call[c].op \in TreeOps /\ call'[c] # call[c] /\ table[r] # NoRule /\ table[r].agent
         => table'[r] = table[r] /\ assigned'[r] = assigned[r]]_vars

(* What the approval's own message says, read with the tree engine: after  *)
(* it the agent can retry (googleApiPolicy.ts:707, actions.ts:1345).       *)
ApprovalSatisfiesTreeRetry ==
  \A c \in Completed({"approve"}) :
    resource = "file" /\ call[c].before[call[c].key].tree # "block"
      => FileRank(TreeAccess(call[c].key)) >= FileRank(call[c].want)
=============================================================================
