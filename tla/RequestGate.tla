----------------------------- MODULE RequestGate -----------------------------
(***************************************************************************)
(* A request of the agent, through the MCP server or the REST proxy, while *)
(* the tables that decide about it are being written.  The request makes   *)
(* its reads one by one, decides on what it read, and is served or refused.*)
(* ApiPolicy says what a raw call is taken for and what Google does for it;*)
(* Surfaces in which order each surface reads; AccessTables and RuleTables *)
(* how the tables are written meanwhile.                                   *)
(***************************************************************************)
EXTENDS Surfaces, AccessTables

CONSTANT Scenario       \* the tables that move: one family of them in each behaviour

VARIABLES
  world,          \* the scenario of this behaviour
  request         \* the request

gate_vars == <<vars, access, world, request>>

(* The steps that read a table which moves in the scenario; the others     *)
(* pass.  A request starts with its credential: in the scenarios where the *)
(* credentials stand, a tool call and a REST call of a profile differ only *)
(* in the rest of their plans.                                             *)
Moving == [rules |-> {"rules", "own", "everyone", "check"},
           mailboxes |-> {"rows", "delegation", "owner"},
           credentials |-> {"connection", "profile", "standing", "temporary", "parent"}]
Kept(w, r) == SelectSeq(r.plan, LAMBDA step : step \in Moving[w] \cup {"serve"})
Surface(r) == IF Head(r.plan) = "connection" THEN "mcp" ELSE Head(r.plan)

(* What a request must have had for what Google does for it.               *)
RuleEffects == {"mail", "send", "read", "write"}
Needed(w, r) ==
  CASE w = "rules" -> IF r.effect \in RuleEffects THEN {"rules"} ELSE {}
    [] w = "mailboxes" -> IF r.effect \in {"mail", "send", "mailbox"} \/ (Surface(r) = "mcp" /\ r.effect \in RuleEffects)
                          THEN {"row", "delegation"} ELSE {}
    [] w = "credentials" -> {"profile", IF Surface(r) = "mcp" THEN "connection" ELSE Surface(r)}

(* The requests of all tools and calls, as far as the scenario tells them  *)
(* apart.                                                                  *)
Arriving ==
  [w \in Scenario |->
     {[plan |-> Kept(w, r), check |-> r.check, effect |-> r.effect, needed |-> Needed(w, r)] :
        r \in {x \in McpRequests \cup RestRequests : Last(x.plan) # "refuse"}}]

NoRequest == [stage |-> "idle", plan |-> <<>>, check |-> "nothing", effect |-> "nothing", needed |-> {},
              key |-> NoKey, hard |-> FALSE, rules |-> <<>>, own |-> {},
              everyone |-> {}, open |-> {}, touched |-> FALSE]
------------------------------------------------------------------------------
(* The facts a request can depend on, as the tables stand.                 *)
Facts == {"connection", "profile", "standing", "temporary", "row", "delegation", "rules"}

(* hard is a recipient outside the one that a rule names, or an email that *)
(* a hiding rule matches.                                                  *)
Allows(send, file, hidden, check, hard) ==
  CASE check = "send" -> IF hard THEN send = "all" ELSE send # "none"
    [] check = "mail" -> ~(hard /\ hidden)
    [] check = "read" -> file \in {"read", "write"}
    [] check = "write" -> file = "write"
    [] OTHER -> TRUE
LevelsAllow(gmail, file, check, hard) == Allows(SendLevel(gmail), FileLevel(file), "hide" \in gmail, check, hard)
RulesAllow(k, check, hard) == LevelsAllow(LevelsFor(k, "gmail"), LevelsFor(k, "file"), check, hard)

Stands(fact, q) ==
  CASE fact = "connection" -> connection = Connection("approved", q.key)
    [] fact = "profile" -> q.key \in live
    [] fact = "standing" -> q.key \in current
    [] fact = "temporary" -> temporary[q.key] = "live"
    [] fact = "row" -> q.key \in rows
    [] fact = "delegation" -> delegation = "active"
    [] fact = "rules" -> RulesAllow(q.key, q.effect, q.hard)
StandFor(q) == IF q.key = NoKey THEN {} ELSE {f \in q.needed : Stands(f, q)}
------------------------------------------------------------------------------
Step == Head(request.plan)
Going == request.stage = "going"
Go(q) == [q EXCEPT !.plan = Tail(@), !.open = @ \cup StandFor(q)]
Pass(q) == request' = Go(q)
Stop == request' = [request EXCEPT !.stage = "refused"]
PassIf(fact) ==
  /\ IF Stands(fact, request) THEN Pass(request) ELSE Stop
  /\ UNCHANGED <<vars, access, world>>

(* What arrives: a tool call runs as the profile its connection is bound   *)
(* to, a REST call carries a profile's secret or a temporary key of it.  A *)
(* call that is refused for its class reads no table after its credential  *)
(* and is left out.  The writers of the rules treat profiles alike, so any *)
(* one of them stands for all while the rules move.                        *)
Arrive ==
  /\ request.stage = "idle"
  /\ \E r \in Arriving[world], k \in Keys, hard \in BOOLEAN :
       /\ world = "rules" => r.effect \in (IF resource = "mail" THEN {"send", "mail"} ELSE {"read", "write"})
       /\ hard => world = "rules" /\ resource = "mail"
       /\ world = "rules" => k = Default
       /\ LET q == [NoRequest EXCEPT !.stage = "going", !.plan = r.plan, !.check = r.check, !.effect = r.effect,
                      !.needed = r.needed, !.hard = hard,
                      !.key = IF Head(r.plan) = "connection" THEN NoKey ELSE k]
          IN  request' = [q EXCEPT !.open = StandFor(q)]
  /\ UNCHANGED <<vars, access, world>>

(* resolveConnection: an unknown connection is created, bound to the       *)
(* Default Profile; then the profile it is bound to must be live.          *)
ReadConnection ==
  /\ Going /\ Step = "connection"
  /\ \/ /\ connection.status = "none" /\ FirstUse
        /\ request' = [request EXCEPT !.plan = Tail(@), !.key = Default, !.open = {"connection"}]
        /\ UNCHANGED <<current, temporary, delegation, rows, pending>>
     \/ /\ connection.status = "approved" /\ Pass([request EXCEPT !.key = connection.key])
        /\ UNCHANGED access
     \/ /\ connection.status \in {"pending", "blocked"} /\ Stop
        /\ UNCHANGED access
  /\ UNCHANGED <<vars, world>>
ReadProfile == Going /\ Step \in {"profile", "parent"} /\ PassIf("profile")

(* The proxy's own key: one row holds the secret and the revocation.       *)
ReadSecret ==                                                               \* mutant
  /\ Going /\ Step = "standing"
  /\ IF request.key \in current THEN Pass(request) ELSE Stop
  /\ UNCHANGED <<vars, access, world>>
ReadStanding ==
  /\ Going /\ Step = "standing"
  /\ IF request.key \in current \cap live THEN Pass(request) ELSE Stop
  /\ UNCHANGED <<vars, access, world>>
ReadTemporary == Going /\ Step = "temporary" /\ PassIf("temporary")

(* The mailbox: its row, and then the row's delegation; the owner of the   *)
(* mailbox is looked up through the delegation once more.                  *)
ReadRows == Going /\ Step = "rows" /\ PassIf("row")
ReadDelegation == Going /\ Step \in {"delegation", "owner"} /\ PassIf("delegation")

(* loadApplicableRules: three statements.                                  *)
ReadRules ==
  /\ Going /\ Step = "rules" /\ Pass([request EXCEPT !.rules = table])
  /\ UNCHANGED <<vars, access, world>>
ReadOwnAssignments ==
  /\ Going /\ Step = "own" /\ Pass([request EXCEPT !.own = {r \in RuleIds : request.key \in assigned[r]}])
  /\ UNCHANGED <<vars, access, world>>
ReadAssignments ==
  /\ Going /\ Step = "everyone" /\ Pass([request EXCEPT !.everyone = {r \in RuleIds : assigned[r] # {}}])
  /\ UNCHANGED <<vars, access, world>>

ApplicableOwnOnly == {r \in RuleIds : request.rules[r] # NoRule /\ r \in request.own}   \* mutant
Applicable == {r \in RuleIds : request.rules[r] # NoRule /\ (r \in request.own \/ r \notin request.everyone)}
LevelsRead(service) == {request.rules[r].level : r \in {x \in Applicable : request.rules[x].service = service}}
Check ==
  /\ Going /\ Step = "check"
  /\ LET q == [request EXCEPT !.rules = <<>>, !.own = {}, !.everyone = {}]
     IN  IF LevelsAllow(LevelsRead("gmail"), LevelsRead("file"), request.check, request.hard) THEN Pass(q)
         ELSE request' = [q EXCEPT !.stage = "denied"]
  /\ UNCHANGED <<vars, access, world>>
Serve ==
  /\ Going /\ Step = "serve" /\ request' = [request EXCEPT !.stage = "served"]
  /\ UNCHANGED <<vars, access, world>>
Answer ==
  /\ request.stage \in {"served", "refused", "denied"} /\ request' = NoRequest
  /\ UNCHANGED <<vars, access, world>>

RequestNext ==
  \/ Arrive \/ ReadConnection \/ ReadProfile \/ ReadStanding \/ ReadTemporary \/ ReadRows \/ ReadDelegation
  \/ ReadRules \/ ReadOwnAssignments \/ ReadAssignments \/ Check \/ Serve \/ Answer
------------------------------------------------------------------------------
(* Everyone else.  A request in progress notes which facts came true, and  *)
(* that the rules were written.                                            *)
Others ==
  \/ world = "rules" /\ Next /\ UNCHANGED <<access, live>>
  \/ /\ world = "mailboxes"
     /\ MailboxesNext \/ (\E s \in pending : Abandon(s))
     /\ UNCHANGED <<resource, table, assigned, call>>
  \/ /\ world = "credentials"
     /\ CredentialsNext \/ (\E s \in pending : Abandon(s)) \/ (\E k \in Keys : EndProfile(k))
     /\ UNCHANGED <<resource, table, assigned, call>>

OthersNext ==
  /\ request.stage \in {"idle", "going"} /\ Others /\ UNCHANGED world
  /\ \E q \in {request} :
       request' = IF q.stage = "idle" THEN q
                  ELSE [q EXCEPT !.open = @ \cup StandFor(q)', !.touched = @ \/ <<table, assigned>>' # <<table, assigned>>]

(* What does not move stands open.                                         *)
GateInit ==
  /\ world \in Scenario /\ request = NoRequest
  /\ IF world = "credentials" THEN CredentialsInit ELSE CredentialsOpen
  /\ IF world = "mailboxes" THEN MailboxesInit ELSE MailboxesOpen
  /\ pending = {}
  /\ IF world = "rules" THEN Init
     ELSE /\ resource = "mail" /\ live = Keys /\ assigned = [r \in RuleIds |-> {}]
          /\ call = [c \in Callers |-> Idle] /\ table = [r \in RuleIds |-> NoRule]
GateNext == RequestNext \/ OthersNext
GateSpec == GateInit /\ [][GateNext]_gate_vars
------------------------------------------------------------------------------
GateTypeOK ==
  /\ AccessTypeOK /\ world \in Scenario
  /\ request.stage \in {"idle", "going", "served", "refused", "denied"}
  /\ request.key \in Keys \cup {NoKey} /\ request.open \subseteq Facts
  /\ request.stage \in {"served", "denied"} => request.key # NoKey
  /\ request.stage = "going" => Last(request.plan) = "serve"

(* What a step of a plan establishes of the facts.                         *)
Reads(step) ==
  CASE step = "connection" -> {"connection"}
    [] step \in {"profile", "parent"} -> {"profile"}
    [] step = "standing" -> {"profile", "standing"}
    [] step = "temporary" -> {"temporary"}
    [] step = "rows" -> {"row"}
    [] step \in {"delegation", "owner"} -> {"delegation"}
    [] step = "check" -> {"rules"}
    [] OTHER -> {}
StillRead(f, plan) == \E i \in DOMAIN plan : f \in Reads(plan[i])
Before(step, plan, i) == \E j \in 1..(i - 1) : plan[j] = step
Judges(check, effect) == check = effect \/ (check = "write" /\ effect = "read") \/ effect \notin RuleEffects
PlanShape(plan) ==
  /\ plan \in Seq(STRING) /\ plan # <<>>
  /\ \A i \in DOMAIN plan :
       /\ plan[i] = "serve" <=> i = Len(plan)
       /\ plan[i] = "connection" => i = 1
       /\ plan[i] = "check" => ~Before("check", plan, i)
Covers(r) ==
  /\ PlanShape(r.plan) /\ r.effect # "never"
  /\ \A i \in DOMAIN r.plan : r.plan[i] = "check" => \A s \in {"rules", "own", "everyone"} : Before(s, r.plan, i)
  /\ \A f \in r.needed : StillRead(f, r.plan)
  /\ "rules" \in r.needed => Judges(r.check, r.effect)

(* No tool, and no spelling of a raw call, gets past the classifier: each  *)
(* that is not refused makes every read which its effect at Google depends *)
(* on, whatever the code took it for, in an order that decides once, after *)
(* the rules are read and before Google is asked, for the level of that    *)
(* effect (googleApiPolicy.ts, the branches of the REST proxy).            *)
ArrivalsCovered == request.stage = "idle" => \A r \in Arriving[world] : Covers(r)

(* Nothing is done for a request that its profile may not have done: each  *)
(* fact that what Google did depends on, whatever the code took the call   *)
(* for, stood at some moment since the request arrived.  A request whose   *)
(* rules were written meanwhile is excepted: see RulesAsTheyStood.         *)
OnlyWhatStood ==
  request.stage = "served" =>
    /\ request.effect # "never" /\ request.needed \ (IF request.touched THEN {"rules"} ELSE {}) \subseteq request.open

(* A rule that nobody wrote meanwhile is not misread: a denial means that  *)
(* the rules do not allow what was asked for.                              *)
DeniedByTheRules ==
  request.stage = "denied" /\ ~request.touched =>
    ~RulesAllow(request.key, request.check, request.hard) \/ request.check # request.effect

(* "Key-specific rule applies only to assigned key": what is served was    *)
(* allowed by the rules, as they stood at some moment of the request       *)
(* (03_multi_email_scoping.md:34).                                         *)
RulesAsTheyStood ==
  request.stage = "served" /\ request.effect \in {"send", "read", "write"} => "rules" \in request.open
==============================================================================
