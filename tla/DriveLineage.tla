---------------------------- MODULE DriveLineage ----------------------------
(***************************************************************************)
(* The folder-inherited Drive access of one server instance.  Requests     *)
(* walk from a file up through its folders, hop by hop, each hop answered  *)
(* by the cache or by Google, while files are moved, unshared and deleted. *)
(* The lineage they find decides by its nearest setting.                   *)
(***************************************************************************)
EXTENDS Integers, FiniteSets, Sequences

CONSTANTS
  Users,          \* token owners
  Nodes,          \* files and folders
  Files,          \* those that requests ask for
  Walkers,        \* requests in progress in the instance
  CACHE_TTL,      \* the age from which an entry of the cache is not used, in ticks
  Latency,        \* the ticks a request can hold an answer of Google's: its own time limit
  MAX_LINEAGE_HOPS,
  Seen,           \* where each user sees each node at first
  Settings,       \* settings that a profile may have on nodes, each with its default
  Moves,          \* the moves that are made: a node, and where to
  MaxMoves        \* bound on their number

ASSUME Times == CACHE_TTL \in Nat /\ Latency \in Nat /\ CACHE_TTL > 0
ASSUME HopsNat == MAX_LINEAGE_HOPS \in Nat

VARIABLES
  place,          \* where a node is, as a user's token sees it
  still,          \* for how long nothing has moved in a user's sight
  moves,
  cache,          \* by user and node: what was seen, and the age of the entry
  walk            \* the requests

lineage_vars == <<place, still, moves, cache, walk>>

(* Ages count no further than they matter.                                 *)
Bound == CACHE_TTL + Latency
Older(age, limit) == IF age < limit THEN age + 1 ELSE limit

(* A node is in another one, or on top: the user's own, another's, a       *)
(* shared drive's root, or out of the user's sight.                        *)
Tops == {"mine", "shared", "drive", "gone"}
Place == Nodes \cup Tops

(* What a chain of nodes ends in, beyond them: the user's own root or      *)
(* nothing, or one of the pseudo-roots.                                    *)
SharedWithMe == "shared-with-me"
SharedDrives == "shared-drives"
Ends == {"own", SharedWithMe, SharedDrives, "met", "file_not_found", "lineage_unavailable", "lineage_too_deep"}

(* The nodes that n is in, itself included, by the number of hops.         *)
Above(where, n) ==
  LET up[k \in 0..Cardinality(Nodes)] ==
        IF k = 0 THEN {n} ELSE {where[x] : x \in up[k - 1]} \cap Nodes
  IN  up
Inside(where, n, m) == \E k \in 0..Cardinality(Nodes) : m \in Above(where, n)[k]

(* Ids are told from kinds of places, and nothing is inside of itself.     *)
ASSUME Forest ==
  /\ IsFiniteSet(Nodes) /\ Nodes \cap (Tops \cup {"none"}) = {} /\ Files \subseteq Nodes /\ Users # {}
  /\ Seen \in [Users -> [Nodes -> Place]]
  /\ \A u \in Users, n \in Nodes : Seen[u][n] \in Nodes => ~Inside(Seen[u], Seen[u][n], n)

NoEntry == [meta |-> "none", age |-> 0]
NoWalk == [stage |-> "idle", user |-> CHOOSE u \in Users : TRUE, chain |-> <<>>, settled |-> FALSE,
         reply |-> "none", held |-> 0, end |-> "none"]
WalkAt(w, stage) == walk[w].stage = stage
Current(w) == walk[w].chain[Len(walk[w].chain)]
------------------------------------------------------------------------------
(* A walk that comes back to a node ends there: the entries of the cache   *)
(* are of different times, and can form a cycle that never was.            *)
MetNever(chain, meta) == FALSE                                               \* mutant
Met(chain, meta) == \E i \in DOMAIN chain : chain[i] = meta

(* resolveDriveLineage, from the node it looks at to the next: what its    *)
(* place says, and whether the walk goes on.                               *)
Onward(q, meta) ==
  LET chain == q.chain
      ended(end) == [q EXCEPT !.stage = "done", !.end = end, !.reply = "none", !.held = 0]
  IN  CASE meta = "gone" /\ Len(chain) = 1 -> ended("file_not_found")
        [] meta = "gone" /\ Len(chain) > 1 -> ended(SharedWithMe)
        [] meta = "drive" -> ended(SharedDrives)
        [] meta = "shared" -> ended(SharedWithMe)
        [] meta = "mine" -> ended("own")
        [] meta \in Nodes /\ Len(chain) > MAX_LINEAGE_HOPS -> ended("lineage_too_deep")
        [] meta \in Nodes /\ Len(chain) <= MAX_LINEAGE_HOPS /\ Met(chain, meta) -> ended("met")
        [] OTHER -> [q EXCEPT !.stage = "look", !.chain = Append(chain, meta), !.reply = "none", !.held = 0]
Advance(w, meta) == walk' = [walk EXCEPT ![w] = Onward(walk[w], meta)]

(* A request for a file, or a listing that names it: the listing's own     *)
(* answer goes into the cache before the walk (resolveLineageFrom).        *)
Begin(w, u, f) == [NoWalk EXCEPT !.stage = "look", !.user = u, !.chain = <<f>>, !.settled = still[u] = Bound]
Check(w) ==
  /\ WalkAt(w, "idle")
  /\ \E u \in Users, f \in Files : walk' = [walk EXCEPT ![w] = Begin(w, u, f)]
  /\ UNCHANGED <<place, still, moves, cache>>
List(w) ==
  /\ WalkAt(w, "idle")
  /\ \E u \in Users, f \in Files :
       /\ place[u][f] # "gone"
       /\ walk' = [walk EXCEPT ![w] = [Begin(w, u, f) EXCEPT !.stage = "store", !.reply = place[u][f], !.held = 0]]
  /\ UNCHANGED <<place, still, moves, cache>>

(* getMeta: a hit is used as it is; otherwise Google is asked, and its     *)
(* answer kept with the time at which it is stored.                        *)
Hit(w) ==
  LET e == cache[walk[w].user][Current(w)]
  IN  e.meta # "none" /\ e.age < CACHE_TTL
UseHitAndRenew(w) ==                                                         \* mutant
  /\ WalkAt(w, "look") /\ Hit(w)
  /\ Advance(w, cache[walk[w].user][Current(w)].meta)
  /\ cache' = [cache EXCEPT ![walk[w].user][Current(w)].age = 0]
  /\ UNCHANGED <<place, still, moves>>
UseHit(w) ==
  /\ WalkAt(w, "look") /\ Hit(w)
  /\ Advance(w, cache[walk[w].user][Current(w)].meta)
  /\ UNCHANGED <<place, still, moves, cache>>
Fetch(w) ==
  /\ WalkAt(w, "look") /\ ~Hit(w)
  /\ walk' = [walk EXCEPT ![w] = [@ EXCEPT !.stage = "store", !.reply = place[walk[w].user][Current(w)], !.held = 0]]
  /\ UNCHANGED <<place, still, moves, cache>>
FetchFails(w) ==
  /\ WalkAt(w, "look") /\ ~Hit(w)
  /\ walk' = [walk EXCEPT ![w] = [@ EXCEPT !.stage = "done", !.end = "lineage_unavailable"]]
  /\ UNCHANGED <<place, still, moves, cache>>
Store(w) ==
  /\ WalkAt(w, "store")
  /\ cache' = [cache EXCEPT ![walk[w].user][Current(w)] = [meta |-> walk[w].reply, age |-> 0]]
  /\ Advance(w, walk[w].reply)
  /\ UNCHANGED <<place, still, moves>>
Answer(w) ==
  /\ WalkAt(w, "done") /\ walk' = [walk EXCEPT ![w] = NoWalk]
  /\ UNCHANGED <<place, still, moves, cache>>

(* An entry is lost: evicted as the oldest, or with the instance.          *)
Evict(u, n) ==
  /\ cache[u][n] # NoEntry /\ cache' = [cache EXCEPT ![u][n] = NoEntry]
  /\ UNCHANGED <<place, still, moves, walk>>

(* Someone moves a node in a user's sight, never into itself.              *)
Move(u, n, p) ==
  /\ moves < MaxMoves /\ p # place[u][n] /\ (p \in Nodes => ~Inside(place[u], p, n))
  /\ place' = [place EXCEPT ![u][n] = p] /\ still' = [still EXCEPT ![u] = 0] /\ moves' = moves + 1
  /\ walk' = [w \in Walkers |-> [walk[w] EXCEPT !.settled = @ /\ walk[w].user # u]]
  /\ UNCHANGED cache
Tick ==
  /\ \A w \in Walkers : WalkAt(w, "store") => walk[w].held < Latency
  /\ still' = [u \in Users |-> Older(still[u], Bound)]
  /\ cache' = [u \in Users |-> [n \in Nodes |-> IF cache[u][n] = NoEntry THEN NoEntry
                                               ELSE [cache[u][n] EXCEPT !.age = Older(@, CACHE_TTL)]]]
  /\ walk' = [w \in Walkers |-> IF WalkAt(w, "store") THEN [walk[w] EXCEPT !.held = @ + 1] ELSE walk[w]]
  /\ UNCHANGED <<place, moves>>

LineageInit ==
  /\ place = Seen /\ still = [u \in Users |-> Bound] /\ moves = 0
  /\ cache = [u \in Users |-> [n \in Nodes |-> NoEntry]]
  /\ walk = [w \in Walkers |-> NoWalk]
LineageNext ==
  \/ \E w \in Walkers :
       Check(w) \/ List(w) \/ UseHit(w) \/ Fetch(w) \/ FetchFails(w) \/ Store(w) \/ Answer(w)
  \/ \E u \in Users, n \in Nodes : Evict(u, n) \/ \E p \in Place : <<n, p>> \in Moves /\ Move(u, n, p)
  \/ Tick

LineageSpec == LineageInit /\ [][LineageNext]_lineage_vars
------------------------------------------------------------------------------
(* effectiveDriveAccess: the nearest node of a lineage with a setting      *)
(* decides, else the default.  No access comes of an error.                *)
Lineage(q) == IF q.end \in {SharedWithMe, SharedDrives} THEN Append(q.chain, q.end) ELSE q.chain
Effective(lineage, s) ==
  LET set == {i \in DOMAIN lineage : s.on[lineage[i]] # "none"}
  IN  IF set = {} THEN s.default ELSE s.on[lineage[CHOOSE i \in set : \A j \in set : i <= j]]
Decision(q, s) ==
  IF q.end \in {"file_not_found", "lineage_unavailable", "lineage_too_deep"} THEN q.end ELSE Effective(Lineage(q), s)

LineageTypeOK ==
  /\ place \in [Users -> [Nodes -> Place]] /\ still \in [Users -> 0..Bound] /\ moves \in Nat
  /\ cache \in [Users -> [Nodes -> [meta : Place \cup {"none"}, age : 0..CACHE_TTL]]]
  /\ \A w \in Walkers :
       /\ walk[w].stage \in {"idle", "look", "store", "done"} /\ walk[w].user \in Users
       /\ walk[w].chain \in Seq(Nodes) /\ Len(walk[w].chain) <= MAX_LINEAGE_HOPS + 1
       /\ Cardinality({walk[w].chain[i] : i \in DOMAIN walk[w].chain}) = Len(walk[w].chain)
       /\ walk[w].end \in Ends \cup {"none"} /\ walk[w].reply \in Place \cup {"none"} /\ walk[w].held \in 0..Latency

(* "a moved file is seen within that bound" (driveLineage.ts:16): once     *)
(* nothing has moved in a user's sight for as long as an entry is used and *)
(* a request may last, every decision is that of the settings on what the  *)
(* file is in: the one that all the others with a setting contain.         *)
TrueDecision(u, f, s) ==
  LET up == Above(place[u], f)
      in == {n \in Nodes : Inside(place[u], f, n)}
      top == CHOOSE n \in in : place[u][n] \in Tops
      beyond == IF place[u][top] = "drive" THEN SharedDrives
                ELSE IF place[u][top] \in {"shared", "gone"} THEN SharedWithMe ELSE "nothing"
      set == {n \in in : s.on[n] # "none"}
  IN  CASE place[u][f] = "gone" -> "file_not_found"
        [] place[u][f] # "gone" /\ Cardinality(in) > MAX_LINEAGE_HOPS + 1 -> "lineage_too_deep"
        [] OTHER -> IF set # {} THEN s.on[CHOOSE n \in set : \A m \in set : Inside(place[u], n, m)]
                    ELSE IF beyond # "nothing" /\ s.on[beyond] # "none" THEN s.on[beyond] ELSE s.default
SettledIsSeen ==
  \A w \in Walkers :
    WalkAt(w, "done") /\ walk[w].end # "lineage_unavailable" /\ walk[w].settled =>
      \A s \in Settings : Decision(walk[w], s) = TrueDecision(walk[w].user, walk[w].chain[1], s)
==============================================================================
