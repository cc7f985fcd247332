---------------------------- MODULE WallRouting ----------------------------
(***************************************************************************)
(* An approval link opened without a session ends at the sign-in wall.     *)
(* The hit is recorded against the link's owner, and the owner's next      *)
(* dashboard page sends them back to the approval.  Whether it does is     *)
(* decided from the clocks in the link's row alone, which hits, pages and  *)
(* dashboards write without waiting for one another.                       *)
(***************************************************************************)
EXTENDS Integers, FiniteSets

CONSTANTS
  Links,          \* the owner's requests, each with its row
  Marks(_),       \* what the marker in a browser tells of a link: its action and target
  Tabs,           \* dashboard pages the owner may be loading
  RouteWindow,    \* ROUTE_WINDOW_MS, in ticks
  RepeatWindow,   \* APPROVAL_WALL_REPEAT_WINDOW_S, in ticks
  MaxTime,        \* bound on the clock
  MaxHits,        \* bound on the hits sent
  MaxFaults       \* bound on statements of the owner's pages that fail or land late

ASSUME Windows == RouteWindow \in Nat /\ RepeatWindow \in Nat
ASSUME Bounds == MaxTime \in Nat /\ MaxHits \in Nat /\ MaxFaults \in Nat

VARIABLES
  now,
  row,            \* the clocks of each link's row in approval_requests
  sent,           \* a hit on its way to the recorder: when the wall was met
  marker,         \* the wall's cookie in the browser that holds no session
  tab,
  hits, faults,   \* how many there were
  due,            \* history: when the last recorded hit met the wall, unless the owner was brought to the page since
  met,            \* history: when the owner was last brought to the page, while a hit may still be compared with it
  shown           \* history: the links that were routed to and shown, since their last recorded hit

history == <<due, met, shown>>
vars == <<now, row, sent, marker, tab, hits, faults, history>>

Never == -1
Time == Never..MaxTime
Row == [wallHit : Time, routed : Time, opened : Time, lastOpened : Time, approved : BOOLEAN]
Page == [stage : {"idle", "look", "mark", "page"}, link : {{}} \cup {{l} : l \in Links},
         began : Time, owed : SUBSET Links, same : BOOLEAN]
NoMarker == [of |-> {}, at |-> Never]
Idle == [stage |-> "idle", link |-> {}, began |-> Never, owed |-> {}, same |-> FALSE]

At(t, stage) == tab[t].stage = stage
Asking(l) == due[l] # Never /\ ~row[l].approved

(* Rows from before last_opened_at existed may have been opened.           *)
Init ==
  /\ now = 0
  /\ row \in [Links -> [wallHit : {Never}, routed : {Never}, opened : {Never, 0}, lastOpened : {Never},
                        approved : {FALSE}]]
  /\ sent = [l \in Links |-> Never] /\ marker = NoMarker
  /\ tab = [t \in Tabs |-> Idle]
  /\ hits = 0 /\ faults = 0
  /\ due = [l \in Links |-> Never] /\ met = [l \in Links |-> row[l].opened] /\ shown = {}
------------------------------------------------------------------------------
(* The rules of approvalRouting.ts, on a row and the page's clock.         *)
LastOpenedFirst(r) == r.opened                                               \* mutant
LastOpened(r) == IF r.lastOpened # Never THEN r.lastOpened ELSE r.opened

Routable(l, at) ==
  LET r == row[l]
  IN  /\ ~r.approved /\ r.wallHit # Never
      /\ at - r.wallHit \in 0..RouteWindow
      /\ r.routed < r.wallHit
      /\ LastOpened(r) < r.wallHit

Newest(at) ==
  {l \in Links : Routable(l, at) /\ \A m \in Links : Routable(m, at) => row[m].wallHit <= row[l].wallHit}

NewestHitIsNot(at) ==                                                        \* mutant
  \E l \in Links : ~Routable(l, at) /\ \A m \in Links : row[m].wallHit <= row[l].wallHit
NoneRoutable(at) == \A l \in Links : ~Routable(l, at)
------------------------------------------------------------------------------
(* A signed-out visit.  The middleware sends the hit on its way and leaves *)
(* a marker, unless the marker says that this is a bounce of the last one. *)
(* An agent's browser is given a marker only: that is LoseHit.             *)
Repeat(l) == marker.of = {Marks(l)} /\ now - marker.at <= RepeatWindow

MeetWall(l) ==
  /\ ~Repeat(l) /\ sent[l] = Never /\ hits < MaxHits
  /\ hits' = hits + 1
  /\ sent' = [sent EXCEPT ![l] = now]
  /\ marker' = [of |-> {Marks(l)}, at |-> now]
  /\ UNCHANGED <<now, row, tab, faults, history>>

(* The recorder reads its clock on the way to the row.                     *)
RecordHit(l) ==
  /\ sent[l] # Never
  /\ \E at \in sent[l]..now :
       row' = [row EXCEPT ![l] = [@ EXCEPT !.wallHit = at, !.routed = Never]]
  /\ due' = [due EXCEPT ![l] = IF sent[l] > met[l] THEN sent[l] ELSE Never]
  /\ shown' = shown \ {l}
  /\ sent' = [sent EXCEPT ![l] = Never]
  /\ tab' = [t \in Tabs |-> [tab[t] EXCEPT !.owed = @ \ {l}, !.same = @ /\ tab[t].link # {l}]]
  /\ UNCHANGED <<now, marker, hits, faults, met>>

LoseHit(l) ==
  /\ sent[l] # Never
  /\ sent' = [sent EXCEPT ![l] = Never]
  /\ UNCHANGED <<now, row, marker, tab, hits, faults, history>>
------------------------------------------------------------------------------
(* resolveWallRoute, on the dashboard's page: the clock, the rows, the     *)
(* mark, and the redirect that ends on the approve page.                   *)
Load(t) ==
  /\ At(t, "idle")
  /\ tab' = [tab EXCEPT ![t] = [Idle EXCEPT !.stage = "look", !.began = now, !.owed = {l \in Links : Asking(l)}]]
  /\ UNCHANGED <<now, row, sent, marker, hits, faults, history>>

Route(t) ==
  /\ At(t, "look")
  /\ \E l \in Newest(tab[t].began) :
       tab' = [tab EXCEPT ![t] = [Idle EXCEPT !.stage = "mark", !.link = {l}, !.began = now, !.same = TRUE]]
  /\ UNCHANGED <<now, row, sent, marker, hits, faults, history>>

NoRoute(t) ==
  /\ At(t, "look") /\ NoneRoutable(tab[t].began)
  /\ tab' = [tab EXCEPT ![t] = Idle]
  /\ UNCHANGED <<now, row, sent, marker, hits, faults, history>>

LookFails(t) ==
  /\ At(t, "look") /\ faults < MaxFaults
  /\ tab' = [tab EXCEPT ![t] = Idle]
  /\ faults' = faults + 1
  /\ UNCHANGED <<now, row, sent, hits, marker, history>>

Brought(l) == met' = [met EXCEPT ![l] = now] /\ due' = [due EXCEPT ![l] = Never]

MarkRouted(t) ==
  /\ At(t, "mark")
  /\ \E l \in tab[t].link, at \in tab[t].began..now :
       /\ \/ at = now /\ UNCHANGED faults
          \/ at < now /\ faults < MaxFaults /\ faults' = faults + 1
       /\ row' = [row EXCEPT ![l] = [@ EXCEPT !.routed = at]]
       /\ Brought(l)
  /\ tab' = [tab EXCEPT ![t] = [@ EXCEPT !.stage = "page", !.began = Never]]
  /\ UNCHANGED <<now, sent, marker, hits, shown>>

MarkFails(t) ==
  /\ At(t, "mark") /\ faults < MaxFaults
  /\ tab' = [tab EXCEPT ![t] = [@ EXCEPT !.stage = "page", !.began = Never]]
  /\ faults' = faults + 1
  /\ UNCHANGED <<now, row, sent, hits, marker, history>>

(* The approve page stamps the row, if that does not fail, and clears the  *)
(* marker if the browser is the one that met the wall.                     *)
Stamped(l) == [row[l] EXCEPT !.opened = IF @ = Never THEN now ELSE @, !.lastOpened = now]

Opens(l) ==
  /\ \/ row' = [row EXCEPT ![l] = Stamped(l)] /\ UNCHANGED faults
     \/ faults < MaxFaults /\ faults' = faults + 1 /\ UNCHANGED row
  /\ marker' \in {marker, NoMarker}
  /\ Brought(l)

Render(t) ==
  /\ At(t, "page")
  /\ \E l \in tab[t].link :
       /\ Opens(l)
       /\ shown' = IF tab[t].same THEN shown \cup {l} ELSE shown
  /\ tab' = [tab EXCEPT ![t] = Idle]
  /\ UNCHANGED <<now, sent, hits>>

Leave(t) ==
  /\ ~At(t, "idle")
  /\ tab' = [tab EXCEPT ![t] = Idle]
  /\ UNCHANGED <<now, row, sent, marker, hits, faults, history>>

(* The owner comes by the agent's reply, the mail or the banner.           *)
Open(l) ==
  /\ Opens(l)
  /\ UNCHANGED <<now, sent, hits, tab, shown>>

Approve(l) ==
  /\ ~row[l].approved
  /\ row' = [row EXCEPT ![l] = [@ EXCEPT !.approved = TRUE]]
  /\ UNCHANGED <<now, sent, marker, tab, hits, faults, history>>

Tick ==
  /\ now < MaxTime
  /\ now' = now + 1
  /\ marker' = IF now' - marker.at > RepeatWindow THEN NoMarker ELSE marker
  /\ met' = [l \in Links |-> IF sent[l] # Never THEN met[l] ELSE Never]
  /\ UNCHANGED <<row, sent, tab, hits, faults, due, shown>>

Next ==
  \/ \E l \in Links : MeetWall(l) \/ RecordHit(l) \/ LoseHit(l) \/ Open(l) \/ Approve(l)
  \/ \E t \in Tabs :
       \/ Load(t) \/ Route(t) \/ NoRoute(t) \/ LookFails(t)
       \/ MarkRouted(t) \/ MarkFails(t) \/ Render(t) \/ Leave(t)
  \/ Tick

Spec == Init /\ [][Next]_vars
------------------------------------------------------------------------------
TypeOK ==
  /\ now \in 0..MaxTime /\ hits \in 0..MaxHits /\ faults \in 0..MaxFaults
  /\ row \in [Links -> Row] /\ tab \in [Tabs -> Page]
  /\ sent \in [Links -> Time] /\ due \in [Links -> Time] /\ met \in [Links -> Time] /\ shown \subseteq Links
  /\ marker \in [of : {{}} \cup {{Marks(l)} : l \in Links}, at : Time]

(* "Someone who backs out of the approve page to the dashboard must not be *)
(* bounced back" (approvalRouting.ts:21): a link that the owner was routed *)
(* to and shown is not routed to again before it meets the wall again,     *)
(* even if one of the two stamps that say so was not written.              *)
NoBounceBack == [][\A t \in Tabs : Route(t) => tab'[t].link \cap shown = {}]_vars

(* "a wall hit on file for this owner" (dashboard/page.tsx:42): a page     *)
(* goes on to the profile only if every link that met the wall before the  *)
(* load, within the window, and which the owner was not brought to since,  *)
(* is approved or met the wall again: whatever hits of other links, older  *)
(* visits of the page and routes to it there were before.                  *)
VisitsLeadBack ==
  [][\A t \in Tabs : NoRoute(t) =>
       \A l \in tab[t].owed : Asking(l) => tab[t].began - due[l] > RouteWindow]_vars
==============================================================================
