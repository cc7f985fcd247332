------------------------- MODULE WallRoutingProofs -------------------------
(***************************************************************************)
(* The owner who met the wall is brought back, whatever the number of      *)
(* links and pages, the windows and the order in which the clocks are      *)
(* read and the stamps land; and the card of open requests leaves none of  *)
(* them out, however the calls that write their rows overlap.              *)
(***************************************************************************)
EXTENDS WallRouting, PendingApprovals, FiniteSetTheorems, TLAPS

(* Nothing in a row is later than now.                                     *)
Past(l) ==
  /\ sent[l] <= now /\ met[l] <= now
  /\ row[l].wallHit <= now /\ row[l].routed <= now /\ row[l].opened <= now /\ row[l].lastOpened <= now

(* The row of a link that the owner is owed says so by its clocks.         *)
Owed(l) ==
  due[l] # Never => due[l] <= row[l].wallHit /\ row[l].routed < due[l] /\ LastOpened(row[l]) < due[l]

(* A page opened after a hit met the wall is remembered until the hit is   *)
(* recorded, and one opened at this very moment at least until it passes.  *)
Remembered(l) ==
  IF sent[l] # Never
  THEN LastOpened(row[l]) >= sent[l] => met[l] >= LastOpened(row[l])
  ELSE LastOpened(row[l]) = now => met[l] = now

(* What a page is owed was recorded before the page read its clock; one    *)
(* that goes to the approval owes nothing more.                            *)
Loaded(t) ==
  /\ tab[t].began <= now
  /\ tab[t].stage # "look" => tab[t].owed = {}
  /\ \A l \in tab[t].owed : due[l] # Never => row[l].wallHit <= tab[t].began

IInv ==
  /\ TypeOK
  /\ \A l \in Links : Past(l) /\ Owed(l) /\ Remembered(l)
  /\ \A t \in Tabs : Loaded(t)
------------------------------------------------------------------------------
(* A row, a page and a history with one entry replaced.                   *)
LEMMA OneRow ==
  ASSUME TypeOK, NEW l \in Links, NEW r \in Row
  PROVE  [row EXCEPT ![l] = r] \in [Links -> Row]
BY DEF TypeOK

LEMMA OnePage ==
  ASSUME TypeOK, NEW t \in Tabs, NEW p \in Page
  PROVE  [tab EXCEPT ![t] = p] \in [Tabs -> Page]
BY DEF TypeOK

LEMMA IdleIsAPage == Idle \in Page
BY Bounds DEF Idle, Page, Time, Never

(* The types, as far as any step keeps them.                               *)
LEMMA TypeKept ==
  ASSUME TypeOK, [Next]_vars
  PROVE  TypeOK'
<1>. USE Windows, Bounds DEF Time, Never, history
<1>0. /\ now \in Time /\ Never \in Time
      /\ \A l \in Links : row[l] \in Row /\ sent[l] \in Time
      /\ \A t \in Tabs : tab[t] \in Page
  BY DEF TypeOK
<1>1. ASSUME NEW l \in Links, MeetWall(l) PROVE TypeOK'
  BY <1>1 DEF MeetWall, TypeOK
<1>2. ASSUME NEW l \in Links, RecordHit(l) PROVE TypeOK'
  <2>1. PICK at \in sent[l]..now : row' = [row EXCEPT ![l] = [@ EXCEPT !.wallHit = at, !.routed = Never]]
    BY <1>2 DEF RecordHit
  <2>2. at \in Time
    BY <1>0, <2>1 DEF TypeOK
  <2>3. [row[l] EXCEPT !.wallHit = at, !.routed = Never] \in Row
    BY <1>0, <2>2 DEF Row
  <2>4. row' \in [Links -> Row]
    BY <2>1, <2>3, OneRow
  <2>5. ASSUME NEW t \in Tabs
        PROVE  [tab[t] EXCEPT !.owed = @ \ {l}, !.same = @ /\ tab[t].link # {l}] \in Page
    <3>1. (tab[t].same /\ tab[t].link # {l}) \in BOOLEAN
      OBVIOUS
    <3>2. tab[t].owed \ {l} \in SUBSET Links /\ tab[t] \in Page
      BY DEF TypeOK, Page
    <3>. QED BY <3>1, <3>2 DEF Page
  <2>6. tab' \in [Tabs -> Page]
    BY <1>2, <2>5 DEF RecordHit
  <2>7. due' \in [Links -> Time]
    BY <1>0, <1>2 DEF RecordHit, TypeOK
  <2>8. sent' \in [Links -> Time]
    BY <1>0, <1>2 DEF RecordHit, TypeOK
  <2>. QED BY <1>2, <2>4, <2>6, <2>7, <2>8 DEF RecordHit, TypeOK
<1>3. ASSUME NEW l \in Links, LoseHit(l) PROVE TypeOK'
  BY <1>3 DEF LoseHit, TypeOK
<1>4. ASSUME NEW l \in Links, Opens(l)
      PROVE  /\ row' \in [Links -> Row] /\ faults' \in 0..MaxFaults
             /\ marker' \in [of : {{}} \cup {{Marks(m)} : m \in Links}, at : Time]
             /\ met' \in [Links -> Time] /\ due' \in [Links -> Time]
  <2>1. Stamped(l) \in Row
    BY <1>0 DEF Stamped, Row
  <2>2. row' \in [Links -> Row] /\ faults' \in 0..MaxFaults
    BY <1>4, <2>1, OneRow DEF Opens, TypeOK
  <2>3. NoMarker \in [of : {{}} \cup {{Marks(m)} : m \in Links}, at : Time]
    BY DEF NoMarker
  <2>4. marker' \in [of : {{}} \cup {{Marks(m)} : m \in Links}, at : Time]
    BY <1>4, <2>3 DEF Opens, TypeOK
  <2>5. met' \in [Links -> Time] /\ due' \in [Links -> Time]
    BY <1>0, <1>4 DEF Opens, Brought, TypeOK
  <2>. QED BY <2>2, <2>4, <2>5
<1>5. ASSUME NEW l \in Links, Open(l) PROVE TypeOK'
  BY <1>4, <1>5 DEF Open, TypeOK
<1>6. ASSUME NEW l \in Links, Approve(l) PROVE TypeOK'
  <2>1. [row[l] EXCEPT !.approved = TRUE] \in Row
    BY DEF TypeOK, Row
  <2>. QED BY <1>6, <2>1, OneRow DEF Approve, TypeOK
<1>7. ASSUME NEW t \in Tabs, Load(t) PROVE TypeOK'
  <2>1. [Idle EXCEPT !.stage = "look", !.began = now, !.owed = {l \in Links : Asking(l)}] \in Page
    BY <1>0, IdleIsAPage DEF Page
  <2>. QED BY <1>7, <2>1, OnePage DEF Load, TypeOK
<1>8. ASSUME NEW t \in Tabs, Route(t) PROVE TypeOK'
  <2>1. PICK l \in Newest(tab[t].began) :
          tab' = [tab EXCEPT ![t] = [Idle EXCEPT !.stage = "mark", !.link = {l}, !.began = now, !.same = TRUE]]
    BY <1>8 DEF Route
  <2>2. l \in Links
    BY DEF Newest
  <2>3. [Idle EXCEPT !.stage = "mark", !.link = {l}, !.began = now, !.same = TRUE] \in Page
    BY <1>0, <2>2, IdleIsAPage DEF Page
  <2>. QED BY <1>8, <2>1, <2>3, OnePage DEF Route, TypeOK
<1>9. ASSUME NEW t \in Tabs, NoRoute(t) \/ LookFails(t) \/ Leave(t) PROVE TypeOK'
  BY <1>9, IdleIsAPage, OnePage DEF NoRoute, LookFails, Leave, TypeOK
<1>10. ASSUME NEW t \in Tabs PROVE [tab[t] EXCEPT !.stage = "page", !.began = Never] \in Page
  BY <1>0 DEF Page
<1>11. ASSUME NEW t \in Tabs, MarkRouted(t) PROVE TypeOK'
  <2>1. PICK l \in tab[t].link, at \in tab[t].began..now :
          /\ \/ at = now /\ UNCHANGED faults
             \/ at < now /\ faults < MaxFaults /\ faults' = faults + 1
          /\ row' = [row EXCEPT ![l] = [@ EXCEPT !.routed = at]]
          /\ Brought(l)
    BY <1>11 DEF MarkRouted
  <2>2. l \in Links /\ tab[t].began \in Time
    BY <1>0 DEF Page
  <2>3. [row[l] EXCEPT !.routed = at] \in Row
    <3>1. at \in Time
      BY <1>0, <2>2 DEF TypeOK
    <3>. QED BY <1>0, <2>2, <3>1 DEF Row
  <2>4. row' \in [Links -> Row] /\ tab' \in [Tabs -> Page]
    BY <1>10, <1>11, <2>1, <2>2, <2>3, OneRow, OnePage DEF MarkRouted
  <2>. QED BY <1>0, <1>11, <2>1, <2>2, <2>4 DEF MarkRouted, Brought, TypeOK
<1>12. ASSUME NEW t \in Tabs, MarkFails(t) PROVE TypeOK'
  <2>1. tab' \in [Tabs -> Page]
    BY <1>10, <1>12, OnePage DEF MarkFails
  <2>. QED BY <1>12, <2>1 DEF MarkFails, TypeOK
<1>13. ASSUME NEW t \in Tabs, Render(t) PROVE TypeOK'
  <2>1. PICK l \in tab[t].link : Opens(l) /\ shown' = IF tab[t].same THEN shown \cup {l} ELSE shown
    BY <1>13 DEF Render
  <2>2. l \in Links
    BY DEF TypeOK, Page
  <2>. QED BY <1>4, <1>13, <2>1, <2>2, IdleIsAPage, OnePage DEF Render, TypeOK
<1>14. CASE Tick
  <2>1. NoMarker \in [of : {{}} \cup {{Marks(m)} : m \in Links}, at : Time]
    BY DEF NoMarker
  <2>. QED BY <1>14, <2>1 DEF Tick, TypeOK
<1>15. CASE UNCHANGED vars
  BY <1>15 DEF vars, TypeOK
<1>. QED
  BY <1>1, <1>2, <1>3, <1>5, <1>6, <1>7, <1>8, <1>9, <1>11, <1>12, <1>13, <1>14, <1>15 DEF Next
------------------------------------------------------------------------------
(* Clocks are numbers.                                                     *)
LEMMA Clocks ==
  ASSUME TypeOK
  PROVE  /\ now \in Int /\ Never < now
         /\ \A l \in Links :
              /\ row[l] \in [wallHit : Int, routed : Int, opened : Int, lastOpened : Int, approved : BOOLEAN]
              /\ sent[l] \in Int /\ due[l] \in Int /\ met[l] \in Int /\ LastOpened(row[l]) \in Int
              /\ Never <= sent[l] /\ Never <= due[l]
         /\ \A t \in Tabs : tab[t].began \in Int /\ tab[t].owed \subseteq Links
<1>1. Time \subseteq Int /\ \A x \in Time : Never <= x
  BY Bounds DEF Time, Never
<1>2. now \in Int /\ Never < now
  BY Bounds DEF TypeOK, Never
<1>3. ASSUME NEW l \in Links
      PROVE  /\ row[l] \in [wallHit : Int, routed : Int, opened : Int, lastOpened : Int, approved : BOOLEAN]
             /\ sent[l] \in Int /\ due[l] \in Int /\ met[l] \in Int /\ LastOpened(row[l]) \in Int
             /\ Never <= sent[l] /\ Never <= due[l]
  <2>1. row[l] \in Row /\ sent[l] \in Time /\ due[l] \in Time /\ met[l] \in Time
    BY DEF TypeOK
  <2>. QED BY <1>1, <2>1 DEF Row, LastOpened
<1>4. ASSUME NEW t \in Tabs PROVE tab[t].began \in Int /\ tab[t].owed \subseteq Links
  BY <1>1 DEF TypeOK, Page
<1>. QED BY <1>2, <1>3, <1>4

(* What an opening, with its stamp or without, leaves in the rows.         *)
LEMMA OpenedRows ==
  ASSUME IInv, NEW k \in Links, Opens(k)
  PROVE  /\ met' = [met EXCEPT ![k] = now] /\ due' = [due EXCEPT ![k] = Never]
         /\ \A l \in Links :
              /\ row'[l].wallHit = row[l].wallHit /\ row'[l].routed = row[l].routed
              /\ row'[l].opened <= now /\ row'[l].lastOpened <= now
              /\ l # k => LastOpened(row'[l]) = LastOpened(row[l])
              /\ LastOpened(row'[k]) <= now
              /\ faults' = faults => LastOpened(row'[k]) = now
              /\ faults' # faults => faults < MaxFaults /\ faults' = faults + 1 /\ row' = row
<1>. USE DEF Never
<1>1. TypeOK /\ \A l \in Links : Past(l)
  BY DEF IInv
<1>2. CASE row' = [row EXCEPT ![k] = Stamped(k)] /\ UNCHANGED faults
  <2>1. row[k] \in Row
    BY <1>1 DEF TypeOK
  <2>2. /\ Stamped(k).wallHit = row[k].wallHit /\ Stamped(k).routed = row[k].routed
        /\ Stamped(k).opened \in {row[k].opened, now} /\ Stamped(k).lastOpened = now
    BY <2>1 DEF Stamped, Row
  <2>3. row \in [Links -> Row]
    BY <1>1 DEF TypeOK
  <2>4. row'[k] = Stamped(k) /\ \A l \in Links : l # k => row'[l] = row[l]
    BY <1>2, <2>3
  <2>. QED BY <1>1, <1>2, <2>2, <2>4, Clocks DEF Opens, Brought, LastOpened, Past
<1>3. CASE faults < MaxFaults /\ faults' = faults + 1 /\ UNCHANGED row
  BY <1>1, <1>3, Clocks DEF Opens, Brought, LastOpened, Past, TypeOK
<1>. QED BY <1>2, <1>3 DEF Opens

(* What is known of a row is kept by the step.                             *)
LEMMA RowsKept ==
  ASSUME IInv, [Next]_vars, NEW l \in Links
  PROVE  Past(l)' /\ Owed(l)' /\ Remembered(l)'
<1>. USE DEF Never, history
<1>0. TypeOK /\ Past(l) /\ Owed(l) /\ Remembered(l)
  BY DEF IInv
<1>1. ASSUME NEW k \in Links, MeetWall(k) PROVE Past(l)' /\ Owed(l)' /\ Remembered(l)'
  <2>1. sent'[l] = IF l = k THEN now ELSE sent[l]
    BY <1>0, <1>1 DEF MeetWall, TypeOK
  <2>. QED BY <1>0, <1>1, <2>1, Clocks DEF MeetWall, Past, Owed, Remembered, LastOpened
<1>2. ASSUME NEW k \in Links, RecordHit(k) PROVE Past(l)' /\ Owed(l)' /\ Remembered(l)'
  <2>1. PICK at \in sent[k]..now : row' = [row EXCEPT ![k] = [@ EXCEPT !.wallHit = at, !.routed = Never]]
    BY <1>2 DEF RecordHit
  <2>2. now' = now /\ met' = met
    BY <1>2 DEF RecordHit
  <2>3. CASE l # k
    <3>1. row'[l] = row[l] /\ sent'[l] = sent[l] /\ due'[l] = due[l]
      BY <1>0, <1>2, <2>1, <2>3 DEF RecordHit, TypeOK
    <3>. QED BY <1>0, <2>2, <3>1 DEF Past, Owed, Remembered
  <2>4. CASE l = k
    <3>1. /\ sent[l] # Never /\ sent'[l] = Never /\ due'[l] = IF sent[l] > met[l] THEN sent[l] ELSE Never
      BY <1>0, <1>2, <2>4 DEF RecordHit, TypeOK
    <3>2. row'[l] = [row[l] EXCEPT !.wallHit = at, !.routed = Never]
      BY <1>0, <2>1, <2>4 DEF TypeOK
    <3>3. /\ row'[l].wallHit = at /\ row'[l].routed = Never
          /\ row'[l].opened = row[l].opened /\ row'[l].lastOpened = row[l].lastOpened
      BY <1>0, <3>2, Clocks
    <3>4. LastOpened(row'[l]) = LastOpened(row[l]) /\ LastOpened(row[l]) <= now
      BY <1>0, <3>3 DEF LastOpened, Past
    <3>5. sent[l] <= at /\ at <= now
      BY <1>0, <2>4, Clocks
    <3>. QED BY <1>0, <2>2, <3>1, <3>3, <3>4, <3>5, Clocks DEF Past, Owed, Remembered
  <2>. QED BY <2>3, <2>4
<1>3. ASSUME NEW k \in Links, LoseHit(k) PROVE Past(l)' /\ Owed(l)' /\ Remembered(l)'
  <2>1. sent'[l] = IF l = k THEN Never ELSE sent[l]
    BY <1>0, <1>3 DEF LoseHit, TypeOK
  <2>. QED BY <1>0, <1>3, <2>1, Clocks DEF LoseHit, Past, Owed, Remembered, LastOpened
<1>4. ASSUME NEW k \in Links, Opens(k), UNCHANGED <<now, sent>>
      PROVE  Past(l)' /\ Owed(l)' /\ Remembered(l)'
  <2>1. met'[l] = (IF l = k THEN now ELSE met[l]) /\ due'[l] = (IF l = k THEN Never ELSE due[l])
    BY <1>0, <1>4, OpenedRows DEF TypeOK
  <2>2. /\ row'[l].wallHit = row[l].wallHit /\ row'[l].routed = row[l].routed
        /\ row'[l].opened <= now /\ row'[l].lastOpened <= now
        /\ l # k => LastOpened(row'[l]) = LastOpened(row[l])
        /\ LastOpened(row'[k]) <= now
    BY <1>4, OpenedRows
  <2>. QED BY <1>0, <1>4, <2>1, <2>2, Clocks DEF Past, Owed, Remembered
<1>5. ASSUME NEW k \in Links, Open(k) PROVE Past(l)' /\ Owed(l)' /\ Remembered(l)'
  BY <1>4, <1>5 DEF Open
<1>6. ASSUME NEW k \in Links, Approve(k) PROVE Past(l)' /\ Owed(l)' /\ Remembered(l)'
  <2>1. /\ row'[l].wallHit = row[l].wallHit /\ row'[l].routed = row[l].routed
        /\ row'[l].opened = row[l].opened /\ row'[l].lastOpened = row[l].lastOpened
    BY <1>0, <1>6, Clocks DEF Approve, TypeOK
  <2>. QED BY <1>0, <1>6, <2>1 DEF Approve, Past, Owed, Remembered, LastOpened
<1>7. ASSUME NEW t \in Tabs, MarkRouted(t) PROVE Past(l)' /\ Owed(l)' /\ Remembered(l)'
  <2>1. PICK k \in tab[t].link, at \in tab[t].began..now :
          row' = [row EXCEPT ![k] = [@ EXCEPT !.routed = at]] /\ Brought(k)
    BY <1>7 DEF MarkRouted
  <2>2. k \in Links
    BY <1>0 DEF TypeOK, Page
  <2>3. met'[l] = (IF l = k THEN now ELSE met[l]) /\ due'[l] = (IF l = k THEN Never ELSE due[l])
    BY <1>0, <2>1, <2>2 DEF Brought, TypeOK
  <2>4. now' = now /\ sent' = sent
    BY <1>7 DEF MarkRouted
  <2>5. /\ row'[l].wallHit = row[l].wallHit
        /\ row'[l].opened = row[l].opened /\ row'[l].lastOpened = row[l].lastOpened
        /\ row'[l].routed = IF l = k THEN at ELSE row[l].routed
    <3>1. row'[l] = IF l = k THEN [row[l] EXCEPT !.routed = at] ELSE row[l]
      BY <1>0, <2>1, <2>2 DEF TypeOK
    <3>. QED BY <1>0, <3>1, Clocks
  <2>6. at <= now
    BY <1>0, Clocks
  <2>. QED BY <1>0, <2>3, <2>4, <2>5, <2>6, Clocks DEF Past, Owed, Remembered, LastOpened
<1>8. ASSUME NEW t \in Tabs, Render(t) PROVE Past(l)' /\ Owed(l)' /\ Remembered(l)'
  <2>1. PICK k \in tab[t].link : Opens(k)
    BY <1>8 DEF Render
  <2>2. k \in Links
    BY <1>0 DEF TypeOK, Page
  <2>. QED BY <1>4, <1>8, <2>1, <2>2 DEF Render
<1>9. CASE Tick
  <2>1. met'[l] = IF sent[l] # Never THEN met[l] ELSE Never
    BY <1>9 DEF Tick
  <2>2. LastOpened(row[l]) <= now
    BY <1>0 DEF Past, LastOpened
  <2>. QED BY <1>0, <1>9, <2>1, <2>2, Clocks DEF Tick, Past, Owed, Remembered
<1>10. ASSUME UNCHANGED <<now, row, sent, due, met>> PROVE Past(l)' /\ Owed(l)' /\ Remembered(l)'
  BY <1>0, <1>10 DEF Past, Owed, Remembered
<1>11. ASSUME NEW t \in Tabs, Load(t) \/ Route(t) \/ NoRoute(t) \/ LookFails(t) \/ MarkFails(t) \/ Leave(t)
       PROVE  UNCHANGED <<now, row, sent, due, met>>
  BY <1>11 DEF Load, Route, NoRoute, LookFails, MarkFails, Leave
<1>. QED
  BY <1>1, <1>2, <1>3, <1>5, <1>6, <1>7, <1>8, <1>9, <1>10, <1>11 DEF Next, vars

(* What is known of the pages is kept by the step.                         *)
LEMMA PagesKept ==
  ASSUME IInv, [Next]_vars, NEW t \in Tabs
  PROVE  Loaded(t)'
<1>. USE DEF Never, history
<1>0. TypeOK /\ Loaded(t) /\ \A l \in Links : Past(l)
  BY DEF IInv
<1>1. now' \in Int /\ now <= now' /\ Never <= now'
  <2>1. now' = now \/ now' = now + 1
    BY DEF Next, vars, MeetWall, RecordHit, LoseHit, Open, Approve, Load, Route, NoRoute, LookFails,
           MarkRouted, MarkFails, Render, Leave, Tick
  <2>. QED BY <1>0, <2>1, Clocks
<1>2. ASSUME tab'[t].began \in {tab[t].began, now, Never}, tab'[t].owed = {} PROVE Loaded(t)'
  BY <1>0, <1>1, <1>2, Clocks DEF Loaded
<1>3. ASSUME UNCHANGED tab,
             \A l \in Links : due'[l] # Never => due[l] # Never /\ row'[l].wallHit = row[l].wallHit
      PROVE  Loaded(t)'
  BY <1>0, <1>1, <1>3, Clocks DEF Loaded
<1>4. ASSUME NEW k \in Links, MeetWall(k) \/ LoseHit(k) \/ Approve(k) PROVE Loaded(t)'
  <2>1. \A l \in Links : row'[l].wallHit = row[l].wallHit
    BY <1>0, <1>4, Clocks DEF MeetWall, LoseHit, Approve, TypeOK
  <2>. QED BY <1>3, <1>4, <2>1 DEF MeetWall, LoseHit, Approve
<1>5. ASSUME NEW k \in Links, RecordHit(k) PROVE Loaded(t)'
  <2>1. tab'[t] = [tab[t] EXCEPT !.owed = @ \ {k}, !.same = @ /\ tab[t].link # {k}]
    BY <1>5 DEF RecordHit
  <2>2. /\ tab'[t].began = tab[t].began /\ tab'[t].stage = tab[t].stage
        /\ tab'[t].owed = tab[t].owed \ {k}
    BY <1>0, <2>1 DEF TypeOK, Page
  <2>3. ASSUME NEW l \in Links, l # k PROVE due'[l] = due[l] /\ row'[l] = row[l]
    <3>1. due \in [Links -> Time] /\ row \in [Links -> Row]
      BY <1>0 DEF TypeOK
    <3>. QED BY <1>5, <2>3, <3>1 DEF RecordHit
  <2>. QED BY <1>0, <1>1, <2>2, <2>3, Clocks DEF Loaded
<1>6. ASSUME NEW k \in Links, Opens(k)
      PROVE  \A l \in Links : due'[l] # Never => due[l] # Never /\ row'[l].wallHit = row[l].wallHit
  BY <1>0, <1>6, OpenedRows DEF TypeOK
<1>7. ASSUME NEW k \in Links, Open(k) PROVE Loaded(t)'
  BY <1>3, <1>6, <1>7 DEF Open
<1>8. ASSUME NEW s \in Tabs, NEW p, tab' = [tab EXCEPT ![s] = p],
             s = t => p.began \in {tab[t].began, now, Never} /\ p.owed = {},
             \A l \in Links : due'[l] # Never => due[l] # Never /\ row'[l].wallHit = row[l].wallHit
      PROVE  Loaded(t)'
  <2>1. tab \in [Tabs -> Page]
    BY <1>0 DEF TypeOK
  <2>2. CASE s = t
    BY <1>2, <1>8, <2>1, <2>2
  <2>3. CASE s # t
    <3>1. tab'[t] = tab[t]
      BY <1>8, <2>1, <2>3
    <3>. QED BY <1>0, <1>1, <1>8, <3>1, Clocks DEF Loaded
  <2>. QED BY <2>2, <2>3
<1>9. ASSUME NEW s \in Tabs, Load(s) PROVE Loaded(t)'
  <2>1. CASE s = t
    <3>1. tab'[t] = [Idle EXCEPT !.stage = "look", !.began = now, !.owed = {l \in Links : Asking(l)}]
      BY <1>0, <1>9, <2>1 DEF Load, TypeOK
    <3>2. tab'[t].began = now /\ tab'[t].owed \subseteq Links /\ tab'[t].stage = "look"
      BY <3>1 DEF Idle
    <3>. QED BY <1>0, <1>9, <3>2, Clocks DEF Load, Loaded, Past
  <2>2. CASE s # t
    BY <1>0, <1>1, <1>9, <2>2 DEF Load, Loaded, TypeOK
  <2>. QED BY <2>1, <2>2
<1>10. ASSUME NEW s \in Tabs, Route(s) PROVE Loaded(t)'
  <2>1. PICK l \in Newest(tab[s].began) :
          tab' = [tab EXCEPT ![s] = [Idle EXCEPT !.stage = "mark", !.link = {l}, !.began = now, !.same = TRUE]]
    BY <1>10 DEF Route
  <2>2. /\ [Idle EXCEPT !.stage = "mark", !.link = {l}, !.began = now, !.same = TRUE].began = now
        /\ [Idle EXCEPT !.stage = "mark", !.link = {l}, !.began = now, !.same = TRUE].owed = {}
    BY DEF Idle
  <2>. QED BY <1>8, <1>10, <2>1, <2>2 DEF Route
<1>11. Idle.began = Never /\ Idle.owed = {}
  BY DEF Idle
<1>12. ASSUME NEW s \in Tabs, NoRoute(s) \/ LookFails(s) \/ Leave(s) PROVE Loaded(t)'
  BY <1>8, <1>11, <1>12 DEF NoRoute, LookFails, Leave
<1>13. ASSUME NEW s \in Tabs, At(s, "mark")
       PROVE  s = t => /\ [tab[s] EXCEPT !.stage = "page", !.began = Never].began = Never
                       /\ [tab[s] EXCEPT !.stage = "page", !.began = Never].owed = {}
  <2>1. tab[s] \in Page
    BY <1>0 DEF TypeOK
  <2>. QED BY <1>0, <1>13, <2>1 DEF At, Loaded, Page
<1>14. ASSUME NEW s \in Tabs, MarkFails(s) PROVE Loaded(t)'
  <2>1. /\ tab' = [tab EXCEPT ![s] = [tab[s] EXCEPT !.stage = "page", !.began = Never]]
        /\ At(s, "mark") /\ due' = due /\ row' = row
    BY <1>14 DEF MarkFails
  <2>. QED BY <1>8, <1>13, <2>1
<1>18. ASSUME NEW s \in Tabs, MarkRouted(s) PROVE Loaded(t)'
  <2>1. /\ tab' = [tab EXCEPT ![s] = [tab[s] EXCEPT !.stage = "page", !.began = Never]]
        /\ At(s, "mark")
    BY <1>18 DEF MarkRouted
  <2>2. PICK k \in tab[s].link, at \in tab[s].began..now :
          row' = [row EXCEPT ![k] = [@ EXCEPT !.routed = at]] /\ Brought(k)
    BY <1>18 DEF MarkRouted
  <2>3. k \in Links
    BY <1>0 DEF TypeOK, Page
  <2>4. ASSUME NEW l \in Links
        PROVE  (due'[l] # Never => due[l] # Never) /\ row'[l].wallHit = row[l].wallHit
    <3>1. row'[l] = IF l = k THEN [row[l] EXCEPT !.routed = at] ELSE row[l]
      BY <1>0, <2>2, <2>3 DEF TypeOK
    <3>2. due'[l] = IF l = k THEN Never ELSE due[l]
      BY <1>0, <2>2, <2>3 DEF TypeOK, Brought
    <3>. QED BY <1>0, <3>1, <3>2, Clocks
  <2>. QED BY <1>8, <1>13, <2>1, <2>4
<1>15. ASSUME NEW s \in Tabs, Render(s) PROVE Loaded(t)'
  <2>1. PICK k \in tab[s].link : Opens(k)
    BY <1>15 DEF Render
  <2>2. k \in Links
    BY <1>0 DEF TypeOK, Page
  <2>. QED BY <1>6, <1>8, <1>11, <1>15, <2>1, <2>2 DEF Render
<1>16. CASE Tick
  BY <1>3, <1>16 DEF Tick
<1>17. CASE UNCHANGED vars
  BY <1>3, <1>17 DEF vars
<1>. QED
  BY <1>4, <1>5, <1>7, <1>9, <1>10, <1>12, <1>14, <1>15, <1>16, <1>17, <1>18 DEF Next
------------------------------------------------------------------------------
LEMMA Initially == Init => IInv
<1>. SUFFICES ASSUME Init PROVE IInv
  OBVIOUS
<1>. USE Bounds DEF Never, Time
<1>1. TypeOK
  <2>. DEFINE Old == [wallHit : {Never}, routed : {Never}, opened : {Never, 0}, lastOpened : {Never},
                      approved : {FALSE}]
  <2>5. ASSUME NEW r \in Old PROVE r \in Row
    <3>1. /\ r = [wallHit |-> r.wallHit, routed |-> r.routed, opened |-> r.opened,
                  lastOpened |-> r.lastOpened, approved |-> r.approved]
          /\ r.wallHit = Never /\ r.routed = Never /\ r.opened \in {Never, 0} /\ r.lastOpened = Never
          /\ r.approved \in BOOLEAN
      OBVIOUS
    <3>. QED BY <3>1 DEF Row
  <2>1. row \in [Links -> Row]
    BY <2>5 DEF Init
  <2>2. \A l \in Links : row[l].opened \in Time
    BY <2>1 DEF Row
  <2>3. met \in [Links -> Time]
    BY <2>2 DEF Init
  <2>4. NoMarker \in [of : {{}} \cup {{Marks(l)} : l \in Links}, at : Time]
    BY DEF NoMarker
  <2>. QED BY <2>1, <2>3, <2>4, IdleIsAPage DEF Init, TypeOK
<1>2. ASSUME NEW l \in Links PROVE Past(l) /\ Owed(l) /\ Remembered(l)
  <2>1. /\ row[l].wallHit = -1 /\ row[l].routed = -1 /\ row[l].opened \in {-1, 0} /\ row[l].lastOpened = -1
        /\ sent[l] = -1 /\ due[l] = -1 /\ met[l] = row[l].opened /\ now = 0
    BY DEF Init
  <2>. QED BY <2>1 DEF Past, Owed, Remembered, LastOpened
<1>3. ASSUME NEW t \in Tabs PROVE Loaded(t)
  BY DEF Init, Loaded, Idle
<1>. QED BY <1>1, <1>2, <1>3 DEF IInv

LEMMA Invariance == Spec => []IInv
<1>1. IInv /\ [Next]_vars => IInv'
  <2>. SUFFICES ASSUME IInv, [Next]_vars PROVE IInv'
    OBVIOUS
  <2>1. TypeOK'
    BY TypeKept DEF IInv
  <2>2. \A l \in Links : Past(l)' /\ Owed(l)' /\ Remembered(l)'
    BY RowsKept
  <2>3. \A t \in Tabs : Loaded(t)'
    BY PagesKept
  <2>. QED BY <2>1, <2>2, <2>3 DEF IInv
<1>. QED BY <1>1, Initially, PTL DEF Spec

(* The clocks of the rows, the markers and the pages are what TypeOK says. *)
THEOREM WallTypeCorrect == Spec => []TypeOK
<1>1. IInv => TypeOK
  BY DEF IInv
<1>. QED BY <1>1, Invariance, PTL

(* A dashboard page that leads on to the profile passes over no hit at the *)
(* wall that it still owes the owner (app/dashboard/page.tsx:44-53).       *)
THEOREM BroughtBack == Spec => VisitsLeadBack
<1>1. IInv /\ [Next]_vars =>
        [\A t \in Tabs : NoRoute(t) =>
           \A l \in tab[t].owed : Asking(l) => tab[t].began - due[l] > RouteWindow]_vars
  <2>. SUFFICES ASSUME IInv, NEW t \in Tabs, NoRoute(t), NEW l \in tab[t].owed, Asking(l)
                PROVE  tab[t].began - due[l] > RouteWindow
    OBVIOUS
  <2>1. TypeOK /\ Loaded(t)
    BY DEF IInv
  <2>2. l \in Links /\ due[l] # Never /\ ~row[l].approved
    BY <2>1, Clocks DEF Asking
  <2>3. due[l] <= row[l].wallHit /\ row[l].routed < due[l] /\ LastOpened(row[l]) < due[l]
    BY <2>2 DEF IInv, Owed
  <2>4. row[l].wallHit <= tab[t].began
    BY <2>1, <2>2 DEF Loaded
  <2>5. ~(tab[t].began - row[l].wallHit \in 0..RouteWindow)
    <3>1. ~Routable(l, tab[t].began)
      BY <2>2 DEF NoRoute, NoneRoutable
    <3>2. row[l].wallHit # Never /\ row[l].routed < row[l].wallHit /\ LastOpened(row[l]) < row[l].wallHit
      BY <2>1, <2>2, <2>3, Clocks DEF Never
    <3>. QED BY <2>2, <3>1, <3>2 DEF Routable
  <2>. QED BY <2>1, <2>2, <2>3, <2>4, <2>5, Windows, Clocks
<1>. QED BY <1>1, Invariance, PTL DEF Spec, VisitsLeadBack
------------------------------------------------------------------------------
(* One of the stamps that say where the owner has been may fail or come    *)
(* late, of a link that was shown or is about to be.                       *)
SeenOrRouted(l) ==
  l \in shown => \/ LastOpened(row[l]) >= row[l].wallHit
                 \/ faults >= 1 /\ row[l].routed >= row[l].wallHit

Marked(t) ==
  At(t, "page") /\ tab[t].same => \A l \in tab[t].link : faults >= 1 \/ row[l].routed >= row[l].wallHit

StampsInv ==
  /\ IInv
  /\ \A l \in Links : SeenOrRouted(l)
  /\ \A t \in Tabs : Marked(t)

(* Clocks of a row that a step may have moved.                             *)
LEMMA SeenStays ==
  ASSUME IInv, IInv', NEW l \in Links, SeenOrRouted(l),
         l \in shown' => l \in shown, faults' \in Int, faults' >= faults,
         row'[l].wallHit = row[l].wallHit, LastOpened(row'[l]) >= LastOpened(row[l]),
         row'[l].routed >= row[l].routed
  PROVE  SeenOrRouted(l)'
<1>1. TypeOK /\ TypeOK' /\ faults \in Int
  BY DEF IInv, TypeOK
<1>2. row[l].wallHit \in Int /\ row[l].routed \in Int /\ LastOpened(row[l]) \in Int
  BY <1>1, Clocks
<1>3. TypeOK' => row'[l].routed \in Int /\ LastOpened(row'[l]) \in Int
  <2>1. Time \subseteq Int
    BY Bounds DEF Time, Never
  <2>2. TypeOK' => row'[l] \in Row
    BY DEF TypeOK
  <2>. QED BY <2>1, <2>2 DEF Row, LastOpened
<1>. QED BY <1>1, <1>2, <1>3 DEF SeenOrRouted

LEMMA StampsKept ==
  ASSUME MaxFaults <= 1, StampsInv, IInv', [Next]_vars
  PROVE  (\A l \in Links : SeenOrRouted(l)') /\ (\A t \in Tabs : Marked(t)')
<1>. USE DEF Never, history
<1>. DEFINE Kept == (\A l \in Links : SeenOrRouted(l)') /\ (\A t \in Tabs : Marked(t)')
<1>0. /\ TypeOK /\ IInv /\ faults \in Int /\ row \in [Links -> Row] /\ tab \in [Tabs -> Page]
      /\ \A l \in Links : SeenOrRouted(l) /\ Past(l)
      /\ \A t \in Tabs : Marked(t)
      /\ now \in Int
  BY Bounds DEF StampsInv, IInv, TypeOK
<1>1. ASSUME NEW l \in Links
      PROVE  row[l].wallHit \in Int /\ row[l].routed \in Int /\ LastOpened(row[l]) \in Int
  BY <1>0, Clocks
<1>2. ASSUME UNCHANGED <<row, shown>>, faults' \in {faults, faults + 1},
             \A t \in Tabs : \/ tab'[t] = tab[t]
                             \/ tab'[t].stage # "page"
                             \/ faults' = faults + 1
      PROVE  Kept
  <2>0. faults >= 0
    BY <1>0 DEF TypeOK
  <2>1. ASSUME NEW l \in Links PROVE SeenOrRouted(l)'
    BY <1>0, <1>1, <1>2 DEF SeenOrRouted
  <2>2. ASSUME NEW t \in Tabs PROVE Marked(t)'
    BY <1>0, <1>2, <2>0, <2>2 DEF Marked, At
  <2>. QED BY <2>1, <2>2
<1>3. ASSUME NEW k \in Links, MeetWall(k) \/ LoseHit(k) PROVE Kept
  BY <1>2, <1>3 DEF MeetWall, LoseHit
<1>4. ASSUME NEW k \in Links, RecordHit(k) PROVE Kept
  <2>1. \A l \in Links : l # k => row'[l] = row[l]
    BY <1>0, <1>4 DEF RecordHit
  <2>2. faults' = faults /\ shown' = shown \ {k}
    BY <1>4 DEF RecordHit
  <2>3. ASSUME NEW l \in Links PROVE SeenOrRouted(l)'
    BY <1>0, <2>1, <2>2 DEF SeenOrRouted
  <2>4. ASSUME NEW t \in Tabs PROVE Marked(t)'
    <3>1. tab'[t] = [tab[t] EXCEPT !.owed = @ \ {k}, !.same = @ /\ tab[t].link # {k}]
      BY <1>4 DEF RecordHit
    <3>2. /\ tab'[t].stage = tab[t].stage /\ tab'[t].link = tab[t].link
          /\ tab'[t].same = (tab[t].same /\ tab[t].link # {k})
      BY <1>0, <3>1 DEF Page
    <3>3. ASSUME NEW l \in tab[t].link, tab[t].link # {k} PROVE l \in Links /\ l # k
      BY <1>0, <3>3 DEF Page
    <3>. QED BY <1>0, <2>1, <2>2, <3>2, <3>3 DEF Marked, At
  <2>. QED BY <2>3, <2>4
<1>5. ASSUME NEW k \in Links, Opens(k)
      PROVE  /\ faults' \in {faults, faults + 1}
             /\ faults' # faults => faults = 0
             /\ \A l \in Links :
                  /\ row'[l].wallHit = row[l].wallHit /\ row'[l].routed = row[l].routed
                  /\ LastOpened(row'[l]) >= LastOpened(row[l])
             /\ faults' = faults => LastOpened(row'[k]) = now
  <2>1. faults >= 0 /\ MaxFaults \in Int
    BY <1>0, Bounds DEF TypeOK
  <2>2. \A l \in Links : LastOpened(row[l]) <= now
    BY <1>0 DEF Past, LastOpened
  <2>. QED BY <1>0, <1>1, <1>5, <2>1, <2>2, OpenedRows
<1>6. ASSUME NEW k \in Links, Opens(k), NEW t \in Tabs, tab'[t] = tab[t] PROVE Marked(t)'
  <2>1. ASSUME NEW l \in tab[t].link PROVE l \in Links
    BY <1>0 DEF Page
  <2>2. faults >= 0
    BY <1>0 DEF TypeOK
  <2>. QED BY <1>0, <1>5, <1>6, <2>1, <2>2 DEF Marked, At
<1>7. ASSUME NEW k \in Links, Open(k) PROVE Kept
  <2>1. Opens(k) /\ tab' = tab /\ shown' = shown
    BY <1>7 DEF Open
  <2>2. ASSUME NEW l \in Links PROVE SeenOrRouted(l)'
    <3>1. l \in shown' => l \in shown
      BY <2>1
    <3>. QED BY <1>0, <1>1, <1>5, <2>1, <3>1, SeenStays
  <2>. QED BY <1>6, <2>1, <2>2
<1>8. ASSUME NEW k \in Links, Approve(k) PROVE Kept
  <2>1. \A l \in Links : /\ row'[l].wallHit = row[l].wallHit /\ row'[l].routed = row[l].routed
                         /\ LastOpened(row'[l]) = LastOpened(row[l])
    <3>1. \A l \in Links : row'[l] = IF l = k THEN [row[l] EXCEPT !.approved = TRUE] ELSE row[l]
      BY <1>0, <1>8 DEF Approve
    <3>. QED BY <1>0, <3>1, Clocks DEF LastOpened
  <2>2. shown' = shown /\ faults' = faults /\ tab' = tab
    BY <1>8 DEF Approve
  <2>3. ASSUME NEW l \in Links PROVE SeenOrRouted(l)'
    BY <1>0, <2>1, <2>2 DEF SeenOrRouted
  <2>4. ASSUME NEW t \in Tabs PROVE Marked(t)'
    <3>1. ASSUME NEW l \in tab[t].link PROVE l \in Links
      BY <1>0 DEF Page
    <3>. QED BY <1>0, <2>1, <2>2, <3>1 DEF Marked, At
  <2>. QED BY <2>3, <2>4
<1>9. Idle.stage = "idle"
  BY DEF Idle
<1>10. ASSUME NEW s \in Tabs, Load(s) \/ Route(s) PROVE Kept
  <2>1. PICK p : tab' = [tab EXCEPT ![s] = p] /\ p.stage \in {"look", "mark"}
    <3>1. ASSUME NEW b, NEW o PROVE [Idle EXCEPT !.stage = "look", !.began = b, !.owed = o].stage = "look"
      BY DEF Idle
    <3>2. ASSUME NEW k, NEW b
          PROVE  [Idle EXCEPT !.stage = "mark", !.link = k, !.began = b, !.same = TRUE].stage = "mark"
      BY DEF Idle
    <3>3. CASE Load(s)
      BY <3>1, <3>3 DEF Load
    <3>4. CASE Route(s)
      <4>1. PICK l \in Newest(tab[s].began) :
              tab' = [tab EXCEPT ![s] = [Idle EXCEPT !.stage = "mark", !.link = {l}, !.began = now, !.same = TRUE]]
        BY <3>4 DEF Route
      <4>. QED BY <3>2, <4>1
    <3>. QED BY <1>10, <3>3, <3>4
  <2>2. UNCHANGED <<row, shown, faults>>
    BY <1>10 DEF Load, Route
  <2>3. ASSUME NEW t \in Tabs PROVE tab'[t] = tab[t] \/ tab'[t].stage # "page"
    BY <1>0, <2>1
  <2>. QED BY <1>2, <2>2, <2>3
<1>11. ASSUME NEW s \in Tabs, NoRoute(s) \/ LookFails(s) \/ Leave(s) PROVE Kept
  <2>1. tab' = [tab EXCEPT ![s] = Idle]
    BY <1>11 DEF NoRoute, LookFails, Leave
  <2>2. UNCHANGED <<row, shown>> /\ faults' \in {faults, faults + 1}
    BY <1>11 DEF NoRoute, LookFails, Leave
  <2>3. ASSUME NEW t \in Tabs PROVE tab'[t] = tab[t] \/ tab'[t].stage # "page"
    BY <1>0, <1>9, <2>1
  <2>. QED BY <1>2, <2>2, <2>3
<1>12. ASSUME NEW s \in Tabs, MarkFails(s) PROVE Kept
  BY <1>2, <1>12 DEF MarkFails
<1>13. ASSUME NEW s \in Tabs, MarkRouted(s) PROVE Kept
  <2>1. PICK k \in tab[s].link, at \in tab[s].began..now :
          /\ \/ at = now /\ UNCHANGED faults
             \/ at < now /\ faults < MaxFaults /\ faults' = faults + 1
          /\ row' = [row EXCEPT ![k] = [@ EXCEPT !.routed = at]]
    BY <1>13 DEF MarkRouted
  <2>2. k \in Links /\ tab[s].link = {k}
    BY <1>0 DEF Page
  <2>3. \A l \in Links : /\ row'[l].wallHit = row[l].wallHit /\ LastOpened(row'[l]) = LastOpened(row[l])
                         /\ row'[l].routed = IF l = k THEN at ELSE row[l].routed
    <3>1. \A l \in Links : row'[l] = IF l = k THEN [row[l] EXCEPT !.routed = at] ELSE row[l]
      BY <1>0, <2>1, <2>2
    <3>. QED BY <1>0, <3>1, Clocks DEF LastOpened
  <2>4. shown' = shown /\ \A t \in Tabs : t # s => tab'[t] = tab[t]
    BY <1>0, <1>13 DEF MarkRouted
  <2>5. tab'[s].link = {k}
    <3>1. tab'[s] = [tab[s] EXCEPT !.stage = "page", !.began = Never]
      BY <1>0, <1>13 DEF MarkRouted
    <3>. QED BY <1>0, <2>2, <3>1 DEF Page
  <2>6. faults >= 0 /\ MaxFaults \in Int
    BY <1>0, Bounds DEF TypeOK
  <2>7. \/ at = now /\ faults' = faults
        \/ faults = 0 /\ faults' = 1
    BY <1>0, <2>1, <2>6
  <2>8. \A l \in Links : row[l].wallHit <= now
    BY <1>0 DEF Past
  <2>9. ASSUME NEW l \in Links PROVE SeenOrRouted(l)'
    BY <1>0, <1>1, <2>3, <2>4, <2>7, <2>8 DEF SeenOrRouted
  <2>10. ASSUME NEW t \in Tabs PROVE Marked(t)'
    <3>1. CASE t = s
      BY <1>0, <1>1, <2>2, <2>3, <2>5, <2>7, <2>8, <3>1 DEF Marked
    <3>2. CASE t # s
      <4>1. ASSUME NEW l \in tab[t].link PROVE l \in Links
        BY <1>0 DEF Page
      <4>. QED BY <1>0, <1>1, <2>3, <2>4, <2>7, <2>8, <3>2, <4>1 DEF Marked, At
    <3>. QED BY <3>1, <3>2
  <2>. QED BY <2>9, <2>10
<1>14. ASSUME NEW s \in Tabs, Render(s) PROVE Kept
  <2>1. PICK k \in tab[s].link : Opens(k) /\ shown' = IF tab[s].same THEN shown \cup {k} ELSE shown
    BY <1>14 DEF Render
  <2>2. k \in Links /\ At(s, "page")
    BY <1>0, <1>14 DEF Page, Render
  <2>3. \A t \in Tabs : tab'[t] = IF t = s THEN Idle ELSE tab[t]
    BY <1>0, <1>14 DEF Render
  <2>4. ASSUME NEW l \in Links, l # k \/ ~tab[s].same PROVE SeenOrRouted(l)'
    <3>1. l \in shown' => l \in shown
      BY <2>1, <2>4
    <3>2. faults' \in Int /\ faults' >= faults
      BY <1>0, <1>5, <2>1, <2>2
    <3>. QED BY <1>0, <1>1, <1>5, <2>1, <2>2, <3>1, <3>2, SeenStays
  <2>5. ASSUME tab[s].same PROVE SeenOrRouted(k)'
    <3>1. faults >= 1 \/ row[k].routed >= row[k].wallHit
      BY <1>0, <2>1, <2>2, <2>5 DEF Marked
    <3>2. row[k].wallHit <= now
      BY <1>0, <2>2 DEF Past
    <3>3. /\ faults' \in {faults, faults + 1} /\ (faults' # faults => faults = 0)
          /\ row'[k].wallHit = row[k].wallHit /\ row'[k].routed = row[k].routed
          /\ faults' = faults => LastOpened(row'[k]) = now
      BY <1>5, <2>1, <2>2
    <3>. QED BY <1>0, <1>1, <2>2, <3>1, <3>2, <3>3 DEF SeenOrRouted
  <2>6. ASSUME NEW t \in Tabs PROVE Marked(t)'
    <3>1. CASE t = s
      BY <1>9, <2>3, <3>1 DEF Marked, At
    <3>2. CASE t # s
      BY <1>6, <2>1, <2>2, <2>3, <3>2
    <3>. QED BY <3>1, <3>2
  <2>. QED BY <2>4, <2>5, <2>6
<1>15. CASE Tick
  BY <1>2, <1>15 DEF Tick
<1>16. CASE UNCHANGED vars
  BY <1>2, <1>16 DEF vars
<1>. QED
  BY <1>3, <1>4, <1>7, <1>8, <1>10, <1>11, <1>12, <1>13, <1>14, <1>15, <1>16 DEF Next

(* As long as no two stamps of the owner's pages fail or come late, the    *)
(* owner who was routed to an approval and shown it is not routed to it by *)
(* the same hit again (lib/approvalRouting.ts:19-20).                      *)
THEOREM NotBouncedBack == ASSUME MaxFaults <= 1 PROVE Spec => NoBounceBack
<1>1. Init => StampsInv
  <2>1. ASSUME Init, NEW l \in Links PROVE SeenOrRouted(l)
    BY <2>1 DEF Init, SeenOrRouted
  <2>2. ASSUME Init, NEW t \in Tabs PROVE Marked(t)
    BY <2>2 DEF Init, Marked, At, Idle
  <2>. QED BY <2>1, <2>2, Initially DEF StampsInv
<1>2. StampsInv /\ IInv' /\ [Next]_vars => StampsInv'
  BY StampsKept DEF StampsInv
<1>3. StampsInv /\ [Next]_vars => [\A t \in Tabs : Route(t) => tab'[t].link \cap shown = {}]_vars
  <2>. SUFFICES ASSUME StampsInv, NEW t \in Tabs, Route(t) PROVE tab'[t].link \cap shown = {}
    OBVIOUS
  <2>1. PICK l \in Newest(tab[t].began) :
          tab' = [tab EXCEPT ![t] = [Idle EXCEPT !.stage = "mark", !.link = {l}, !.began = now, !.same = TRUE]]
    BY DEF Route
  <2>2. l \in Links /\ row[l].routed < row[l].wallHit /\ LastOpened(row[l]) < row[l].wallHit
    BY DEF Newest, Routable
  <2>3. tab'[t].link = {l}
    <3>1. tab \in [Tabs -> Page]
      BY DEF StampsInv, IInv, TypeOK
    <3>. QED BY <2>1, <3>1 DEF Idle
  <2>4. row[l].wallHit \in Int /\ row[l].routed \in Int /\ LastOpened(row[l]) \in Int
    BY <2>2, Clocks DEF StampsInv, IInv
  <2>5. l \notin shown
    BY <2>2, <2>4 DEF StampsInv, SeenOrRouted
  <2>. QED BY <2>3, <2>5
<1>. QED BY <1>1, <1>2, <1>3, Invariance, PTL DEF Spec, NoBounceBack
------------------------------------------------------------------------------
(* The card of open requests (PendingApprovals).                           *)
RowRecord == [minted : Stamps, linked : BOOLEAN, dismissed : Stamps, approved : BOOLEAN]
Heard == [dropped : Stamps, again : BOOLEAN]
CardRecord == [stage : {"none", "look", "shown"}, rows : SUBSET Requests, left : SUBSET Requests, items : SUBSET Requests]

(* One request's clocks.                                                   *)
InOrder(r, h, asked, dropping, n) ==
  /\ r.minted <= n /\ r.dismissed <= n /\ asked <= n /\ dropping <= n /\ h.dropped <= n
  /\ r.dismissed <= h.dropped \/ (r.dismissed < n /\ (asked = Unset \/ r.dismissed < asked))
  /\ h.again => r.linked /\ r.dismissed < r.minted /\ (asked = Unset \/ r.dismissed < asked)

CardTyped ==
  /\ clock \in 0..MaxClock /\ active \subseteq Grants /\ steady \subseteq Requests
  /\ request \in [Requests -> RowRecord] /\ mint \in [Requests -> Stamps] /\ drop \in [Requests -> Stamps]
  /\ heard \in [Requests -> Heard] /\ card \in CardRecord
  /\ form \in [stage : {"idle", "grant", "stamp"}, link : SUBSET Requests, picked : SUBSET Grants]
RowsInOrder == \A l \in Requests : InOrder(request[l], heard[l], mint[l], drop[l], clock)
OnCard(l) == l \in card.left \cup card.items \/ (l \notin card.rows /\ Cardinality(card.rows) = PENDING_LIMIT)
CardInOrder == card.stage = "look" => \A l \in steady : IsOpen(l) /\ OnCard(l)
CardInv == CardTyped /\ RowsInOrder /\ CardInOrder

LEMMA TimeIsInt == Unset = -1 /\ Stamps = -1..MaxClock /\ MaxClock \in Nat /\ Unset \in Stamps /\ \A t \in Stamps : t \in Int
BY Limits DEF Unset, Stamps

LEMMA CardStarts == CardInit => CardInv
<1> SUFFICES ASSUME CardInit PROVE CardInv
  OBVIOUS
<1>1. NoRow \in RowRecord /\ [NoRow EXCEPT !.minted = 0] \in RowRecord /\ NoCard \in CardRecord /\ NoCard.stage = "none"
  <2>1. 0 \in Stamps /\ Unset \in Stamps
    BY TimeIsInt
  <2>2. NoRow \in RowRecord /\ [NoRow EXCEPT !.minted = 0] \in RowRecord
    BY <2>1 DEF NoRow, RowRecord
  <2>3. NoCard \in CardRecord /\ NoCard.stage = "none"
    BY DEF NoCard, CardRecord
  <2>4. QED
    BY <2>2, <2>3
<1>2. CardTyped
  BY <1>1, TimeIsInt DEF CardInit, CardTyped, NoForm, Heard
<1>3. RowsInOrder
  <2> SUFFICES ASSUME NEW l \in Requests PROVE InOrder(request[l], heard[l], mint[l], drop[l], clock)
    BY DEF RowsInOrder
  <2>1. request[l] \in {NoRow, [NoRow EXCEPT !.minted = 0]} /\ heard[l] = [dropped |-> Unset, again |-> FALSE]
        /\ mint[l] = Unset /\ drop[l] = Unset /\ clock = 0
    BY DEF CardInit
  <2>2. request[l].minted <= 0 /\ request[l].dismissed = -1
    BY <2>1 DEF NoRow, Unset
  <2>3. QED
    BY <2>1, <2>2 DEF InOrder, Unset
<1>4. QED
  BY <1>1, <1>2, <1>3 DEF CardInv, CardInOrder, CardInit

(* A request that is open is among those the card selects from.            *)
LEMMA OpenIsPending ==
  ASSUME CardInv, NEW l \in Requests, IsOpen(l)
  PROVE  Pending(request[l])
BY DEF CardInv, RowsInOrder, InOrder, IsOpen, Pending

LEMMA SelectionIsFull ==
  ASSUME CardInv, NEW s \in Selections, NEW l \in Requests, Pending(request[l]), l \notin s
  PROVE  Cardinality(s) = PENDING_LIMIT
<1> DEFINE pending == {m \in Requests : Pending(request[m])}
<1>1. IsFiniteSet(pending)
  BY FS_Subset, Wanted
<1>2. s \subseteq pending /\ l \in pending
  BY DEF Selections
<1>3. Cardinality(s) = IF Cardinality(pending) < PENDING_LIMIT THEN Cardinality(pending) ELSE PENDING_LIMIT
  BY DEF Selections
<1> HIDE DEF pending
<1>4. IsFiniteSet(s) /\ s # pending /\ Cardinality(s) < Cardinality(pending)
  <2>1. s # pending /\ s \in SUBSET pending
    BY <1>2
  <2>2. IsFiniteSet(s) /\ Cardinality(s) <= Cardinality(pending) /\ Cardinality(s) # Cardinality(pending)
    BY <1>1, <2>1, FS_Subset
  <2>3. Cardinality(s) \in Nat /\ Cardinality(pending) \in Nat
    BY <1>1, <2>2, FS_CardinalityType
  <2>4. QED
    BY <2>1, <2>2, <2>3
<1>5. Cardinality(s) \in Nat /\ Cardinality(pending) \in Nat
  BY <1>1, <1>4, FS_CardinalityType
<1>6. QED
  BY <1>3, <1>4, <1>5, Limits

(* What a step does to the clocks of one request.                          *)
LEMMA ClockSteps ==
  ASSUME NEW r \in RowRecord, NEW h \in Heard, NEW asked \in Stamps, NEW dropping \in Stamps, NEW n \in 0..MaxClock,
         InOrder(r, h, asked, dropping, n)
  PROVE  /\ asked = Unset => InOrder(r, h, n, dropping, n)
         /\ InOrder(r, h, Unset, dropping, n) /\ InOrder(r, h, asked, n, n) /\ InOrder(r, h, asked, Unset, n)
         /\ \A at \in asked..n : asked # Unset =>
              InOrder(Minted(r, at), [h EXCEPT !.again = @ \/ asked > h.dropped], Unset, dropping, n)
         /\ \A at \in dropping..n : dropping # Unset =>
              InOrder([r EXCEPT !.dismissed = at], [dropped |-> n, again |-> FALSE], asked, Unset, n)
         /\ InOrder(r, IF asked # Unset THEN h ELSE [h EXCEPT !.dropped = Unset], asked, dropping, n + 1)
         /\ \A b \in BOOLEAN : InOrder([r EXCEPT !.approved = b], h, asked, dropping, n)
<1> USE TimeIsInt DEF RowRecord, Heard
<1>1. asked = Unset => InOrder(r, h, n, dropping, n)
  BY DEF InOrder
<1>2. InOrder(r, h, Unset, dropping, n) /\ InOrder(r, h, asked, n, n) /\ InOrder(r, h, asked, Unset, n)
  BY DEF InOrder
<1>3. ASSUME NEW at \in asked..n, asked # Unset
      PROVE  InOrder(Minted(r, at), [h EXCEPT !.again = @ \/ asked > h.dropped], Unset, dropping, n)
  BY <1>3 DEF InOrder, Minted
<1>4. ASSUME NEW at \in dropping..n, dropping # Unset
      PROVE  InOrder([r EXCEPT !.dismissed = at], [dropped |-> n, again |-> FALSE], asked, Unset, n)
  BY <1>4 DEF InOrder
<1>5. InOrder(r, IF asked # Unset THEN h ELSE [h EXCEPT !.dropped = Unset], asked, dropping, n + 1)
  BY DEF InOrder
<1>6. \A b \in BOOLEAN : InOrder([r EXCEPT !.approved = b], h, asked, dropping, n)
  BY DEF InOrder
<1>7. QED
  BY <1>1, <1>2, <1>3, <1>4, <1>5, <1>6

(* The clocks stay in order when each request's are changed, at most, as a *)
(* step changes them.                                                      *)
LEMMA OneRequest ==
  ASSUME CardInv, NEW l \in Requests, clock' = clock,
         \A m \in Requests \ {l} : request'[m] = request[m] /\ heard'[m] = heard[m] /\ mint'[m] = mint[m] /\ drop'[m] = drop[m],
         InOrder(request'[l], heard'[l], mint'[l], drop'[l], clock)
  PROVE  RowsInOrder'
<1> SUFFICES ASSUME NEW m \in Requests
             PROVE  InOrder(request'[m], heard'[m], mint'[m], drop'[m], clock)
  BY DEF RowsInOrder
<1>1. CASE m = l
  BY <1>1
<1>2. CASE m # l
  BY <1>2 DEF CardInv, RowsInOrder
<1>3. QED
  BY <1>1, <1>2

LEMMA ClocksHere ==
  ASSUME CardInv, NEW l \in Requests
  PROVE  /\ request[l] \in RowRecord /\ heard[l] \in Heard /\ mint[l] \in Stamps /\ drop[l] \in Stamps /\ clock \in 0..MaxClock
         /\ InOrder(request[l], heard[l], mint[l], drop[l], clock)
BY DEF CardInv, CardTyped, RowsInOrder

RequestStep(l) == Ask(l) \/ RecordMint(l) \/ MintFails(l) \/ Dismiss(l) \/ StampDismissed(l) \/ DismissFails(l)

LEMMA RequestClocks ==
  ASSUME CardInv, NEW l \in Requests, RequestStep(l)
  PROVE  RowsInOrder'
<1>1. /\ request[l] \in RowRecord /\ heard[l] \in Heard /\ mint[l] \in Stamps /\ drop[l] \in Stamps /\ clock \in 0..MaxClock
      /\ InOrder(request[l], heard[l], mint[l], drop[l], clock)
  BY ClocksHere
<1>2. request \in [Requests -> RowRecord] /\ heard \in [Requests -> Heard] /\ mint \in [Requests -> Stamps] /\ drop \in [Requests -> Stamps]
  BY DEF CardInv, CardTyped
<1>3. CASE Ask(l)
  BY <1>1, <1>2, <1>3, ClockSteps, OneRequest DEF Ask
<1>4. CASE RecordMint(l)
  <2>1. PICK at \in mint[l]..clock : request' = [request EXCEPT ![l] = Minted(@, at)]
    BY <1>4 DEF RecordMint
  <2>2. /\ mint[l] # Unset /\ mint' = [mint EXCEPT ![l] = Unset]
        /\ heard' = [heard EXCEPT ![l].again = @ \/ mint[l] > heard[l].dropped]
        /\ clock' = clock /\ drop' = drop
    BY <1>4 DEF RecordMint
  <2>3. /\ request'[l] = Minted(request[l], at) /\ mint'[l] = Unset /\ drop'[l] = drop[l]
        /\ heard'[l] = [heard[l] EXCEPT !.again = @ \/ mint[l] > heard[l].dropped]
        /\ \A m \in Requests \ {l} : request'[m] = request[m] /\ heard'[m] = heard[m] /\ mint'[m] = mint[m] /\ drop'[m] = drop[m]
    BY <2>1, <2>2, <1>2
  <2>4. InOrder(Minted(request[l], at), [heard[l] EXCEPT !.again = @ \/ mint[l] > heard[l].dropped], Unset, drop[l], clock)
    BY <2>1, <2>2, <1>1, ClockSteps, Zenon
  <2>5. QED
    BY <2>2, <2>3, <2>4, OneRequest
<1>5. CASE MintFails(l)
  BY <1>1, <1>2, <1>5, ClockSteps, OneRequest DEF MintFails
<1>6. CASE Dismiss(l)
  BY <1>1, <1>2, <1>6, ClockSteps, OneRequest DEF Dismiss
<1>7. CASE StampDismissed(l)
  <2>1. PICK at \in drop[l]..clock : request' = [request EXCEPT ![l].dismissed = at]
    BY <1>7 DEF StampDismissed
  <2>2. /\ drop[l] # Unset /\ drop' = [drop EXCEPT ![l] = Unset] /\ clock' = clock /\ mint' = mint
        /\ heard' = [heard EXCEPT ![l] = [dropped |-> clock, again |-> FALSE]]
    BY <1>7 DEF StampDismissed
  <2>3. /\ request'[l] = [request[l] EXCEPT !.dismissed = at] /\ mint'[l] = mint[l] /\ drop'[l] = Unset
        /\ heard'[l] = [dropped |-> clock, again |-> FALSE]
        /\ \A m \in Requests \ {l} : request'[m] = request[m] /\ heard'[m] = heard[m] /\ mint'[m] = mint[m] /\ drop'[m] = drop[m]
    BY <2>1, <2>2, <1>2
  <2>4. InOrder([request[l] EXCEPT !.dismissed = at], [dropped |-> clock, again |-> FALSE], mint[l], Unset, clock)
    BY <2>1, <2>2, <1>1, ClockSteps, Zenon
  <2>5. QED
    BY <2>2, <2>3, <2>4, OneRequest
<1>8. CASE DismissFails(l)
  BY <1>1, <1>2, <1>8, ClockSteps, OneRequest DEF DismissFails
<1>9. QED
  BY <1>3, <1>4, <1>5, <1>6, <1>7, <1>8 DEF RequestStep

Elsewhere ==
  \/ \E l \in Requests : Submit(l) \/ LookAt(l)
  \/ \E g \in Grants : Allow(g) \/ Revoke(g)
  \/ WriteGrant \/ ApprovalDies \/ LoadCard \/ ShowCard \/ CloseCard

LEMMA OtherClocks ==
  ASSUME CardInv, Elsewhere \/ StampApproved \/ CardTick
  PROVE  RowsInOrder'
<1>1. CASE Elsewhere
  <2>1. UNCHANGED <<clock, request, mint, drop, heard>>
    BY <1>1 DEF Elsewhere, Submit, LookAt, Allow, Revoke, WriteGrant, ApprovalDies, LoadCard, ShowCard, CloseCard
  <2>2. QED
    BY <2>1 DEF CardInv, RowsInOrder
<1>2. CASE StampApproved
  <2>1. PICK l \in form.link : request' = [request EXCEPT ![l].approved = (request[l].minted # Unset)]
    BY <1>2 DEF StampApproved
  <2>2. UNCHANGED <<clock, mint, drop, heard>>
    BY <1>2 DEF StampApproved
  <2>3. l \in Requests /\ request \in [Requests -> RowRecord]
    BY DEF CardInv, CardTyped
  <2>4. PICK b \in BOOLEAN : request'[l] = [request[l] EXCEPT !.approved = b]
    BY <2>1, <2>3
  <2>5. \A m \in Requests \ {l} : request'[m] = request[m] /\ heard'[m] = heard[m] /\ mint'[m] = mint[m] /\ drop'[m] = drop[m]
    BY <2>1, <2>2, <2>3
  <2>6. InOrder(request'[l], heard'[l], mint'[l], drop'[l], clock)
    <3>1. /\ request[l] \in RowRecord /\ heard[l] \in Heard /\ mint[l] \in Stamps /\ drop[l] \in Stamps /\ clock \in 0..MaxClock
          /\ InOrder(request[l], heard[l], mint[l], drop[l], clock)
      BY <2>3, ClocksHere
    <3>2. InOrder([request[l] EXCEPT !.approved = b], heard[l], mint[l], drop[l], clock)
      BY <3>1, ClockSteps, Zenon
    <3>3. QED
      BY <2>2, <2>4, <3>2
  <2>7. QED
    BY <2>2, <2>3, <2>5, <2>6, OneRequest
<1>3. CASE CardTick
  <2> SUFFICES ASSUME NEW m \in Requests
               PROVE  InOrder(request'[m], heard'[m], mint'[m], drop'[m], clock')
    BY DEF RowsInOrder
  <2>1. /\ request'[m] = request[m] /\ mint'[m] = mint[m] /\ drop'[m] = drop[m] /\ clock' = clock + 1
        /\ heard'[m] = IF mint[m] # Unset THEN heard[m] ELSE [heard[m] EXCEPT !.dropped = Unset]
    BY <1>3 DEF CardTick
  <2>2. /\ request[m] \in RowRecord /\ heard[m] \in Heard /\ mint[m] \in Stamps /\ drop[m] \in Stamps /\ clock \in 0..MaxClock
        /\ InOrder(request[m], heard[m], mint[m], drop[m], clock)
    BY ClocksHere
  <2>3. InOrder(request[m], IF mint[m] # Unset THEN heard[m] ELSE [heard[m] EXCEPT !.dropped = Unset], mint[m], drop[m], clock + 1)
    BY <2>2, ClockSteps, Zenon
  <2>4. QED
    BY <2>1, <2>3
<1>4. QED
  BY <1>1, <1>2, <1>3

LEMMA NextIsOneOf ==
  CardNext <=> /\ (\E l \in Requests : RequestStep(l)) \/ Elsewhere \/ StampApproved \/ CardTick
           /\ Watch
BY DEF CardNext, RequestStep, Elsewhere

LEMMA TypesKept ==
  ASSUME CardInv, CardNext
  PROVE  CardTyped'
<1> DEFINE Wrote == /\ request' \in [Requests -> RowRecord] /\ mint' \in [Requests -> Stamps] /\ drop' \in [Requests -> Stamps]
                     /\ heard' \in [Requests -> Heard] /\ clock' \in 0..MaxClock
           Form == form' \in [stage : {"idle", "grant", "stamp"}, link : SUBSET Requests, picked : SUBSET Grants]
           Rules == active' \subseteq Grants
           Listed == card' \in CardRecord
<1>0. CardTyped
  BY DEF CardInv
<1>1. steady' \subseteq Requests
  <2>1. Watch
    BY NextIsOneOf
  <2>2. QED
    BY <2>1, <1>0 DEF Watch, CardTyped
<1>a. UNCHANGED <<request, mint, drop, heard, clock>> => Wrote
  BY <1>0 DEF CardTyped
<1>b. UNCHANGED form => Form
  BY <1>0 DEF CardTyped
<1>c. UNCHANGED active => Rules
  BY <1>0 DEF CardTyped
<1>d. UNCHANGED card => Listed
  BY <1>0 DEF CardTyped
<1>2. SUFFICES Wrote /\ Form /\ Rules /\ Listed
  BY <1>1 DEF CardTyped
<1> HIDE DEF Wrote, Form, Rules, Listed
<1>3. ASSUME NEW l \in Requests, RequestStep(l)
      PROVE  Wrote /\ Form /\ Rules /\ Listed
  <2>1. UNCHANGED <<form, active, card, clock>>
    BY <1>3 DEF RequestStep, Ask, RecordMint, MintFails, Dismiss, StampDismissed, DismissFails
  <2>2. \A at \in -1..clock : at \in Stamps
    BY <1>0, TimeIsInt DEF CardTyped
  <2>3. clock \in Stamps /\ Unset \in Stamps
    BY <2>2, TimeIsInt, <1>0 DEF CardTyped
  <2>4. mint[l] \in Stamps /\ drop[l] \in Stamps /\ request[l] \in RowRecord /\ heard[l] \in Heard
    BY <1>0 DEF CardTyped
  <2>5. CASE Ask(l) \/ MintFails(l) \/ Dismiss(l) \/ DismissFails(l)
    <3>1. UNCHANGED <<request, heard>>
      BY <2>5 DEF Ask, MintFails, Dismiss, DismissFails
    <3>2. mint' \in [Requests -> Stamps] /\ drop' \in [Requests -> Stamps]
      BY <2>3, <2>5, <1>0 DEF Ask, MintFails, Dismiss, DismissFails, CardTyped
    <3>3. Wrote
      BY <3>1, <3>2, <2>1, <1>0 DEF Wrote, CardTyped
    <3>4. QED
      BY <3>3, <2>1, <1>b, <1>c, <1>d
  <2>6. CASE RecordMint(l)
    <3>1. PICK at \in mint[l]..clock : request' = [request EXCEPT ![l] = Minted(@, at)]
      BY <2>6 DEF RecordMint
    <3>2. at \in Stamps
      BY <2>2, <2>4, TimeIsInt, <1>0 DEF CardTyped
    <3>3. Minted(request[l], at) \in RowRecord
      BY <3>2, <2>4 DEF Minted, RowRecord
    <3>4. request' \in [Requests -> RowRecord]
      BY <3>1, <3>3, <1>0 DEF CardTyped
    <3>5. [heard[l] EXCEPT !.again = @ \/ mint[l] > heard[l].dropped] \in Heard
      BY <2>4 DEF Heard
    <3>6. heard' \in [Requests -> Heard] /\ mint' \in [Requests -> Stamps] /\ drop' \in [Requests -> Stamps] /\ clock' \in 0..MaxClock
      BY <2>6, <3>5, <2>3, <1>0 DEF RecordMint, CardTyped
    <3>7. QED
      BY <3>4, <3>6, <2>1, <1>b, <1>c, <1>d DEF Wrote
  <2>7. CASE StampDismissed(l)
    <3>1. PICK at \in drop[l]..clock : request' = [request EXCEPT ![l].dismissed = at]
      BY <2>7 DEF StampDismissed
    <3>2. at \in Stamps
      BY <2>2, <2>4, TimeIsInt, <1>0 DEF CardTyped
    <3>3. [request[l] EXCEPT !.dismissed = at] \in RowRecord
      BY <3>2, <2>4 DEF RowRecord
    <3>4. request' \in [Requests -> RowRecord]
      BY <3>1, <3>3, <1>0 DEF CardTyped
    <3>5. [dropped |-> clock, again |-> FALSE] \in Heard
      BY <2>3 DEF Heard
    <3>6. heard' \in [Requests -> Heard] /\ mint' \in [Requests -> Stamps] /\ drop' \in [Requests -> Stamps] /\ clock' \in 0..MaxClock
      BY <2>7, <3>5, <2>3, <1>0 DEF StampDismissed, CardTyped
    <3>7. QED
      BY <3>4, <3>6, <2>1, <1>b, <1>c, <1>d DEF Wrote
  <2>8. QED
    BY <1>3, <2>1, <2>5, <2>6, <2>7, <1>b, <1>c, <1>d DEF RequestStep
<1>4. CASE Elsewhere
  <2>1. Wrote
    BY <1>4, <1>a DEF Elsewhere, Submit, LookAt, Allow, Revoke, WriteGrant, ApprovalDies, LoadCard, ShowCard, CloseCard
  <2>2. Form
    <3>1. ASSUME NEW l \in Requests, Submit(l)
          PROVE  Form
      <4>1. PICK g \in {Wants(l)} \cup Picks(l) : form' = [stage |-> "grant", link |-> {l}, picked |-> {g}]
        BY <3>1 DEF Submit
      <4>2. g \in Grants
        BY Wanted
      <4>3. QED
        BY <4>1, <4>2 DEF Form
    <3>2. CASE WriteGrant
      BY <3>2, <1>0 DEF WriteGrant, Form, CardTyped
    <3>3. CASE ApprovalDies
      BY <3>3 DEF ApprovalDies, Form, NoForm
    <3>4. CASE \/ \E l \in Requests : LookAt(l)
               \/ \E g \in Grants : Allow(g) \/ Revoke(g)
               \/ LoadCard \/ ShowCard \/ CloseCard
      BY <3>4, <1>b DEF LookAt, Allow, Revoke, LoadCard, ShowCard, CloseCard
    <3>5. QED
      BY <1>4, <3>1, <3>2, <3>3, <3>4 DEF Elsewhere
  <2>3. Rules
    BY <1>4, <1>0 DEF Rules, Elsewhere, Submit, LookAt, Allow, Revoke, WriteGrant, ApprovalDies, LoadCard, ShowCard, CloseCard, CardTyped
  <2>4. Listed
    <3>0. card \in CardRecord
      BY <1>0 DEF CardTyped
    <3>1. ASSUME NEW l \in Requests, LookAt(l)
          PROVE  Listed
      <4>1. PICK items \in SUBSET Requests : card' = [card EXCEPT !.left = @ \ {l}, !.items = items]
        <5>1. card.items \in SUBSET Requests /\ card.items \cup {l} \in SUBSET Requests
          BY <3>0 DEF CardRecord
        <5>2. card' = [card EXCEPT !.left = @ \ {l}, !.items = IF GrantActive(Wants(l)) THEN card.items ELSE card.items \cup {l}]
          BY <3>1, <3>0 DEF LookAt, CardRecord
        <5>3. QED
          BY <5>1, <5>2
      <4>2. QED
        BY <4>1, <3>0 DEF Listed, CardRecord
    <3>2. CASE LoadCard
      <4>1. PICK s \in Selections : card' = [stage |-> "look", rows |-> s, left |-> s, items |-> {}]
        BY <3>2 DEF LoadCard
      <4>2. s \in SUBSET Requests
        BY DEF Selections
      <4>3. QED
        BY <4>1, <4>2 DEF Listed, CardRecord
    <3>3. CASE ShowCard \/ CloseCard
      <4>1. NoCard \in CardRecord
        BY DEF NoCard, CardRecord
      <4>2. [NoCard EXCEPT !.stage = "shown", !.items = card.items] \in CardRecord
        BY <3>0, <4>1 DEF CardRecord
      <4>3. QED
        BY <3>3, <4>1, <4>2 DEF ShowCard, CloseCard, Listed
    <3>4. CASE \/ \E l \in Requests : Submit(l)
               \/ \E g \in Grants : Allow(g) \/ Revoke(g)
               \/ WriteGrant \/ ApprovalDies
      BY <3>4, <1>d DEF Submit, Allow, Revoke, WriteGrant, ApprovalDies
    <3>5. QED
      BY <1>4, <3>1, <3>2, <3>3, <3>4 DEF Elsewhere
  <2>5. QED
    BY <2>1, <2>2, <2>3, <2>4
<1>5. CASE StampApproved
  <2>1. PICK l \in form.link : request' = [request EXCEPT ![l].approved = (request[l].minted # Unset)]
    BY <1>5 DEF StampApproved
  <2>2. l \in Requests
    BY <1>0 DEF CardTyped
  <2>3. request' \in [Requests -> RowRecord]
    <3>0. request[l] \in RowRecord /\ \A b \in BOOLEAN, r \in RowRecord : [r EXCEPT !.approved = b] \in RowRecord
      <4>1. ASSUME NEW b \in BOOLEAN, NEW r \in RowRecord
            PROVE  [r EXCEPT !.approved = b] \in RowRecord
        BY DEF RowRecord
      <4>2. QED
        BY <4>1, <2>2, <1>0 DEF CardTyped
    <3>1. [request[l] EXCEPT !.approved = (request[l].minted # Unset)] \in RowRecord
      BY <3>0
    <3>2. QED
      BY <2>1, <3>1, <2>2, <1>0 DEF CardTyped
  <2>4. UNCHANGED <<mint, drop, heard, clock, active, card>> /\ form' = NoForm
    BY <1>5 DEF StampApproved
  <2>5. Wrote /\ Form
    BY <2>3, <2>4, <1>0 DEF Wrote, Form, CardTyped, NoForm
  <2>6. QED
    BY <2>4, <2>5, <1>c, <1>d
<1>6. CASE CardTick
  <2>1. clock' \in 0..MaxClock
    BY <1>6, <1>0, TimeIsInt DEF CardTick, CardTyped
  <2>2. ASSUME NEW l \in Requests
        PROVE  (IF mint[l] # Unset THEN heard[l] ELSE [heard[l] EXCEPT !.dropped = Unset]) \in Heard
    BY <1>0, TimeIsInt DEF CardTyped, Heard
  <2>3. heard' \in [Requests -> Heard]
    BY <1>6, <2>2 DEF CardTick
  <2>4. UNCHANGED <<request, mint, drop, active, form, card>>
    BY <1>6 DEF CardTick
  <2>5. Wrote
    BY <2>1, <2>3, <2>4, <1>0 DEF Wrote, CardTyped
  <2>6. QED
    BY <2>4, <2>5, <1>b, <1>c, <1>d
<1>7. QED
  BY <1>3, <1>4, <1>5, <1>6, NextIsOneOf

LEMMA CardKept ==
  ASSUME CardInv, CardNext
  PROVE  CardInOrder'
<1> SUFFICES ASSUME card'.stage = "look", NEW l \in steady'
             PROVE  IsOpen(l)' /\ OnCard(l)'
  BY DEF CardInOrder
<1>1. Watch
  BY NextIsOneOf
<1>2. l \in Requests /\ IsOpen(l)' /\ (card.stage = "look" => l \in steady)
  BY <1>1 DEF Watch, CardInv, CardTyped
<1>3. CASE LoadCard
  <2>1. PICK s \in Selections : card' = [stage |-> "look", rows |-> s, left |-> s, items |-> {}]
    BY <1>3 DEF LoadCard
  <2>2. UNCHANGED <<clock, request, active, heard>>
    BY <1>3 DEF LoadCard
  <2>3. IsOpen(l)
    BY <1>2, <2>2 DEF IsOpen, GrantActive
  <2>4. l \in s \/ Cardinality(s) = PENDING_LIMIT
    BY <1>2, <2>3, OpenIsPending, SelectionIsFull
  <2>5. QED
    BY <1>2, <2>1, <2>4 DEF OnCard
<1>4. ASSUME NEW m \in Requests, LookAt(m)
      PROVE  OnCard(l)'
  <2>1. card.stage = "look" /\ IsOpen(l) /\ OnCard(l)
    BY <1>2, <1>4 DEF LookAt, CardInv, CardInOrder
  <2>2. card \in CardRecord /\ card' = [card EXCEPT !.left = @ \ {m}, !.items = IF GrantActive(Wants(m)) THEN @ ELSE @ \cup {m}]
    BY <1>4 DEF LookAt, CardInv, CardTyped
  <2>3. /\ card'.rows = card.rows /\ card'.left = card.left \ {m}
        /\ card'.items = IF GrantActive(Wants(m)) THEN card.items ELSE card.items \cup {m}
    BY <2>2 DEF CardRecord
  <2>4. ~GrantActive(Wants(l))
    BY <2>1 DEF IsOpen
  <2>5. QED
    BY <2>1, <2>3, <2>4 DEF OnCard
<1>5. CASE card' = card
  <2>1. OnCard(l)
    BY <1>2, <1>5 DEF CardInv, CardInOrder
  <2>2. QED
    BY <2>1, <1>2, <1>5 DEF OnCard
<1>6. CASE ShowCard \/ CloseCard
  <2>1. NoCard.stage = "none" /\ [NoCard EXCEPT !.stage = "shown", !.items = card.items].stage = "shown"
    BY DEF NoCard
  <2>2. card'.stage \in {"none", "shown"}
    BY <1>6, <2>1 DEF ShowCard, CloseCard
  <2>3. QED
    BY <2>2
<1>7. QED
  <2>1. (\E k \in Requests : RequestStep(k)) \/ StampApproved \/ CardTick => card' = card
    BY DEF RequestStep, Ask, RecordMint, MintFails, Dismiss, StampDismissed, DismissFails, StampApproved, CardTick
  <2>2. Elsewhere => card' = card \/ LoadCard \/ ShowCard \/ CloseCard \/ \E k \in Requests : LookAt(k)
    BY DEF Elsewhere, Submit, Allow, Revoke, WriteGrant, ApprovalDies
  <2>3. QED
    BY <1>2, <1>3, <1>4, <1>5, <1>6, <2>1, <2>2, NextIsOneOf

LEMMA CardSteps ==
  ASSUME CardInv, [CardNext]_card_vars
  PROVE  CardInv'
<1>1. CASE CardNext
  <2>1. RowsInOrder'
    BY <1>1, NextIsOneOf, RequestClocks, OtherClocks
  <2>2. QED
    BY <1>1, <2>1, TypesKept, CardKept DEF CardInv
<1>2. CASE UNCHANGED card_vars
  BY <1>2 DEF card_vars, CardInv, CardTyped, RowsInOrder, CardInOrder, OnCard, IsOpen, GrantActive
<1>3. QED
  BY <1>1, <1>2

LEMMA CardInvariant == CardSpec => []CardInv
<1>1. CardInit => CardInv
  BY CardStarts
<1>2. CardInv /\ [CardNext]_card_vars => CardInv'
  BY CardSteps
<1>3. QED
  BY <1>1, <1>2, PTL DEF CardSpec

(* The requests, the forms and the card are what the module's TypeOK says. *)
THEOREM CardTypeCorrect == CardSpec => []CardTypeOK
<1>1. CardInv => CardTypeOK
  BY DEF CardInv, CardTyped, CardTypeOK, RowRecord, Heard, CardRecord
<1>2. QED
  BY <1>1, CardInvariant, PTL

(* A request that was open all the while the card was put together is on   *)
(* it, unless the card was full without it: however many requests there    *)
(* are, and however the calls that write rows and rules overlapped         *)
(* (approvalPending.ts:28-29, "a dismissal must not silence it forever").  *)
THEOREM OpenStaysListed == CardSpec => AskedAgainIsListed
<1>1. ASSUME CardInv, [CardNext]_card_vars
      PROVE  [ShowCard => \A l \in steady : l \in card.items \/ Cardinality(card.rows \ {l}) = PENDING_LIMIT]_card_vars
  <2> SUFFICES ASSUME ShowCard, NEW l \in steady
               PROVE  l \in card.items \/ Cardinality(card.rows \ {l}) = PENDING_LIMIT
    OBVIOUS
  <2>1. card.stage = "look" /\ card.left = {}
    BY DEF ShowCard
  <2>2. OnCard(l)
    BY <1>1, <2>1 DEF CardInv, CardInOrder
  <2>3. l \notin card.rows => card.rows \ {l} = card.rows
    OBVIOUS
  <2>4. QED
    BY <2>1, <2>2, <2>3 DEF OnCard
<1>2. QED
  BY <1>1, CardInvariant, PTL DEF CardSpec, AskedAgainIsListed
==============================================================================
