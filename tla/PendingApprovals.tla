-------------------------- MODULE PendingApprovals --------------------------
(***************************************************************************)
(* The owner's open requests and the card that lists them on the           *)
(* dashboard.  An agent asks, the owner approves or dismisses, rules come  *)
(* and go elsewhere; each is a call of several statements, and the card is *)
(* put together from one SELECT and a look at the rules for each row.      *)
(***************************************************************************)
EXTENDS Integers, FiniteSets

CONSTANTS
  Requests,       \* requests of one owner
  Grants,         \* what rules may allow
  Wants(_),       \* the grant a request asks for
  Picks(_),       \* other grants that the owner may pick instead, in the file picker
  Covers(_),      \* the grants that satisfy one who wants this one
  PendingWindow,  \* PENDING_WINDOW_MS, in ticks
  PENDING_LIMIT,
  MaxClock        \* bound on the clock

ASSUME Limits == PendingWindow \in Nat /\ PENDING_LIMIT \in Nat /\ MaxClock \in Nat
ASSUME Wanted == IsFiniteSet(Requests) /\ \A l \in Requests : Wants(l) \in Grants /\ Picks(l) \subseteq Grants

VARIABLES
  clock,
  request,        \* what approval_requests holds of each request
  active,         \* the grants that rules allow
  mint,           \* an asking of the agent's on its way to the row: since when
  drop,           \* a dismissal on its way to the row: since when
  form,           \* the approval that the owner is submitting
  card,           \* the card being put together, or shown
  heard,          \* history: when a dismissal last took effect, as long as an asking may be compared with it,
                  \* and whether the agent has asked since
  steady          \* history: the requests that were open all the while the card was put together

card_vars == <<clock, request, active, mint, drop, form, card, heard, steady>>

Unset == -1
Stamps == Unset..MaxClock
NoRow == [minted |-> Unset, linked |-> FALSE, dismissed |-> Unset, approved |-> FALSE]
NoForm == [stage |-> "idle", link |-> {}, picked |-> {}]
NoCard == [stage |-> "none", rows |-> {}, left |-> {}, items |-> {}]

(* Rows from before link_query existed have none.                          *)
CardInit ==
  /\ clock = 0
  /\ request \in [Requests -> {NoRow, [NoRow EXCEPT !.minted = 0]}]
  /\ active = {}
  /\ mint = [l \in Requests |-> Unset] /\ drop = [l \in Requests |-> Unset]
  /\ form = NoForm
  /\ card = NoCard
  /\ heard = [l \in Requests |-> [dropped |-> Unset, again |-> FALSE]]
  /\ steady = {}

(* grantActiveForApproval                                                  *)
GrantActive(g) == Covers(g) \cap active # {}
------------------------------------------------------------------------------
(* recordApprovalMint: a row, or another asking in the row there is.       *)
Ask(l) ==
  /\ mint[l] = Unset
  /\ mint' = [mint EXCEPT ![l] = clock]
  /\ UNCHANGED <<clock, request, active, drop, form, card, heard>>

Minted(r, at) == [r EXCEPT !.minted = at, !.linked = TRUE]

RecordMint(l) ==
  /\ mint[l] # Unset
  /\ \E at \in mint[l]..clock : request' = [request EXCEPT ![l] = Minted(@, at)]
  /\ mint' = [mint EXCEPT ![l] = Unset]
  /\ heard' = [heard EXCEPT ![l].again = @ \/ mint[l] > heard[l].dropped]
  /\ UNCHANGED <<clock, active, drop, form, card>>

MintFails(l) ==
  /\ mint[l] # Unset
  /\ mint' = [mint EXCEPT ![l] = Unset]
  /\ UNCHANGED <<clock, request, active, drop, form, card, heard>>

(* dismissPendingApproval, by the button of an item that is shown.         *)
Dismiss(l) ==
  /\ card.stage = "shown" /\ l \in card.items /\ drop[l] = Unset
  /\ drop' = [drop EXCEPT ![l] = clock]
  /\ UNCHANGED <<clock, request, active, mint, form, card, heard>>

StampDismissed(l) ==
  /\ drop[l] # Unset
  /\ \E at \in drop[l]..clock : request' = [request EXCEPT ![l].dismissed = at]
  /\ drop' = [drop EXCEPT ![l] = Unset]
  /\ heard' = [heard EXCEPT ![l] = [dropped |-> clock, again |-> FALSE]]
  /\ UNCHANGED <<clock, active, mint, form, card>>

DismissFails(l) ==
  /\ drop[l] # Unset
  /\ drop' = [drop EXCEPT ![l] = Unset]
  /\ UNCHANGED <<clock, request, active, mint, form, card, heard>>
------------------------------------------------------------------------------
(* approveMagicLink: nothing is written for what is granted already;       *)
(* otherwise the rule, then the stamp.  The owner may hold a link whose    *)
(* mint was never recorded.                                                *)
Submit(l) ==
  /\ form = NoForm
  /\ \E g \in {Wants(l)} \cup Picks(l) :
       /\ ~GrantActive(g)
       /\ form' = [stage |-> "grant", link |-> {l}, picked |-> {g}]
  /\ UNCHANGED <<clock, request, active, mint, drop, card, heard>>

WriteGrant ==
  /\ form.stage = "grant"
  /\ active' = active \cup form.picked
  /\ form' = [form EXCEPT !.stage = "stamp", !.picked = {}]
  /\ UNCHANGED <<clock, request, mint, drop, card, heard>>

StampApproved ==
  /\ form.stage = "stamp"
  /\ \E l \in form.link : request' = [request EXCEPT ![l].approved = (request[l].minted # Unset)]
  /\ form' = NoForm
  /\ UNCHANGED <<clock, active, mint, drop, card, heard>>

ApprovalDies ==
  /\ form # NoForm
  /\ form' = NoForm
  /\ UNCHANGED <<clock, request, active, mint, drop, card, heard>>

(* The dashboard's own forms.                                              *)
Allow(g) ==
  /\ g \notin active
  /\ active' = active \cup {g}
  /\ UNCHANGED <<clock, request, mint, drop, form, card, heard>>

Revoke(g) ==
  /\ g \in active
  /\ active' = active \ {g}
  /\ UNCHANGED <<clock, request, mint, drop, form, card, heard>>
------------------------------------------------------------------------------
(* selectPendingApprovals: the rows that count, and of them the newest.    *)
PendingOnce(r) ==                                                            \* mutant
  ~r.approved /\ r.linked /\ clock - r.minted <= PendingWindow /\ r.dismissed = Unset
Pending(r) == ~r.approved /\ r.linked /\ clock - r.minted <= PendingWindow /\ r.dismissed < r.minted

Selections ==
  LET pending == {l \in Requests : Pending(request[l])}
      size == IF Cardinality(pending) < PENDING_LIMIT THEN Cardinality(pending) ELSE PENDING_LIMIT
  IN  {s \in SUBSET pending :
         Cardinality(s) = size /\ \A l \in s, m \in pending \ s : request[m].minted <= request[l].minted}

(* The card leaves out what has been granted elsewhere, row by row (here   *)
(* in any order), and is shown when it is complete.                        *)
LoadCard ==
  /\ card.stage # "look"
  /\ \E s \in Selections : card' = [stage |-> "look", rows |-> s, left |-> s, items |-> {}]
  /\ UNCHANGED <<clock, request, active, mint, drop, form, heard>>

LookAt(l) ==
  /\ card.stage = "look" /\ l \in card.left
  /\ card' = [card EXCEPT !.left = @ \ {l}, !.items = IF GrantActive(Wants(l)) THEN @ ELSE @ \cup {l}]
  /\ UNCHANGED <<clock, request, active, mint, drop, form, heard>>

ShowCard ==
  /\ card.stage = "look" /\ card.left = {}
  /\ card' = [NoCard EXCEPT !.stage = "shown", !.items = card.items]
  /\ UNCHANGED <<clock, request, active, mint, drop, form, heard>>

CloseCard ==
  /\ card.stage # "none"
  /\ card' = NoCard
  /\ UNCHANGED <<clock, request, active, mint, drop, form, heard>>

CardTick ==
  /\ clock < MaxClock
  /\ clock' = clock + 1
  /\ heard' = [l \in Requests |-> IF mint[l] # Unset THEN heard[l] ELSE [heard[l] EXCEPT !.dropped = Unset]]
  /\ UNCHANGED <<request, active, mint, drop, form, card>>
------------------------------------------------------------------------------
(* What is open, whatever the clocks in the row say of it: the agent has   *)
(* asked since the last dismissal, within the window, and was not granted. *)
IsOpen(l) ==
  /\ heard[l].again /\ ~request[l].approved /\ ~GrantActive(Wants(l))
  /\ clock - request[l].minted <= PendingWindow

Watch ==
  steady' = IF card'.stage # "look" THEN {}
            ELSE {l \in IF card.stage = "look" THEN steady ELSE Requests : IsOpen(l)'}

CardNext ==
  /\ \/ \E l \in Requests :
          \/ Ask(l) \/ RecordMint(l) \/ MintFails(l)
          \/ Dismiss(l) \/ StampDismissed(l) \/ DismissFails(l)
          \/ Submit(l) \/ LookAt(l)
     \/ \E g \in Grants : Allow(g) \/ Revoke(g)
     \/ WriteGrant \/ StampApproved \/ ApprovalDies
     \/ LoadCard \/ ShowCard \/ CloseCard \/ CardTick
  /\ Watch

CardSpec == CardInit /\ [][CardNext]_card_vars
------------------------------------------------------------------------------
CardTypeOK ==
  /\ clock \in 0..MaxClock /\ active \subseteq Grants /\ steady \subseteq Requests
  /\ request \in [Requests -> [minted : Stamps, linked : BOOLEAN, dismissed : Stamps, approved : BOOLEAN]]
  /\ mint \in [Requests -> Stamps] /\ drop \in [Requests -> Stamps]
  /\ form \in [stage : {"idle", "grant", "stamp"}, link : SUBSET Requests, picked : SUBSET Grants]
  /\ card.stage \in {"none", "look", "shown"} /\ card.rows \cup card.left \cup card.items \subseteq Requests
  /\ heard \in [Requests -> [dropped : Stamps, again : BOOLEAN]]

(* "a fresh denial is fresh demand, and a dismissal must not silence it    *)
(* forever" (approvalPending.ts:28-29): a request that was open all the    *)
(* while the card was put together is on it, however the calls that wrote  *)
(* its row and the rules overlapped, unless the card was full without it.  *)
AskedAgainIsListed ==
  [][ShowCard => \A l \in steady : l \in card.items \/ Cardinality(card.rows \ {l}) = PENDING_LIMIT]_card_vars
==============================================================================
