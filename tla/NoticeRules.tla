----------------------------- MODULE NoticeRules -----------------------------
(***************************************************************************)
(* The rules every owner-notice claim evaluates in the WHERE of its UPDATE *)
(* (src/src/lib/approvalRequests.ts, accountRefusals.ts and                *)
(* googleGrantFailures.ts), as operators on the notified_at stamps of the  *)
(* three ledgers.  A row is a ledger row: a link (approval_requests), a    *)
(* refusal (account_refusals) or a grant (google_grant_failures).          *)
(***************************************************************************)
EXTENDS Integers, FiniteSets

CONSTANTS
  Owners,            \* users.id of the people who can be emailed
  Links,             \* approval_requests rows
  Refusals,          \* account_refusals rows
  Grants,            \* google_grant_failures rows
  OwnerOf,           \* the user_id of each row
  MaxPerDay,         \* NOTIFY_MAX_PER_DAY
  GlobalHourlyMax,   \* GRANT_DEAD_GLOBAL_HOURLY_MAX
  Hour, Day,         \* the one-hour and 24-hour intervals, in clock ticks
  LinkEpisode,       \* APPROVAL_LINK_EPISODE_GAP_MS, in ticks
  RefusalEpisode,    \* ACCOUNT_REFUSAL_EPISODE_GAP_MS, in ticks
  Time               \* the clock readings: Nat, or an initial part of it for TLC

Rows == Links \union Refusals \union Grants

ASSUME LedgersDisjoint ==
  /\ Links \intersect Refusals = {}
  /\ Links \intersect Grants = {}
  /\ Refusals \intersect Grants = {}

ASSUME RowsFinite == IsFiniteSet(Rows)
ASSUME OwnersOfRows == OwnerOf \in [Rows -> Owners]
ASSUME Limits == MaxPerDay \in Nat /\ GlobalHourlyMax \in Nat
ASSUME Intervals == {Hour, Day, LinkEpisode, RefusalEpisode} \subseteq Nat \ {0}

ASSUME ClockReadings == Time \subseteq Nat /\ 0 \in Time

(* A nullable timestamp; the clock starts at 0. *)
Never == -1
Stamp == Time \union {Never}

(* SQL's  notified_at > t - interval 'gap':  NULL is never within. *)
Within(s, t, gap) == s # Never /\ s > t - gap

(* recentNotificationCountSql: the owner's stamps of the last 24 hours,    *)
(* over all three ledgers.                                                 *)
RecentOf(stamp, t, o) ==
  {r \in Rows : OwnerOf[r] = o /\ Within(stamp[r], t, Day)}

(* Two faults, each put in place of the definition after them to see the   *)
(* cap fail: <= for <, and one ledger left out of the count.               *)
UnderCapInclusive(stamp, t, o) == Cardinality(RecentOf(stamp, t, o)) <= MaxPerDay
UnderCapTwoLedgers(stamp, t, o) == Cardinality(RecentOf(stamp, t, o) \ Grants) < MaxPerDay
UnderCap(stamp, t, o) == Cardinality(RecentOf(stamp, t, o)) < MaxPerDay

(* Fault: an episode of a day. *)
NoLinkDay(stamp, t, r) ==
  \A s \in Links \ {r} : OwnerOf[s] = OwnerOf[r] => ~Within(stamp[s], t, Day)

(* NOT ownerLinkEpisodeNotifiedSql: it looks at the owner's OTHER links.   *)
NoLinkEpisode(stamp, t, r) ==
  \A s \in Links \ {r} : OwnerOf[s] = OwnerOf[r] => ~Within(stamp[s], t, LinkEpisode)

(* Fault: an episode of a day. *)
NoRefusalDay(stamp, t, o) ==
  \A s \in Refusals : OwnerOf[s] = o => ~Within(stamp[s], t, Day)

(* NOT ownerEpisodeNotifiedSql: any refusal row of the owner.              *)
NoRefusalEpisode(stamp, t, o) ==
  \A s \in Refusals : OwnerOf[s] = o => ~Within(stamp[s], t, RefusalEpisode)

(* recentGlobalNoticeCountSql < GRANT_DEAD_GLOBAL_HOURLY_MAX.              *)
RecentGrants(stamp, t) == {g \in Grants : Within(stamp[g], t, Hour)}
UnderBreakerInclusive(stamp, t) ==      \* fault: <= for <
  Cardinality(RecentGrants(stamp, t)) <= GlobalHourlyMax
UnderBreaker(stamp, t) == Cardinality(RecentGrants(stamp, t)) < GlobalHourlyMax

(* What a claim of row r at time t requires of the stamps.  (Whether the   *)
(* recipient is on the bounce ledger is not a matter of stamps.)           *)
Permits(stamp, t, r) ==
  /\ stamp[r] = Never
  /\ UnderCap(stamp, t, OwnerOf[r])
  /\ r \in Links => NoLinkEpisode(stamp, t, r)
  /\ r \in Refusals => NoRefusalEpisode(stamp, t, OwnerOf[r])
  /\ r \in Grants => UnderBreaker(stamp, t)
==============================================================================
