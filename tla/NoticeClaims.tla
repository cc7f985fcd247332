---------------------------- MODULE NoticeClaims -----------------------------
(***************************************************************************)
(* What the claims of the three ledgers promise together: a claim is one   *)
(* atomic step that stamps a row the rules permit.  A stamp goes away only *)
(* when a send definitely failed (the releases) or a new dead-grant        *)
(* episode begins.  NoticeClaimLock shows how the transactions implement   *)
(* this; OwnerNotices uses it.                                             *)
(***************************************************************************)
EXTENDS NoticeRules

VARIABLE stamp      \* notified_at of every row

ClaimsInit == stamp = [r \in Rows |-> Never]

(* t is the now() of the claim's transaction: the time at which it BEGAN.  *)
(* Claims may therefore commit in another order than their stamps'.        *)
ClaimRow(r, t) ==
  /\ Permits(stamp, t, r)
  /\ stamp' = [stamp EXCEPT ![r] = t]

EraseRow(r) ==
  /\ stamp[r] # Never
  /\ stamp' = [stamp EXCEPT ![r] = Never]

ClaimsNext == \E r \in Rows : EraseRow(r) \/ \E t \in Time : ClaimRow(r, t)

ClaimsSpec == ClaimsInit /\ [][ClaimsNext]_stamp
------------------------------------------------------------------------------
StampsOK == stamp \in [Rows -> Stamp]

(* In no 24-hour window does an owner carry more than MaxPerDay stamps,    *)
(* whatever the order in which the claims committed                        *)
(* (approvalRequests.ts, recentNotificationCountSql).                      *)
DayOf(o, w) == {r \in RecentOf(stamp, w, o) : stamp[r] <= w}
CapOnStamps == \A o \in Owners, w \in Time : Cardinality(DayOf(o, w)) <= MaxPerDay

(* Two stamped links of one owner are an episode apart                     *)
(* (ownerLinkEpisodeNotifiedSql).                                          *)
LinkEpisodesOnStamps ==
  \A r, s \in Links :
    /\ r # s /\ OwnerOf[r] = OwnerOf[s]
    /\ stamp[r] # Never /\ stamp[s] # Never /\ stamp[r] <= stamp[s]
    => stamp[r] <= stamp[s] - LinkEpisode

(* The same for two refused accounts (ownerEpisodeNotifiedSql).            *)
RefusalEpisodesOnStamps ==
  \A r, s \in Refusals :
    /\ r # s /\ OwnerOf[r] = OwnerOf[s]
    /\ stamp[r] # Never /\ stamp[s] # Never /\ stamp[r] <= stamp[s]
    => stamp[r] <= stamp[s] - RefusalEpisode

(* In no hour do the dead-grant stamps of all owners together exceed the   *)
(* circuit breaker (recentGlobalNoticeCountSql).                           *)
HourOf(w) == {g \in RecentGrants(stamp, w) : stamp[g] <= w}
BreakerOnStamps == \A w \in Time : Cardinality(HourOf(w)) <= GlobalHourlyMax
==============================================================================
