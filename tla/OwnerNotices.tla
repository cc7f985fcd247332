---------------------------- MODULE OwnerNotices -----------------------------
(***************************************************************************)
(* FGAC emails the owner of a mailbox from its support mailbox on three    *)
(* occasions: an agent asks again for an approval link nobody opened, an   *)
(* agent keeps passing an account its key cannot use, and a Google grant   *)
(* only the owner can repair fails (src/src/lib/approvalNotify.ts).  Each  *)
(* has a ledger table; a call of the MCP route records the event, decides, *)
(* claims the ledger row, sends, and releases the row again when the send  *)
(* definitely failed.  Calls are serverless invocations: any number run at *)
(* once, each step below is one database or Gmail round trip, and a call   *)
(* can be killed between any two.                                          *)
(***************************************************************************)
EXTENDS NoticeRules, Sequences

CONSTANTS
  Calls,           \* concurrent MCP invocations
  Addresses,       \* e-mail addresses
  EmailOf,         \* users.email of each owner
  MailboxOf,       \* account_email of each grant row
  Delegates,       \* addresses of key owners who use another's mailbox
  Classes,         \* reasons a grant fails for: the dead class, the scope class
  ClassesOf,       \* those each grant row fails for
  MinGap,          \* NOTIFY_MIN_GAP_MS, in ticks
  NotifyAfter,     \* ACCOUNT_REFUSAL_NOTIFY_AFTER
  GrantEpisode,    \* GRANT_DEAD_EPISODE_GAP_MS, in ticks
  CallLife,        \* ticks a call can straddle before maxDuration kills it
  MaxBounces,      \* bound on the delivery reports
  MaxTurns,        \* bound: a row that began so many episodes stays with its class
  None

ASSUME AddressBook ==
  /\ EmailOf \in [Owners -> Addresses]
  /\ MailboxOf \in [Grants -> Addresses]
  /\ Delegates \subseteq Addresses
  /\ ClassesOf \in [Grants -> SUBSET Classes]
ASSUME Parameters ==
  /\ MinGap \in Nat /\ NotifyAfter \in Nat \ {0}
  /\ {GrantEpisode, MaxBounces, MaxTurns} \subseteq Nat /\ CallLife \in Nat \ {0}
ASSUME NoneIsNothing == None \notin Rows \union Addresses \union Classes

VARIABLES
  now,        \* the clock
  link,       \* approval_requests
  refusal,    \* account_refusals
  grant,      \* google_grant_failures
  call,       \* invocations in flight
  mails,      \* what the support mailbox sent, in order
  filed,      \* email_bounces: a mail's index, and the recipient that bounced
  marking,    \* addresses whose bounce is inserted, grant rows not yet marked
  unsettled,  \* history: grants whose class changed under a call that still runs
  excused     \* history: mails no limit is claimed for (Excuse)

ledgers == <<link, refusal, grant>>
bounces == <<filed, marking>>
history == <<unsettled, excused>>
vars == <<now, link, refusal, grant, call, mails, filed, marking, unsettled, excused>>

(* A row that was never inserted has mintCount 0, windowCount 0, class     *)
(* None.  mintCount saturates at 2 and windowCount at NotifyAfter: no      *)
(* decision tells larger values apart.                                     *)
NoLink == [mintCount |-> 0, firstMintedAt |-> 0, opened |-> FALSE, notifiedAt |-> Never]
NoRefusal == [windowCount |-> 0, windowStartedAt |-> 0, lastRefusedAt |-> 0, notifiedAt |-> Never]
NoFailure == [class |-> None, lastFailedAt |-> 0, notifiedCount |-> 0, notifiedAt |-> Never,
              undeliverable |-> FALSE, episode |-> 0]   \* episode only numbers the resets

(* A call remembers the episode of the grant row it recorded: the mail is  *)
(* written from that row.                                                  *)
Idle == [pc |-> "idle", row |-> None, cc |-> None, episode |-> 0, since |-> 0, stamp |-> Never]

Init ==
  /\ now = 0
  /\ link = [r \in Links |-> NoLink]
  /\ refusal = [r \in Refusals |-> NoRefusal]
  /\ grant = [r \in Grants |-> NoFailure]
  /\ call = [c \in Calls |-> Idle]
  /\ mails = << >>
  /\ filed = {}
  /\ marking = {}
  /\ unsettled = {}
  /\ excused = {}

NotifiedAt ==
  [r \in Rows |-> IF r \in Links THEN link[r].notifiedAt
                  ELSE IF r \in Refusals THEN refusal[r].notifiedAt
                  ELSE grant[r].notifiedAt]

(* recipientUndeliverableSql: a permanent bounce is on file.               *)
Undeliverable(a) == \E b \in filed : b[2] = a

(* The address a row's notice is sent to, and the one the claim checks.    *)
RecipientOf(r) == IF r \in Grants THEN MailboxOf[r] ELSE EmailOf[OwnerOf[r]]
RecipientsUnfiltered(c) == {RecipientOf(call[c].row), call[c].cc}   \* fault: a missing Cc is written
RecipientsOf(c) == {RecipientOf(call[c].row), call[c].cc} \ {None}

Least(a, b) == IF a < b THEN a ELSE b
Goto(c, pc) == call' = [call EXCEPT ![c].pc = pc]
Return(c) == call' = [call EXCEPT ![c] = Idle]
Enter(c, pc, r, cc, ep) ==
  call' = [call EXCEPT ![c] = [Idle EXCEPT !.pc = pc, !.row = r, !.cc = cc,
                                           !.episode = ep, !.since = now]]
------------------------------------------------------------------------------
(* Trigger 1: approval links.                                              *)

(* recordApprovalMint, best effort: the call goes on when the write fails. *)
Mint(c, r) ==
  /\ call[c].pc = "idle"
  /\ \/ link' = [link EXCEPT ![r].mintCount = Least(@ + 1, 2),
                             ![r].firstMintedAt = IF link[r].mintCount = 0 THEN now ELSE @]
     \/ UNCHANGED link
  /\ Enter(c, "read", r, None, 0)
  /\ UNCHANGED <<now, refusal, grant, mails, bounces>>

(* getApprovalNotificationState and the due rule of attempt(); the claim   *)
(* that follows looks at neither the mints nor the open again.             *)
LinkDue(r) ==
  /\ link[r].notifiedAt = Never
  /\ ~link[r].opened
  /\ link[r].mintCount >= 2
  /\ now - link[r].firstMintedAt >= MinGap

ReadLink(c) ==
  /\ call[c].pc = "read"
  /\ IF LinkDue(call[c].row) THEN Goto(c, "claim") ELSE Return(c)
  /\ UNCHANGED <<now, ledgers, mails, bounces>>

(* The owner opens the approve page.                                       *)
Open(r) ==
  /\ link[r].mintCount > 0
  /\ ~link[r].opened
  /\ link' = [link EXCEPT ![r].opened = TRUE]
  /\ UNCHANGED <<now, refusal, grant, call, mails, bounces>>
------------------------------------------------------------------------------
(* Trigger 2: refused accounts.  One upsert returns the row it decides by. *)

Refuse(c, r) ==
  LET old == refusal[r]
      stale == old.lastRefusedAt < now - Day
      fresh == old.windowCount = 0 \/ stale
      count == IF fresh THEN 1 ELSE Least(old.windowCount + 1, NotifyAfter)
  IN /\ call[c].pc = "idle"
     /\ refusal' = [refusal EXCEPT ![r].windowCount = count,
                                   ![r].windowStartedAt = IF fresh THEN now ELSE @,
                                   ![r].lastRefusedAt = now]
     /\ IF old.notifiedAt = Never /\ count >= NotifyAfter
        THEN Enter(c, "claim", r, None, 0)
        ELSE UNCHANGED call
     /\ UNCHANGED <<now, link, grant, mails, bounces>>
------------------------------------------------------------------------------
(* Trigger 3: grants a reconnect would repair.  A failure long after the   *)
(* last one, or of the other class, begins a new episode: count and stamp  *)
(* are reset, whoever holds the row's claim.  cc is the delegate whose     *)
(* agent was refused, or None on one's own mailbox.                        *)

FailGrant(c, g, class, cc) ==
  LET old == grant[g]
      stale == old.class # None /\ (old.lastFailedAt < now - GrantEpisode \/ old.class # class)
      row == [old EXCEPT !.class = class, !.lastFailedAt = now,
                         !.notifiedCount = IF stale THEN 0 ELSE @,
                         !.notifiedAt = IF stale THEN Never ELSE @,
                         !.episode = IF stale THEN @ + 1 ELSE @]
      due == ~row.undeliverable /\ row.notifiedAt = Never /\ row.notifiedCount < 1
  IN /\ call[c].pc = "idle"
     /\ old.class # class => row.episode <= MaxTurns
     /\ grant' = [grant EXCEPT ![g] = row]
     /\ IF due THEN Enter(c, "claim", g, cc, row.episode) ELSE UNCHANGED call
     /\ UNCHANGED <<now, link, refusal, mails, bounces>>
------------------------------------------------------------------------------
(* The claim, the send and the release, common to the three triggers.      *)

(* Fault: the bounce ledger is not looked at. *)
ClaimableUnchecked(r) ==
  /\ Permits(NotifiedAt, now, r)
  /\ r \in Grants => grant[r].notifiedCount < 1

(* The claim's UPDATE, atomic as NoticeClaimLock shows it to be.           *)
Claimable(r) ==
  /\ Permits(NotifiedAt, now, r)
  /\ ~Undeliverable(RecipientOf(r))
  /\ r \in Grants => grant[r].notifiedCount < 1

Stamped(r) ==
  /\ link' = IF r \in Links THEN [link EXCEPT ![r].notifiedAt = now] ELSE link
  /\ refusal' = IF r \in Refusals THEN [refusal EXCEPT ![r].notifiedAt = now] ELSE refusal
  /\ grant' = IF r \in Grants
              THEN [grant EXCEPT ![r].notifiedAt = now, ![r].notifiedCount = @ + 1]
              ELSE grant

(* Fault: the UPDATE trusts what was read before it. *)
ClaimAsRead(c) ==
  /\ call[c].pc = "claim"
  /\ Stamped(call[c].row)
  /\ call' = [call EXCEPT ![c].pc = "send", ![c].stamp = now]
  /\ UNCHANGED <<now, mails, bounces>>

Claim(c) ==
  /\ call[c].pc = "claim"
  /\ Claimable(call[c].row)
  /\ Stamped(call[c].row)
  /\ call' = [call EXCEPT ![c].pc = "send", ![c].stamp = now]
  /\ UNCHANGED <<now, mails, bounces>>

ClaimRefused(c) ==
  /\ call[c].pc = "claim"
  /\ ~Claimable(call[c].row)
  /\ Return(c)
  /\ UNCHANGED <<now, ledgers, mails, bounces>>

Mail(c) ==
  [row |-> call[c].row, at |-> call[c].stamp, to |-> RecipientsOf(c), episode |-> call[c].episode]

Sent(c) == mails' = Append(mails, Mail(c))

SendAccepted(c) ==
  /\ call[c].pc = "send"
  /\ Sent(c)
  /\ Return(c)
  /\ UNCHANGED <<now, ledgers, bounces>>

(* Fault: the claim is released although the mail may have left. *)
SendUnconfirmedReleases(c) ==
  /\ call[c].pc = "send"
  /\ Sent(c) \/ UNCHANGED mails
  /\ Goto(c, "release")
  /\ UNCHANGED <<now, ledgers, bounces>>

(* A time-out or a 5xx: the mail may have left; the claim is kept.         *)
SendUnconfirmed(c) ==
  /\ call[c].pc = "send"
  /\ Sent(c) \/ UNCHANGED mails
  /\ Return(c)
  /\ UNCHANGED <<now, ledgers, bounces>>

(* A 4xx: definitely not sent.                                             *)
SendRefused(c) ==
  /\ call[c].pc = "send"
  /\ Goto(c, "release")
  /\ UNCHANGED <<now, ledgers, mails, bounces>>

(* The three releases: they erase the row's stamp, whosever it is.         *)
Release(c) ==
  LET r == call[c].row IN
  /\ call[c].pc = "release"
  /\ link' = IF r \in Links THEN [link EXCEPT ![r].notifiedAt = Never] ELSE link
  /\ refusal' = IF r \in Refusals THEN [refusal EXCEPT ![r].notifiedAt = Never] ELSE refusal
  /\ grant' = IF r \in Grants
              THEN [grant EXCEPT ![r].notifiedAt = Never,
                                 ![r].notifiedCount = IF @ > 0 THEN @ - 1 ELSE 0]
              ELSE grant
  /\ Return(c)
  /\ UNCHANGED <<now, mails, bounces>>

(* The platform kills the invocation, or a write fails with an error that  *)
(* the code logs and swallows.                                             *)
Die(c) ==
  /\ call[c].pc # "idle"
  /\ Return(c)
  /\ UNCHANGED <<now, ledgers, mails, bounces>>
------------------------------------------------------------------------------
(* The bounce sweep (emailBounceSweep.ts, recordBounce): a row for the     *)
(* delivery report, then the mark on the mailbox's grant rows.             *)

FileBounce(i, a) ==
  /\ i \in 1..Len(mails) /\ a \in mails[i].to
  /\ <<i, a>> \notin filed                \* unique gmail_message_id
  /\ Cardinality(filed) < MaxBounces
  /\ filed' = filed \union {<<i, a>>}
  /\ marking' = marking \union {a}
  /\ UNCHANGED <<now, ledgers, call, mails>>

MarkGrants(a) ==
  /\ a \in marking
  /\ grant' = [g \in Grants |->
                 IF MailboxOf[g] = a /\ grant[g].class # None
                 THEN [grant[g] EXCEPT !.undeliverable = TRUE] ELSE grant[g]]
  /\ marking' = marking \ {a}
  /\ UNCHANGED <<now, link, refusal, call, mails, filed>>

SweepDies(a) ==
  /\ a \in marking
  /\ marking' = marking \ {a}
  /\ UNCHANGED <<now, ledgers, call, mails, filed>>
------------------------------------------------------------------------------
(* maxDuration bounds what a call can straddle.                            *)
Tick ==
  /\ now + 1 \in Time
  /\ \A c \in Calls : call[c].pc # "idle" => now + 1 - call[c].since <= CallLife
  /\ now' = now + 1
  /\ UNCHANGED <<ledgers, call, mails, bounces>>

(* The two history variables.  A failure of the other class forgets the    *)
(* row's stamp, and so the mails it stood for: they are excused.  A call   *)
(* already about the row at that moment still sends, and still erases the  *)
(* row's stamp when its send fails, whosever the stamp is by then: what is *)
(* mailed about the row stays excused until a step over which no call      *)
(* about it goes on.                                                       *)
About(c, g) == call[c].pc # "idle" /\ call[c].row = g
Turned == {g \in Grants : grant[g].class \notin {None, grant'[g].class}}

Excuse ==
  /\ excused' = {i \in DOMAIN mails' : i \in excused \/ mails'[i].row \in unsettled \union Turned}
  /\ unsettled' = {g \in unsettled \union Turned : \E c \in Calls : About(c, g) /\ About(c, g)'}

Event(c) ==
  \/ \E r \in Links : Mint(c, r)
  \/ \E r \in Refusals : Refuse(c, r)
  \/ \E g \in Grants, cc \in Delegates \union {None} :
       cc # MailboxOf[g] /\ \E class \in ClassesOf[g] : FailGrant(c, g, class, cc)

CallStep(c) ==
  \/ ReadLink(c) \/ Claim(c) \/ ClaimRefused(c)
  \/ SendAccepted(c) \/ SendUnconfirmed(c) \/ SendRefused(c)
  \/ Release(c) \/ Die(c)

Sweep ==
  \/ \E i \in 1..Len(mails), a \in Addresses : FileBounce(i, a)
  \/ \E a \in Addresses : MarkGrants(a) \/ SweepDies(a)

Step ==
  \/ \E c \in Calls : Event(c) \/ CallStep(c)
  \/ \E r \in Links : Open(r)
  \/ Sweep
  \/ Tick

Next == Step /\ Excuse

Spec == Init /\ [][Next]_vars
------------------------------------------------------------------------------
LinkOK == [mintCount : 0..2, firstMintedAt : Time, opened : BOOLEAN, notifiedAt : Stamp]
RefusalOK ==
  [windowCount : 0..NotifyAfter, windowStartedAt : Time, lastRefusedAt : Time, notifiedAt : Stamp]
GrantOK ==
  [class : Classes \union {None}, lastFailedAt : Time, notifiedCount : 0..1, notifiedAt : Stamp,
   undeliverable : BOOLEAN, episode : Nat]
CallOK ==
  [pc : {"idle", "read", "claim", "send", "release"}, row : Rows \union {None},
   cc : Addresses \union {None}, episode : Nat, since : Time, stamp : Stamp]
MailOK == [row : Rows, at : Time, to : SUBSET Addresses, episode : Nat]

SystemOK ==
  /\ now \in Time
  /\ link \in [Links -> LinkOK]
  /\ refusal \in [Refusals -> RefusalOK]
  /\ grant \in [Grants -> GrantOK]
  /\ call \in [Calls -> CallOK]
  /\ mails \in Seq(MailOK)
  /\ filed \subseteq (Nat \X Addresses)
  /\ marking \subseteq Addresses

TypeOK == SystemOK /\ unsettled \subseteq Grants /\ excused \subseteq DOMAIN mails

(* Approval links and refused accounts: "AT MOST one email per request id" *)
(* (approvalNotify.ts:21), "once-ever-per-row" (schema.ts:141): whatever   *)
(* calls race, fail or die, no row is mailed about twice.                  *)
OneMailPerRow ==
  \A i, j \in DOMAIN mails :
    mails[i].row = mails[j].row /\ mails[i].row \notin Grants => i = j

SameOwner(i, j) == OwnerOf[mails[i].row] = OwnerOf[mails[j].row]

(* "One per owner per 14-day episode across all links"                     *)
(* (approvalNotify.ts:21-22), by the times the rows were claimed.          *)
OneLinkMailPerEpisode ==
  \A i, j \in DOMAIN mails :
    /\ i # j /\ SameOwner(i, j)
    /\ mails[i].row \in Links /\ mails[j].row \in Links
    /\ mails[i].at <= mails[j].at
    => mails[i].at <= mails[j].at - LinkEpisode

(* The mails whose limits a change of a grant's class does not excuse: all *)
(* of them while each grant fails for one class of reasons only.           *)
Counted == DOMAIN mails \ excused

(* "At most NOTIFY_MAX_PER_DAY per person per rolling 24 h across all      *)
(* triggers" (approvalNotify.ts:23-24).                                    *)
MailsOf(I, o, t) ==
  {i \in I : OwnerOf[mails[i].row] = o /\ Within(mails[i].at, t, Day) /\ mails[i].at <= t}

DailyCap == \A o \in Owners, t \in 0..now : Cardinality(MailsOf(Counted, o, t)) <= MaxPerDay

(* The same of all mails.  It fails: a change of class forgets mails.      *)
DailyCapOfAll ==
  \A o \in Owners, t \in 0..now : Cardinality(MailsOf(DOMAIN mails, o, t)) <= MaxPerDay

(* "Email the owner ... ONCE per episode" (schema.ts:175-176,              *)
(* approvalNotify.ts:417): no two mails about a grant in one episode.      *)
OneGrantMailPerEpisode ==
  \A i, j \in Counted :
    /\ mails[i].row = mails[j].row /\ mails[i].row \in Grants
    /\ mails[i].episode = mails[j].episode
    => i = j

(* The circuit breaker: at most GlobalHourlyMax dead-grant notices in an   *)
(* hour, to all owners together (googleGrantNotifyCopy.ts:95-103).         *)
GrantMails(t) ==
  {i \in Counted : mails[i].row \in Grants /\ Within(mails[i].at, t, Hour) /\ mails[i].at <= t}

Breaker == \A t \in 0..now : Cardinality(GrantMails(t)) <= GlobalHourlyMax

(* Once an address is on the bounce ledger and the sends that were already *)
(* claimed for it have drained, no notice is ever addressed to it again    *)
(* (approvalRequests.ts:204-205); being copied is another matter.          *)
Drained(a) ==
  /\ Undeliverable(a)
  /\ \A c \in Calls : call[c].pc = "send" => RecipientOf(call[c].row) # a
SuppressionIsForever == [][\A a \in Addresses : Drained(a) => Drained(a)']_vars

(* The claim of OwnerNotices is the atomic claim of NoticeClaims, and      *)
(* nothing else stamps a row (notifyClaimLock.ts:5-9).                     *)
Claims == INSTANCE NoticeClaims WITH stamp <- NotifiedAt
ImplementsClaims == Claims!ClaimsSpec
==============================================================================
