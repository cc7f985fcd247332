# Formal verification of FGAC.ai

TLA+ modules of the parts of FGAC.ai in which requests, several invocations of
serverless code, cron jobs, Google, Clerk and a partner's server act on the same rows
of one PostgreSQL database.  TLC checks them on small instances, and TLAPS proves the
most important results for every value of the constants.  Paths are relative to the
repository's `src/`; `lib/`, `db/` and `app/` stand for `src/lib/`, `src/db/`, `src/app/`.

## 1. The system: inventory

FGAC is a Next.js application on Vercel.  Nothing lives longer than a request: all
state that matters is in the database, and every `await` is a point at which another
invocation may run or at which the platform may end this one.

| Component | State | Operations | Interacts with | What makes it correct |
|---|---|---|---|---|
| **Owner-notice claims and their lock** `lib/notifyClaimLock.ts`, the `claim*`, `release*` of `lib/approvalRequests.ts`, `accountRefusals.ts`, `googleGrantFailures.ts` | `notified_at` of three tables; advisory locks | claim (lock, count, stamp in one batch), release, episode reset | called by the notices; PostgreSQL's READ COMMITTED and advisory locks | a claim is atomic; daily cap, episode gaps and hourly breaker hold in every window; no circular wait |
| **Owner notices** `lib/approvalNotify.ts`, recorders of the three tables | `approval_requests`, `account_refusals`, `google_grant_failures`, the support mailbox | mint, open, refuse, fail a grant, decide, claim, send, release | called by the MCP route; reads the bounce ledger; sends through FGAC's own proxy | nobody is mailed twice, or more often than the documented limits |
| **Bounce ledger and sweep** `lib/emailBounces.ts`, `emailBounceSweep.ts`, cron `sweep-bounces` | `email_bounces`, `undeliverable_*` of the grant rows | file a bounce, mark grant rows | reads the support mailbox; read by every claim | an address that bounced is not written to again |
| **Webhook outbox** `lib/notifications/deliver.ts`, cron `deliver-webhooks` | `webhook_deliveries`, `status` and `consecutive_failures` of `notification_subscriptions` | claim due rows, post, mark delivered, back off, dead-letter, strike, suspend | filled by the Gmail handler and drained by it inline; the partner's webhook | at least once; settled once; every row settles |
| **Gmail notifications** `lib/notifications/process.ts`, `subscriptions.ts`, `gmail.ts`, webhook `gmail`, cron `renew-watches` | the history cursor, watch expiry and status of `notification_subscriptions` | handle a notification, subscribe, arm, renew, cancel, stop | Gmail history and watches; Pub/Sub; the outbox | no message passed over; none announced to a detached partner; watched while active |
| **Partner consent and connections** `lib/partner/*`, `app/api/partner/consent`, `app/api/connections` | `agent_connections`, `proxy_keys`, partners' manifests | provision (with compensation), approve, block, touch | creates keys, rules and subscriptions | a key per connection; a failed consent leaves nothing behind |
| **Access rules and their writers** `app/dashboard/actions.ts`, `lib/approvalGrantState.ts`, `lib/agentCreatedFiles.ts` | `access_rules`, `key_rule_assignments` | create, update, delete; pick files; approve; expose, set, inherit a tree node; grant a created file | dashboard, approve page, proxy | what one profile is given takes nothing from another; what an approval promises holds |
| **Access policy** `lib/gmailRules.ts`, `lib/rulePatterns.ts`, `app/api/mcp/googleApiPolicy.ts` | none | classify a raw call, decide | proxy, MCP tools | the class of a call is what Google does for it |
| **Request path** `app/api/proxy/[...path]/route.ts`, `app/api/mcp/route.ts` | none | 19 tools, raw calls: a dozen reads, a decision, an effect | every table below; Google | nothing is done that did not stand while the request ran |
| **Credentials** `app/api/connections`, `lib/connectionState.ts`, `db/rotateProfileKey.ts`, `lib/temporaryApiKeys.ts` | `agent_connections`, `proxy_keys`, `temporary_api_keys` | first use, attach, block, revoke, rotate, mint | dashboard, MCP | a revoked credential opens nothing |
| **Identity and delegations** `db/userHelpers.ts`, `defaultProfile.ts`, `tombstoneUser.ts`, `delegation*.ts`, webhook `clerk` | `users`, `email_delegations`, `key_email_access` | find, adopt or create a user, heal an address, sync the Default Profile, grant, revoke, retire | Clerk; dashboard; first MCP request | a grant reaches the delegate; a retired account is inert |
| **Resumable uploads** in the REST proxy | `resumable_uploads`; the session at Google | initiate, adopt, chunk, status query | Google | a message goes only to checked recipients |
| **Drive tree access and lineage** `lib/driveTreeAccess.ts`, `driveLineage.ts` | settings on nodes; a cache per instance | walk ancestors, decide | Drive API | the nearest setting decides, a move is seen within the cache's life |
| **Approval links, wall routing, pending card** `lib/approvalRequests.ts:244-420`, `approvalRouting.ts`, `approvalPending.ts`, `approvalWall.ts` | more columns of `approval_requests`; a marker in the browser | record a hit at the wall, route the owner once, open, approve, ask, dismiss, list what is pending | middleware, approve page and dashboard | an owner who met the wall is brought to the approval, once; what is asked for is listed |
| Google tokens, time-outs; telemetry, flags, short links; dashboard pages, scripts | none, or counters | – | – | not modelled: no state with a property worth checking |

What is hard here is nearly always one of five things.  **Interleaving**: two tool calls of
one agent turn reach the same ledger, a cron tick overlaps an inline drain, a renewal
overlaps a handler.  **Staleness**: a row is read, a network call is made, and the row
is written from what was read.  **Death**: `maxDuration` or a deployment ends an
invocation between two statements.  **The network**: a send or a post times out after
it took effect; Pub/Sub repeats and reorders.  **Other people**: a rule, a row or a setting
of one profile is shared with, or decides for, another.  `PROJECT.json` lists each such place
under `hazards`, at its line.

## 2. The modules

```
NoticeRules ──EXTENDS── NoticeClaims (abstract) <──refines── NoticeClaimLock (transactions)
     └──────EXTENDS──── OwnerNotices ──refines──> NoticeClaims
DeliveryPromise (abstract) <──refines── WebhookOutbox
GmailCursor
RuleTables ──EXTENDS── AccessTables ─┐
ApiPolicy ───EXTENDS── Surfaces ─────┴─EXTENDS── RequestGate
Uploads    DriveLineage    Accounts    WallRouting    PendingApprovals

NoticeClaimLockProofs (of NoticeClaims and NoticeClaimLock)   OwnerNoticesProofs
WebhookOutboxProofs   GmailCursorProofs   UploadsProofs (of Uploads and DriveLineage)
WallRoutingProofs (of WallRouting and PendingApprovals)   AccountsProofs
RuleTablesProofs (of RuleTables and RequestGate)
```

Two modules that one proof module extends keep their variables and definitions apart by name:
`lineage_vars`, `LineageNext`, `LineageSpec`; `card_vars`, `CardNext`, `CardSpec`.

**NoticeRules** holds the conditions in the `WHERE` of the three claims as operators on
a function `stamp` from rows to times: `UnderCap` is
`recentNotificationCountSql() < NOTIFY_MAX_PER_DAY`, `NoLinkEpisode` and
`NoRefusalEpisode` are the negated episode sub-selects (the link's excludes the row
itself, the refusal's does not), `UnderBreaker` is the global hourly count.

**NoticeClaims** is what the claims promise: stamping a permitted row is one atomic
step, at a time `t` that need not be later than the stamps already there, because
`now()` in PostgreSQL is the time the transaction *began*, before it waited for a lock.
A stamp disappears by a release or by an episode reset.

**NoticeClaimLock** is how `claimSerialized` achieves it: begin (which fixes `now()`),
lock the owner's key, for a grant lock the breaker's key 0, take the UPDATE's snapshot,
evaluate the `WHERE` on it, wait for the row lock and re-evaluate `notified_at IS NULL`,
commit; or abort at any point.  Lock keys are the *hashes* of owner ids, and may
collide, even with key 0.  Releases run without the locks.

**OwnerNotices** is the notices end to end.  A call has a program counter; each action
is one round trip.  `Mint`/`ReadLink`, `Refuse` and `FailGrant` are the three recorders
and their due rules; `Claim`, `ClaimRefused`, `SendAccepted`, `SendUnconfirmed` (time-out
or 5xx: the mail may have left and the claim is kept), `SendRefused` (4xx: release),
`Release` and `Die` are common.  A claim whose response is lost is `Claim` followed by
`Die`.  `Open`, `FileBounce`, `MarkGrants` and `SweepDies` are the owner and the sweep.
`episode` in a grant row numbers its resets and is read by no guard but the bound `MaxTurns`; a mail's time is
the stamp of its claim.  A grant fails for one of two classes of reasons, and a failure for the other class resets
its row at any time (`googleGrantFailures.ts:80`).  What that does to the limits is kept in two history variables,
which no guard reads.  `excused` are the mails whose stamps were forgotten so, and those sent about a row that is
`unsettled`: a call that was about the row before the change is still running, and may still send, or erase with
its release a stamp that is not its own.  Limits are stated of all other mails (`Counted`).

**DeliveryPromise** is what a partner is promised: a delivery is owed, then delivered
(only if a 2xx was received) or dead, and never reopened.  **WebhookOutbox** is
`deliverPending`: one action per statement or request.  `Cron` and `Inline` are its two
callers.  `acked` records the 2xx answers and `lost` what a drainer held when it died;
no guard reads either.

**GmailCursor** is one mailbox.  A history id and the message it announces are the same
number.  `Receive` is the SELECT with which `processGmailNotification` begins: cursors
(`snap`) and key ids (`keyed`) are read once, there; whether the key is alive is read
later, per subscription.  `AdoptCursor`, `Diff`, `Resync` (404), `Consider`, `GiveUp`,
`Advance`, `Ack` are the loop.  `Provision`/`Subscribe`/`ArmWatch`/`WriteArmed` are a
consent, `Renew`/`ArmWatch`/`WriteArmed` the renewal cron,
`ReadConnection`/`Block`/`Revoke`/`Cancel`/`LookForOthers`/`StopWatch` the block of a
connection, `ReadProfile`/`Attach` its attachment to a profile, whose key is found alive and then bound while the
subscription stays as it is.  `Suspend` is the last statement of the drainer's strike; the steps before it are in
`WebhookOutbox`.  `given` and `start` are read by no guard.

**RuleTables** is the two rule tables for one resource (a mailbox's recipients, or a
Drive file) and the thirty-odd places that write them.  A call is an operation that, at its start
or between its statements, plans a *list* of statements from what it has read; each is
executed as a step of its own, and a call may be killed between any two.  The operations are
`create`, `update`, `delete`, the file picker, an approval, "send to anyone", expose, set, inherit and
the grant of a file the agent created; `Candidates`, `Detach`, `Pin` are the helpers of
`actions.ts`.  `before` is what every profile was allowed when the call began and is read by no
guard.  A rule without an assignment is global.

**AccessTables** adds, in the same style, what else a request is checked against: the connection,
its profile, keys and temporary keys, the delegation and the mailbox row.

**ApiPolicy** is the classifier of raw calls over paths as sequences of segments, beside
what Google serves at that path (`Serves`), so that a call may be *taken* for one thing and
*be* another.  **Surfaces** lists, per tool and per class of raw call, the reads the code makes, in order,
and the level it decides for.  **RequestGate** runs such a plan one read at a time while one writer
changes the tables; `open` collects, while the request runs, what stood at some moment, `touched` says that
rules were written meanwhile, and neither is read by a guard.

**Uploads** is one resumable upload: the session row, its verdict on recipients, any number of chunks and
status queries in flight, and Google's session, which keeps whole units only.  Google may answer a data chunk
that is sent again after the upload's end with the file (`Replay`), as it does a status query; nothing in the code
rules that out, and it matters to created files only, whose grant hangs on such an answer.

**DriveLineage** is `driveLineage.ts`: walkers go up from a file, each hop from the instance's cache or
from Google, while files move in the user's sight, out of it, and in circles.

**Accounts** is `resolveDbUser`, `createDbUser`, `ensureDefaultProfile`,
`syncDefaultProfileDelegatedAccess`, `grantDelegation`, `revokeDelegation`, `createProxyKey`,
`addMailboxToProfile` and `tombstoneUser`, statement by statement.  A person does one thing at a time;
an owner's grant and the delegate's own sign-in meet.  `call[a].then` says what follows when the person's row is
known, since `resolveDbUser` is called from three places.  Clerk changes primary addresses, reissues ids,
deletes accounts and announces it until the webhook answers.

**WallRouting** is the approval link met without a session.  A row keeps four clocks (`wallHit`, `routed`,
`opened`, `lastOpened`), each written by another page, at the time of its own statement; `Routable` is the
rule of `approvalRouting.ts` on them.  `MeetWall`/`RecordHit`/`LoseHit` are the middleware and the recorder
behind it, `Load`/`Route`/`Mark`/`Land` a dashboard page that looks, marks and redirects.  `due`, `met` and
`shown` say what the owner is owed and was shown, and are read by no guard.

**PendingApprovals** is the same rows seen from the card: asking, dismissing and approving are each a
request on its way to a row, the card is one SELECT and a look at the rules per row.  `heard` and `steady` are
history: the last dismissal that took effect, and the requests open all the while the card was put together.

`MC*` modules give the constants their values.  An operator commented "Fault" or
"mutant" is a faulty variant of the definition after it: put in its place it makes the
property named in `PROJECT.json` fail, which shows that the property depends on that
part of the code.

## 3. The runs

| Run | Instance | States | Shows |
|---|---|---|---|
| `claim_lock` | two transactions; two refusals and a grant of one owner, a grant of another whose lock key collides with the breaker's; cap 1, breaker 1; two clock readings | 50 k | the transactions implement the atomic claims (`ImplementsClaims`); two judging transactions never share an owner or the breaker (`Serialized`); `CapOnStamps`, `RefusalEpisodesOnStamps`; each claim finishes |
| `notices_links` | two links of one owner, two concurrent calls, two bounces, clock 0..3 | 86 k | one mail per link, mails an episode apart, no claim for a bounced address |
| `notices_grants` | a refused account and a grant of one owner, which fails for either class, a grant of another; two calls; clock 0..2; cap 1, breaker 1 | 976 k | daily cap over mails, one mail per grant episode and breaker, of all mails but those a change of class excuses; claims implemented |
| `outbox_drains` | two drainers (one may die), three deliveries, one partner without a webhook, cancel and revive at any time | 113 k | held by one drainer; promise kept; everything settles except what died in a drainer's hands |
| `cursor_writers` | an established subscription and another's first consent, a handler, a job (consent, renewal, block or attachment), two keys, a message, any two failures, suspensions, history gaps or watches that end | 1.29 M | nothing readable lies behind the cursor unannounced (`NothingPassedOver`); every message published is enqueued in the end, unless the subscription was not served at some moment since (`EveryMessageEnqueued`); nothing is announced on a connection whose keys are dead |
| `rule_writers` | two profiles, three rule ids, one call at a time that may be killed, profiles revoked | 1.43 M | `NeverNarrowed`, `ApprovalSatisfiesRetry`, `OthersUntouched`, `SettingDecides`, `AgentRowsKept` |
| `request_gate` | two profiles, one rule id, one writer, one request; every tool and endpoint, and the endpoints respelt by one segment more or less | 1.69 M | nothing is done for a request unless what it needs stood while it ran (`OnlyWhatStood`); a denial means that the rules, unless written meanwhile, do not allow it (`DeniedByTheRules`); the reads of each plan cover what is needed for what it may do (`ArrivalsCovered`, a hypothesis of section 5) |
| `uploads` | two requests in flight, two sets of recipients, a unit of 2 of 5 steps, one forbidden meanwhile, two replayed answers | 1.89 M | `SentAsChecked`, `GrantedOnce`, `ForwardedOnlyWhatStood` |
| `drive_lineage` | a file in a folder in a folder, two walkers, two moves, entries live 2 ticks, requests 1, 3 hops | 1.61 M | the types (`LineageTypeOK`), among them that walks end, also in circles; once things settle, decisions are those of the true folders (`SettledIsSeen`) |
| `accounts` | an owner and a delegate with two ids each, the delegate with two addresses; three profiles; Clerk does three things; the webhook may be killed once | 1.40 M | `OnlyGrantReaches`, `OwnMailboxKept`, `RetiredIsInert`, `OwnRowsAreOwn` |
| `wall_links` | two links of an owner, two hits, one dashboard page after another, one stamp that fails or lands late | 1.5 M | the owner shown an approval is not sent back by the same hit (`NoBounceBack`); a dashboard page that does not route owes the owner no recorded hit (`VisitsLeadBack`) |
| `pending_card` | two requests for one file, asked for, dismissed, approved, granted elsewhere and revoked, window 0, two ticks, a card of one place | 4.16 M | what was open all the while a card was put together is on it, or the card is full (`AskedAgainIsListed`) |

Nine more configurations reproduce disagreements of section 4.  TLC finds the property they name
violated, so they are not among the passing runs: `notices_class_flip_cap` (`DailyCapOfAll`),
`outbox_death` (`EverySettles`), `cursor_fresh` (`NothingPassedOverAtFirst`), `cursor_watch_stopped`
(`WatchedWhileActive`), `cursor_left_behind` (`LiveKeyServed`), `gate_rules_skew` (`RulesAsTheyStood`),
`uploads_replay` (`GrantedJustOnce`), `accounts_busy` (`RetiredIsInert`), `accounts_renewed` (`GrantsReach`).
One more passes and is `notices_grants` with the clock 0..3 and one class (`notices_aging`): episodes that end
by their age, which need a longer clock than both classes allow.

### Bounds, and why they suffice

* *Time.*  A tick of `OwnerNotices` is at least `NOTIFY_MIN_GAP_MS` (five minutes).  Hour,
  day and episode keep their order but are shrunk to 1 to 3 ticks: the rules compare
  differences of times with these constants only, and the clock runs past each of them
  in some run or in `notices_aging`, so a stamp can be inside, at the edge of, and outside every window.
  `CallLife = 1` because the route's `maxDuration` is 60 s, less than a tick.
* *Rows.*  An episode relates two rows; the cap needs one row more than `MaxPerDay`; the
  breaker one grant more than `GlobalHourlyMax`.  Each run has them.  What this leaves
  out, more rows and larger limits, is what the theorems of section 5 cover.
* *Invocations.*  Two: every hazard listed is a race of two.  `mintCount` saturates at 2 and
  `windowCount` at `NotifyAfter`, beyond which no condition tells values apart.
  `MaxBounces` limits delivery reports (a guard of `FileBounce`).  `MaxTurns` limits changes of class (a guard of
  `FailGrant`): one of a row, so that calls may be about it before and after; the proofs are for any number.
  `ClassesOf` says for which classes a row fails: both for one grant, one for the other owner's, with which it is
  counted.
* *Outbox.*  `MaxAttempts` 2 (a row fails, waits, and dies), `ClaimLimit` 2 of three rows, so
  a claim may span two subscriptions or leave rows behind; `DeadStrikes` 1, so that
  suspension happens; `MaxDeaths` bounds deaths.
* *Cursor.*  One message is behind or ahead of a cursor; `MaxFaults` counts failures of any kind, suspensions,
  gaps in the history and watches that end; `MaxKeys` is the keys of all connections together, by a consent or by
  a profile of the owner's: two are one connection with a first and a second key, or two connections with one each.  More messages,
  handlers, jobs, keys and faults are what `GmailCursorProofs` covers.
* *Walls.*  One hit of a link is on its way at a time.  `MaxFaults` counts the stamps that fail or land late: a
  late mark *and* a failed stamp do bring the owner back (section 4).  One tab in the run, any number in the proof.
* *Pending card.*  One form at a time, and one asking and one dismissal of a request on the way.  With a window of
  0, one tick tells what is in it from what is not.
* *Rules.*  Two profiles are "the one given to" and "another"; three rules suffice for one own, one
  shared and one global, or for the three that a call rewrites.  One call at a time: calls that race
  undo each other (section 4).  The start is the empty tables, so every mix of rules checked is one
  that such calls reach.
* *Requests.*  A request never looks at another, so one suffices; `MaxPending` 2 lets a writer of several statements
  stand between two reads.  Three scenarios write rules, mailboxes or credentials.  Files are of a
  kind native to Google, under per-file rules, with the tree engine off.
* *Spellings.*  Paths are the endpoints the policy names with one segment added or left out,
  optionally preceded by an empty segment or `upload`, with each of four methods.
* *Uploads.*  A unit of 2 of 5 steps gives a chunk that ends inside a unit, and a remainder;
  two requests suffice for any race of two.  `MaxReplays` is the data chunks sent again that Google answers with
  the file: with two, the file may have been granted once, twice or three times.  Section 5 has no such bounds.
* *Lineage.*  Two levels of folders are the least in which a circle can form; the cache's life is longer
  than a request, as in the code (ten minutes).  Three nodes are never deeper than the limit of three hops, so
  the walk that is cut off is left to the proof, which is for any limit.
* *Accounts.*  Two ids and addresses of the delegate are the least in which rows are adopted,
  retired and duplicated.  The owner has one address, since a change of it does not reach the delegates' rows (section 4).  `Calm` keeps what Clerk does, the webhook, and the
  making or healing of a person's row by another's grant from overlapping with other calls, since the code does
  not stand that (section 4).  What still overlaps is the owner's grants and revocations with everything
  the delegate does: sign-in, connecting, profiles, mailboxes, healing of their own row.  The proofs of
  `AccountsProofs` assume none of this.
* Runs whose model may stop (mail, changes or profiles are bounded, or every call ends) say
  `CHECK_DEADLOCK FALSE`.  In all others TLC also finds no deadlock.
* Symmetry is used for interchangeable invocations, profiles, rules and walkers, in
  runs without liveness properties only.
* `GmailCursor`, `NoticeClaimLock`, `WallRouting`, `RuleTables`, `RequestGate`, `Accounts`, `Uploads` and
  `PendingApprovals` have a type invariant that no run lists: it is a theorem.

### Fairness

* `NoticeClaimLock`: weak fairness of each statement, strong fairness of the lock steps:
  PostgreSQL runs a batch without waiting for its client, and queues the waiters of a
  lock.  `Abort` and `Begin` are not fair.
* `WebhookOutbox`: weak fairness of the cron's claim and of a drainer's next step, and of
  the backoff running out.  Deaths, cancellations, consents and posts that succeed are
  not assumed to happen.
* `GmailCursor`: strong fairness of *some* handler receiving a notification as long as it
  is not acknowledged, since Pub/Sub redelivers and a busy invocation does not keep the
  platform from starting another; weak fairness of a handler's next step.
* The other modules state safety only, without fairness: a request, a call or a walk may
  stop anywhere.

## 4. Disagreements

Between the code and a doc, a comment or a test of the repository.  No run of the project
expects a violation; the first eight are reproduced by a configuration of section 3.

1. A grant failing for the other class resets `notified_at`, so a mail already sent
   leaves the 24-hour count and the cap of `approvalNotify.ts:23-24` is exceeded
   (`googleGrantFailures.ts:80`; `DailyCapOfAll`).
2. A drainer that dies leaves its rows `delivering` for ever; `deliver.ts:5` says
   at-least-once.
3. The first notification of a fresh subscription may overwrite, with a later history
   id, the cursor the consent has just written; mail in between is never announced
   (`process.ts:53`).
4. A block that saw no other subscriber stops the watch a consent has armed since
   (`subscriptions.ts:61`; lines 2-4 say that only the last subscription's end stops it).
5. The three statements that read the rules may straddle a change, and together show rules that
   the tables never had (`gmailRules.ts:17-25`): a rule assigned in between to another profile passes for
   global, against `docs/QA_Acceptance_Test/capabilities/03_multi_email_scoping.md:34`.
6. A retired account need not be inert (`tombstoneUser.ts:17-21`) when its retirement overlaps: a
   `createDbUser` that an owner's grant began inserts its key after the keys were revoked; a grant that found the
   delegate's row before writes a delegation to it after, which the Default Profile of a later sign-up with the
   address is then given (though no token is found for it).
7. Mail for a connection whose key is live is acknowledged and not enqueued while its subscription is suspended
   (`deliver.ts:162`, `process.ts:37`), or when it was cancelled by a block and the connection was attached to a
   profile since, which subscribes nothing (`connections/route.ts:157`): `LiveKeyServed`.  A handler that read the
   connection before it was bound to another key skips it and acknowledges, too (`process.ts:45-48`).  The cursor stays where
   it was, so a notification that comes after a new consent makes up for it, as far as the history reaches.
   `EveryMessageEnqueued` excepts mail in whose time the subscription was not served (`Served`).
8. A completing data chunk that is sent again because its answer was lost grants the created file a second time
   if Google answers it with the file (`GrantedJustOnce`): "a later status query also answers 200 with the file, and must not grant
   it twice", says the comment in `app/api/proxy/[...path]/route.ts:999-1012`, but any 200 or 201 to a data chunk grants.  It is also
   what gives the file its grant when the first answer is lost.

Notices, outbox and notifications, seen while modelling:

* An episode reset during a send lets that send's release erase the next episode's stamp
  (`googleGrantFailures.ts:174`), against "ONCE per episode" (`schema.ts:175`).  Only a change of class resets a
  row under a running call, so `OneGrantMailPerEpisode`, `DailyCap` and `Breaker` except what such a change leaves
  behind (section 2), and nothing else.
* The copied delegate of a dead-grant notice is not looked up in `email_bounces`
  (`approvalNotify.ts:484`; `approvalRequests.ts:204-205` says no bounced recipient is
  emailed again by any trigger).  `SuppressionIsForever` speaks of the addressee.
* The claim does not look at `opened_at` again (`approvalRequests.ts:201`;
  `approvalNotify.ts:18-20`).
* Refusals less than a day apart extend one window without end (`accountRefusals.ts:52`;
  `schema.ts:138-139` calls it rolling 24 h).
* A grant row inserted after its mailbox bounced, or before a sweep that died after the
  insert, is never marked (`emailBounces.ts:168`; `approvalNotify.ts:461-463`).
* A delivery dies at its sixth failure, so the last rung of the ladder is never waited on
  (`deliver.ts:132`; `schema.ts:422`).
* A consent between the strike and the suspension is undone by it (`deliver.ts:162`).
* The renewal writes back an older cursor (`renew-watches/route.ts:47`, whose comment says
  it never regresses).  `NothingPassedOver` shows this to be harmless: messages are
  diffed again and the unique index absorbs them.
* A second consent binds a second key and leaves the first alive; a block revokes the
  bound key only (`connections/route.ts:189`, whose comment says keys are 1:1).
* A consent that fails after provisioning on a connection that was blocked before leaves the subscription cancelled
  while a key is live and bound.
* `deliver-webhooks/route.ts:2` says every minute; `vercel.json` schedules it daily.

Rules, requests, uploads and lineage:

* A call that dies between a rule and its assignment (`actions.ts:812`), or between the deletion of
  the assignments and that of the rule, leaves a *global* rule.  `updateRule` does so for a moment.
  `NeverNarrowed` shows that this takes nothing from another profile; it may give.
* Two calls that race, such as two exposures of one node or two approvals for one mailbox, act on what they read
  and may narrow what the other gave; `rule_writers` therefore has one call at a time.
* Setting a node's access for a profile leaves a global tree rule on it in force; `SettingDecides`
  excepts it.
* With the tree engine on, an approved write to a file does not satisfy the retry if the owner
  set the file to "read" for the profile: the setting outranks it (`googleApiPolicy.ts:707-713`;
  `ApprovalSatisfiesTreeRetry` in `RuleTables`).
* Picking an agent-created file again renames its rule, which is then no longer known as the agent's.
* A draft is sent by its id after its recipients were looked at.
* A re-grant's sync racing a revocation's tear-down, or a mailbox added after it, leaves an access row without
  an active delegation; every read path filters it.
* `create_temporary_api_key` counts and then inserts: two at once exceed the limit.
* If the answer to a completing chunk is lost, the created file is not granted unless the chunk is sent again; a byte-0 chunk's "denied" may
  be overwritten by a concurrent "allowed".  `SentAsChecked` and `GrantedOnce` hold regardless.
* An entry of the lineage cache is dated when it is stored, so a move is seen within the cache's
  life *and* the time of a request (`driveLineage.ts:16`); `invalidateLineage` is never called.  In a circle of
  cached and fresh answers the folder above is skipped (`driveLineage.ts:129`;
  `docs/architecture_and_strategy.md:114`).
* Partner provisioning, when a step fails, deletes the key first, so that rules it made are for a moment global.

Identity:

* The update of the row and that of the access rows are separate, and no later sign-in repairs what a
  killed one left, since the addresses then agree (`userHelpers.ts:30`).  `OwnMailboxKept` is about calls that end.
* An address healed by another's grant while its owner adds a mailbox or makes a profile: the profile keeps the old
  address only, or the update violates `key_email_unique` and fails.
* A grant to the old address while the row is healed skips the sync; the next connection repairs it
  (`defaultProfile.ts:96-97`).
* Sign-up and a concurrent first connection make two live Default Profiles ("At most one live default",
  `schema.ts:32`; no index says so, and the `catch` of `ensureDefaultProfile` waits for one).  Revoking the
  older leaves the newer unsynced.
* Two rows may come to have one address (a reissued id and two changes of address).  The sync goes by address,
  `findActiveDelegationOwner` by the row, so a mailbox may be shown for which no token is found.  Revoking the delegation
  to one of them tears down the access row that the delegation to the other would need, as there is one row per
  profile and address.
* For the same reason a row left behind bars a later delegation.  A connection lists the delegations to its address and
  writes their rows afterwards (`defaultProfile.ts:52-62`).  One that is revoked in between gets its row after the tear-down; a
  retirement deletes the rows of the delegations that *it* revokes only (`tombstoneUser.ts:61-64`).  When its owner, signed up anew, delegates the
  mailbox again, `onConflictDoNothing` skips it, against "The delegate's Default Profile gets the mailbox immediately"
  (`actions.ts:308`).  `accounts_renewed` shows it; `OnlyGrantReaches` speaks of a mailbox never delegated but to one row.
* An id reissued and deleted before its first visit leaves the older row live and adoptable ("nothing to
  retire", webhook `clerk/route.ts:78`), as does a sign-up before the webhook; the adoption's
  `UPDATE` does not look at `deleted_at`.
* A change of the owner's address does not re-point the rows of delegates' profiles.
* The access rows of delegations that a killed retirement had revoked are not deleted by its repetition; no read path
  heeds them.

Walls and the pending card:

* Rows granted elsewhere are filtered after the card's five places are filled (`approvalPending.ts`), so older
  requests may be left out of a card that has room; `AskedAgainIsListed` excepts a full selection.
* A mint does not reset `approved_at`: a request approved once and then revoked, or answered with another file,
  is neither listed nor routed when the agent asks again.
* Two mints at once may land in reverse, so that a dismissal hides the later denial; a dismissal clicked before
  a re-mint its page had not shown, and landing after it, silences it.
* Two tabs may both route one hit, and a mark that lands after the page's own stamp failed undoes "once per hit"
  (`approvalRouting.ts:19-20`).  `NoBounceBack` holds of at most one stamp that fails or lands late, and two are a counterexample.
* A hit that lands between the page's `Date.now()` and its SELECT is skipped as being of the future; the next page takes it.
  A hit stamped after the owner opened the approval elsewhere is routable.
* The marker in the browser tells action and target only, so another profile's link to the same target is not
  recorded within five minutes, and an agent-driven navigation leaves a marker without recording anything.
* A `markHeld` that dies before it stamps the drive default is not repaired, and `DriveAccessCard` rolls back
  what it shows, not what was written.

## 5. The proofs

Assumed are the constants' named assumptions: the three ledgers are disjoint and finite, every row has an
owner, limits are natural numbers, intervals positive, clock readings natural numbers; for uploads, a unit is
positive; for the rule tables, ids are finitely many, and two marks are no id and no row; for accounts, the mark of
an own mailbox is no pair of numbers; for the card, requests are finitely many; for the lineage, nodes are finitely many, an id is no
kind of place, and nothing lies inside itself at first (`Forest`).  The few theorems that need more state it as `ASSUME`, and it is discussed below.

**NoticeClaimLockProofs** first about the promise, `NoticeClaims`, for any number of rows and owners and any limits:

* `StampsTypeCorrect`, the type invariant.
* `CapHolds`, `BreakerHolds`: in every window of a day (an hour) there are at most
  `MaxPerDay` stamps of an owner (`GlobalHourlyMax` of grants).  The difficulty is that a
  claim may carry a time *earlier* than stamps already present.  The rule counts
  *everything* later than `t - Day`, also what is later than `t`, so a window that gains
  the new stamp contains, besides it, only stamps that were counted (`WithinMonotone`),
  fewer than the limit; `OneMore` does the arithmetic of cardinalities.  A window
  that does not gain it is unchanged, and erasures only remove.  With the type invariant
  the property is inductive as it stands.
* `LinkEpisodesHold`, `RefusalEpisodesHold`: two stamps of an owner in a ledger are an
  episode apart, whichever came first (`NotWithin`).

**OwnerNoticesProofs**:

* `TypeCorrect`, from the inductive `TypeInv`: `TypeOK` and `CallsBusy` (a call past "idle" has
  a row; one about to read, a link; one about to send, the time of its claim), without which `link[call[c].row]` is meaningless.
* `ClaimsImplemented`: `Spec => Claims!ClaimsSpec`, with the three `notified_at` columns as
  `stamp`.  The results of `NoticeClaims` are therefore results about the notices.
* `MailedOnce`: `OneMailPerRow`.  It is not inductive.  `OnceInv` adds `HolderAlone` (a link or
  refusal whose call is sending or releasing bears that call's stamp, has not been mailed, and no
  other call holds it) and `MailedStaysStamped` (a row that was mailed about keeps the stamp of its mail:
  only its holder could erase it, and the holder of a mailed row is gone).  It holds
  across `SendUnconfirmed` *because* that does not release.
* `LinkMailsSpaced`: `OneLinkMailPerEpisode`.  The stamps of an owner's links are an episode apart (`Spaced`), and by
  `MailedStaysStamped` the mails are stamps.
* `GrantMailedOnce`: `OneGrantMailPerEpisode`, for any classes, if an episode outlasts a
  day and a call (`LongEpisodes`: 14 days against 24 hours and 60 seconds).  A grant's stamp *is*
  erased, so the induction follows episodes.  `Orderly` says of a grant: `InEpisode` (no reset overtakes a call about it, since a
  reset by age needs the row quiet for longer than a call lives), `HoldsAlone`, `Remembered` (a mail's row bears
  its stamp or the mail is a day old) and `Apart` (mails of one grant are of different episodes and a day apart).  A change of class
  may break each of these, so `GrantInv` claims them of the grants that are not `unsettled`, and of `Counted` mails.
  What has to be shown is that they hold *again* as soon as the row is settled (`Settles`): no call that knew the old episode
  goes on by then, and what it sent or erased is excused, so the row is as if nothing had been done about it yet.
* `DailyCapKept`, `BreakerKept`: `DailyCap`, `Breaker`, with `Hour <= Day` besides.  The claim counts
  stamps, the properties count mails, in every interval and not only the one that ends now.  `LimitsInv` counts
  the rows that *stood* in an interval, by a stamp or by a mail: what stood in the interval that ends now is still
  stamped (`MailStillStamped`), so the claim has counted it (`StoodClaimed`), and no other step lets more rows
  stand (`StoodBefore`).  Two mails of an interval are about two rows (`MailsByRow`, an injection).
* `Suppressed`: `SuppressionIsForever`, that no step claims a row for an address that has bounced.

Then, in the same module, about the transactions of `NoticeClaimLock`, for any number of them, any hash of the owners' ids:

* `LockTypeCorrect`, and `JudgedAlone`: `Serialized`, from `Locked` (who is past a lock statement holds that lock).
* `TransactionsImplementClaims`: `ImplementsClaims`.  A transaction commits by a snapshot that is older than its commit.
  `Current` is why this is sound: among the rows by which the claim is judged nothing has been stamped since,
  because that takes a lock it holds; rows may have been *erased*, which takes none, and a claim permitted with more stamps is
  permitted with fewer (`ErasuresPermit`).
* `TransactionsKeepCap`, `TransactionsKeepEpisodes`: `CapOnStamps`, `RefusalEpisodesOnStamps` of what is committed, by the
  refinement and the theorems about the promise.

**GmailCursorProofs**, for any number of subscriptions, handlers, jobs, messages, keys and failures:

* `CursorTypeCorrect`, and `NoMailPassedOver`: `NothingPassedOver` for subscriptions that began with a cursor (a fresh one does
  lose mail: section 4).  A cursor is written from what was read some steps before, by handlers and by
  the renewal, so `CoverInv` speaks of every cursor that anybody remembers: no readable message behind the row's
  (`RowCovered`), a handler's snapshot (`HandlerCovered`) or a job's (`JobCovered`) is unannounced, unless given up, and what a
  handler has read of the history is announced or on its list.  Hence writing an *older* cursor back is harmless.
* `DetachedStaysSilent`: `DetachedGetsNothing`, an action property that needs the types only.  It is about handlers
  that have not yet checked the key; one that has may still enqueue what it diffed.

**WallRoutingProofs**, for any number of links, tabs and hits, and any windows:

* `WallTypeCorrect`, and `BroughtBack`: `VisitsLeadBack`, from an invariant on the clocks of a row: `Past` (none is later than
  now), `Owed` (a hit that is owed is newer than the mark and the openings), `Remembered` and `Loaded` (what a page is owed was
  recorded before the page read its clock).
* `NotBouncedBack`: `NoBounceBack`, if `MaxFaults <= 1`.  That is what is true: of the two stamps that say where the owner
  has been (`SeenOrRouted`), one has landed in time.

And about the pending card, for any number of requests and places:

* `CardTypeCorrect`: `CardTypeOK`, and `OpenStaysListed`: `AskedAgainIsListed`.  `CardInv` orders a row's stamps with what has been heard of
  it (`InOrder`): a request that was asked for again since the last dismissal was minted later than it.  What has been open since the card was begun is on it, is still to be looked at, or
  was left out of a full selection (`OnCard`).

**UploadsProofs**, for any number of requests in flight, recipients, units and length:

* `UploadsTypeCorrect`: the types, and that Google's session is complete exactly when it holds every byte.
* `RecipientsChecked`: `SentAsChecked`.  Its inductive `IInv` follows a byte-0 chunk: what a request
  that will forward carries (`Carries`), that its recipients were checked before it may pass (`Allowing`,
  `Passing`), and that the first byte Google holds came from such a chunk (`Holding`).  Google keeps whole units,
  so a chunk that starts later never replaces the header block.
* `FileGrantedOnce`: `GrantedOnce`, which allows a grant for the chunk that completed the upload and one for each data chunk sent
  again that Google answered with the file.  `Granting` counts what was granted and the requests about to grant
  (`Granters`) together; Google takes no bytes after the chunk that completed the upload, and status queries grant nothing.
* `StoodWhenForwarded`: `ForwardedOnlyWhatStood`, from `Looked`: what stands now has been noticed by every request in flight,
  and past each of its reads, what that read looked for stood.

The second half is about the lineage, for any number of nodes, walkers and moves, any limit of hops and any life of the cache:

* `LineageTypeCorrect`: `LineageTypeOK`, with which walks end at the limit.
* `SettledDecidesByPlaces`: `SettledIsSeen`.  `LineageInv` dates what is believed: an entry of the cache is at most as old as its
  age and the time of a request say (`EntryOK`), so is each answer a walker holds (`WalkOK`); once nothing has moved for as long
  as both together, each is true now.  `Inside` is a closure, so what is true of a chain is shown along paths
  (`AboveByPath`, `InsideByPath`), with an induction (`Induct`) from the well-foundedness of < on the naturals.  `Grounded`,
  that from every set of nodes some node leads out, is kept by moves (`MovesStayGrounded`), whereby nothing ever lies inside itself.  Hence
  a settled walk never meets its own chain, that chain is the true lineage in order (`ChainIsLineage`), and the first setting on it
  is the nearest (`NearestIsFirst`).

**WebhookOutboxProofs**, for any number of subscriptions, deliveries, drains and deaths and any ladder:

* `OutboxTypeCorrect`, and `OneHolder`: `HeldByOne`.  Its `IInv` adds `TriesLeft` (a row that is not settled has failed
  fewer times than the ladder has rungs, without which `attempts` could leave its range) and `Groups` (the group a drain
  works on is part of what it holds of *one* subscription, is not empty until its rows fail one by one, and is
  acknowledged by the time it is about to be marked delivered).
* `PromiseKept`: `KeepsPromise`, the refinement of `DeliveryPromise`.  Each step on the rows is a step of the promise or
  changes nothing a partner sees; `Groups` is what makes marking a group delivered a `Deliver`.

**AccountsProofs**, for any number of ids, addresses, profiles, changes and deaths:

* `AccountsTypeCorrect`: `TypeOK`, and `OwnRowsAreTheirOwn`: `OwnRowsAreOwn`, without `Calm`.  `Inv` says for each program counter
  what a call remembers (`CallOK`): a row of the person whose address it carries, keys of that row, grants not yet written.  A row of `users` is
  one person's for good, whatever id or address it carries, and no step takes a row or a key back (`Grows`), so what one call
  remembers is not disturbed by another's steps (`CallStays`).
**RuleTablesProofs**, for any number of profiles, rules and calls, each of which may be killed between any two statements:

* `TablesStayTyped`, from `Typed`, which says what each operation is called with and what its list may hold: that needs the
  *plans*, since a list is made from what a call has read.
* `AgentRowsStay`: `AgentRowsKept`, from `OwnersRows`: what a tree setting has selected, and every rule its list names, is not the
  agent's.  It stays so when another call inserts, as an id that a call remembers is not given out again.
* `GrantsNeverNarrow`: `NeverNarrowed`.  `Widens` names the rows `X` that the call itself has inserted, none of them a block, and says that the
  rules *outside* of `X` give every other profile exactly what all of them gave before the call (`AsBefore`); and that what is left of
  the list keeps it so (`Harmless`): it inserts, assigns a rule of `X`, assigns to its own profile a rule that is
  *not global* (`Gains`; assigning a global rule would take it from the others), or exposes.  `Alone` (no other call is in progress) is what makes an
  assignment read some steps ago still true.
* `ApprovedMayRetry`: `ApprovalSatisfiesRetry`, from `Meets` on top of that: what an approval looked at or is about to write is a
  rule of the kind and level asked for, and no block has come up.
* `OthersStayUntouched`: `OthersUntouched`, and `SettingsDecide`: `SettingDecides`.  A tree setting takes its rules in any order,
  so `Settles` says of what is *left* of its list, as a set of statements about different rules (`OneEach`): each finds its rule as
  the call has seen it (`Placed`); leaving out the rules in flux, those that are global only until the next statement about them,
  the others have what they had (`OthersHave`); every rule that decides for the profile is still to go, is global, or has the level
  that is to be set (`Leaves`); and one with that level is there or to come (`Keeps`).  `RemainsAfter` says once what a statement must
  do to its rule for this to go on (`Turns`), and each kind of statement does it.  As in the property, the call ran with no
  other beside it; profiles may be revoked all the while, and the process killed.

And about the requests of `RequestGate`, for any number of requests, profiles and writers:

* `ServedOnWhatStood`: `OnlyWhatStood`, and `DenialsAreRight`: `DeniedByTheRules`, `GateTypeCorrect`: `GateTypeOK`.  `GateInv` says of a request on its way that
  each fact it needs stood at some moment or is among the reads still to come (`Due`), and that the check, when it comes, will judge by the rules as they
  are, unless some were written meanwhile (`Snapshots`).  The theorems rest on the hypothesis `PlansCover`, about constants only: the plan of each request that may
  arrive reads what the request needs.  `Surfaces` writes the plans out, tool by tool, and TLC checks the hypothesis (`ArrivalsCovered`).

Only model-checked: `OwnMailboxKept` and `RetiredIsInert`, which hold of runs in which Clerk and the webhook wait
for calls in progress (`Calm`).  The code has no such wait and both fail without it (section 4, `accounts_busy`), so a theorem
that assumed it would say little of the code; the run shows that without such overlaps the heal and the retirement, of several
statements each, are right beside an owner's grants and revocations, and the retirement although it is killed and repeated.  Also `OnlyGrantReaches`, which holds of an owner with one address, as in the run, and fails of one who changes it, since the
delegates' rows are not re-pointed (section 4); `ArrivalsCovered`, which compares the plans of particular tools; and
liveness (`EveryClaimFinishes`, `OnlyLostStay`, `EveryMessageEnqueued`), which is out of the proof system's reach.

## 6. What is left out

Within modelled components: wording of mails; parsing of delivery reports, and bounce
classes that do not suppress; webhook signatures; lengths of the backoff rungs (a rung
"elapses"); `reenableSubscription`, which nothing calls; provisioning's compensation (its inserts are one
step).  Of paths, verbs, queries and percent-encoding; of rules, their pattern language; the filter of
the Drive listing.  Of accounts, profile slugs and labels, connection rows, a person's secondary addresses, and the
second-account repair (`lib/secondAccount.ts`).

Not modelled, with the reason: Google tokens, scopes and retries (classification of errors,
no state); MCP authentication (a library's); telemetry, flags and short links (counters); the dashboard's
components, the marketing pages, the operator's and the test scripts, which are most of the repository's lines:
they render, or call the operations modelled here, and keep no state that two actors share.

## 7. Plan

Next: a proof of `OnlyGrantReaches` for an owner with one address; `PartnerProvision` with its compensation, composed with
`GmailCursor` through `bound` and `key`.
