# Trendupp server: specifications, model checking and proofs

Trendupp is a NestJS server through which brands fund campaigns, creators work for
them, and the money is paid out through the Startbutton gateway. It runs as a PM2
cluster with one process per core (`src/ecosystem.config.js:11`), so every `@Cron`
fires in every process, and almost nothing runs in a database transaction. What is
hard about it is therefore not in any one function: it is what happens *between* the
awaited reads, writes and gateway calls of several handlers. These specifications are
about that.

Paths below are relative to `src/src/domains/` unless they begin with `src/`.

## 1. Inventory

### Components with state of their own

| component | state | operations | interacts with | what makes it correct |
|---|---|---|---|---|
| Campaign funding (`campaigns/services/campaigns.service.ts`, `campaigns/controllers/webhooks.controller.ts`) | `campaigns.status`, `paymentStatus`, `payments` rows | edit, delete, submit, retry, verify, activate; collection webhook; hourly window cron | gateway checkout; brand in a browser; crons | nothing opens unpaid; a charge opens the campaign; a retry replaces its checkout |
| Applications and selection (same service, `campaigns/services/campaign-timeline.scheduler.ts`, `admin/services/admin-campaigns.service.ts`) | `campaign_applications.status`, `timeline`; the campaign's status | apply, review one, review a batch, activate, pause, resume, window cron | Funding opens the campaign; Deals starts from accepted applications | who is chosen can be paid; an active campaign has a team and leaves nobody waiting |
| Submissions (same service) | `content_submissions`, the application's timeline | submitDraft, vetDraft, submitLivePost, approveLivePost | raise disputes, strike creators, create releases | one revision, one payment, a rejection has its consequences |
| Strikes | `users.creatorStrikes`, `isActive` | vetDraft, nightly no-show scan, reactivation | Submissions, Settlement's scan | strikes are not lost, three block |
| Disputes (`disputes/`) | `disputes` rows | raise, activate, reject, resolve in seven ways | freeze and reopen releases, create refunds, finish submissions, extend stages | one open per deal; a decision does not pay twice |
| Settlement of a budget (all of the above, `campaigns/services/payout.scheduler.ts`) | which `payment_releases` and `campaign_refunds` rows there are | approval, dispute decisions, cancellation, nightly leftover scan, completion webhook | everything that moves money | no more than the budget is committed, and all of it in the end |
| Creator payouts (`payout.scheduler.ts`, transfer webhooks) | status of a release | midnight cron, transfer webhooks | gateway transfers; disputes | a release is paid once and says so only if it is true |
| Brand refunds (`payout.scheduler.ts`, refund webhooks) | status of a refund | midnight cron with two fallbacks, refund webhooks | gateway reversals and transfers | asked for once; a failure is seen |
| Social-impact tokens (`campaigns.service.ts`, `admin/services/admin-social-impact.service.ts`, `users/services/token-expiration.scheduler.ts`) | `user_token_ledgers`, `users.totalTokens`, `badge` | participate, submit link, approve, reject; daily expiry | notifications of a new badge | totals follow the ledger; a link pays once; tokens expire |
| Social-impact campaigns (`admin/services/admin-social-impact.service.ts`, `campaigns/services/social-impact-reminder.scheduler.ts`) | their status and two copies of the end date | draft, change, publish, extend, pause, cancel; hourly reminders and completion on every instance | Tokens | no reminder is skipped; completed at the deadline announced last |
| Broadcasts and news (`admin/services/admin-broadcasts.service.ts`, `news/`) | status and date of a row | create, change, send, publish; ticks every minute | Notifications | sent once, not early, and at last |
| Notifications (`notifications/`) | `notifications` with `dedupe_key` and `email_status`, a Bull queue, the user's settings | notify, dispatch inline, retry, deliver, mail | called by all the others | nobody told twice or of what was muted; nobody forgotten |
| Post metrics (`post-metrics/`) | `submission_post_media` with captured windows, snapshots | register, resolve, capture; a repeated job | Submissions, connections | a due window is read, and once |
| Accounts and codes (`auth/`, `admin/services/admin-auth.service.ts`, `admin-users.service.ts`) | `users`, `otps`, `apple_name_cache` | signup, codes, login, social logins, reset, change of mailbox, close, invite, ban | Profiles changes the mailbox | the newest code works; a name told once is kept; a closed account frees its identities |
| Social connections (`socials/`) | `social_connections`, columns and tier of `users` | connect, refresh, disconnect, callbacks of Meta | Post metrics | columns and tier follow the connections |
| Profiles and ratings (`profile/`, `submitReview`) | names, bank account and rating of `users`, `campaign_reviews` | edit, rename, verify, save unverified, review | Payouts read the account | what was checked holds of what is saved; the rating follows the reviews |
| Settings (`admin/services/admin-settings.service.ts`, `calculateBreakdown`) | `brand_commission_tiers` | create, change, delete, quote, charge | Funding charges the quote | the default rules; the quote is charged |
| Lists and dashboards (`shared/utils/pagination.utils.ts`, repositories, `admin/`) | none | pages, counts, sums | all tables | a page misses nothing that did not move; two figures of the same agree, or are known to be told in two ways |

Portfolios, uploads, exports and the text of mails are single-row requests or pure I/O. The
file `PROJECT.json` lists all components with their sources and says of
each whether it is modelled, and if not, why.

### How they interact

* **Calls**: a request handler calls services and repositories in one process, with an
  `await` at each database or network access.
* **Shared rows**: everything else. Two handlers, or a handler and a cron, meet in a
  row that both have read. A Sequelize `instance.update(...)` writes the columns that
  differ from the *copy in memory*, by id, whatever the row says by then. This is the
  one primitive all the models share (`Saved` in Payouts, `Merge` in Funding, `Write` in
  Selection and so on), and it is an external definition in the map.
* **Webhooks**: Startbutton sends events again until they are answered, so they come
  repeatedly and in any order. A handler finds its row from the reference in the event.
* **Crons**: read a list first, then work it off row by row, on every instance.

### What is hard

`PROJECT.json` lists 40 hazards, each at its line, with the properties that would catch
it. In short:

* lists and copies that are stale when written back (payouts, edits, window cron,
  strikes, tokens);
* a gateway call whose reply is lost, then retried by another path;
* two writes of one handler with a crash between them (submission done / release
  created; dispute raised / strike saved / submission saved; campaign cancelled /
  shares created);
* counts and sums read before they are acted on (pool of a campaign, leftover budget,
  completion, ledger totals);
* a call that races a timeout while it may still land (notifications), and a claim by a
  conditional update beside saves from outdated copies (broadcasts);
* checks against a row that is read again before it is written (profiles, connections);
* pairs of statements that nothing ties together (default tier, snapshot and mark, codes);
* long sequences of legal calls (dispute, then approval, then cancellation; a second live
  link of an amplified campaign; a login that links an identity to an account that closes);
* two queries that should count the same.

## 2. Modules

| module | models | kind |
|---|---|---|
| `Payouts` | one campaign's release rows through cron, gateway, webhooks and disputes | state machine |
| `PayoutsProofs` | inductive invariant and five theorems about Payouts | proofs |
| `Funding` | the campaign row and its payments, from draft to open | state machine |
| `FundingPromise` | what funding promises the brand, in two actions | abstract specification |
| `FundingProofs` | type, three invariants and the safety part of the refinement | proofs |
| `Settlement` | which releases and refunds one budget is divided into | state machine |
| `Refunds` | the refund rows of one campaign through cron, gateway and webhooks | state machine |
| `RefundsProofs` | inductive invariant and four theorems about Refunds | proofs |
| `Selection` | the applications to one campaign up to its activation, pause and resumption | state machine |
| `Deals` | one creator's submissions and strikes at several brands | state machine |
| `CampaignProofs` | ten theorems about Selection, Deals and Settlement | proofs |
| `Sums` | how a sum over a finite set, or a count, changes with the set and the amounts | lemmas |
| `Tokens` | participations, token ledger, totals and badges | state machine |
| `Notifications` | one event, its calls, its jobs and its recipients | state machine |
| `NoticesProofs` | two inductive invariants and seven theorems about Notifications and Tokens | proofs |
| `Publishing` | one broadcast, article or social-impact campaign against the clock | state machine |
| `PublishingProofs` | three theorems about Publishing (type, one dispatch, every reminder) and one about Reports | proofs |
| `Accounts` | the accounts of one person: rows, codes, the Apple name | state machine |
| `Socials` | connections, follower columns and tier | state machine |
| `Metrics` | post media, windows and snapshots | state machine |
| `Profiles` | user name, bank account and rating | state machine |
| `Settings` | commission tiers, quote and charge | state machine |
| `Books` | 30 lists read by pages while they change | state machine |
| `Reports` | figures of dashboards and wallets, two at a time | state machine |
| `PeopleProofs` | sixteen theorems about Accounts, Settings, Socials, Profiles, Metrics and Books | proofs |
| `MCCampaigns` | small instances of Selection, Deals and Settlement, one of which moves | instance |
| `MCNotices` | small instances of Tokens and Notifications, one of which moves | instance |
| `MCPeople` | small instances of Accounts, Socials, Metrics, Profiles, Settings, Books and Reports, one of which moves | instance |
| other `MC*` | small instances of the module in their name | constants only |

A campaign passes through the modules in this order: Funding opens it; Selection fills
and activates it; Deals takes each accepted application to an approved live post;
Settlement says who is owed what; Payouts and Refunds move the money. Each takes from its
neighbours only what they can produce: in Settlement a submission is "none, draft,
disputed, live, done" because Deals shows these are the states that matter for money; in
Payouts and Refunds a row appears because Settlement creates it; in Settlement a row that
is taken up (`TakeUp`) stands for all of Payouts.

### How state and actions correspond to the code

* A **variable** is a column (or the one column of a row the properties need), or the
  local state of a handler. Rows that are created in the course of a behaviour are
  sequences; rows whose number is fixed are functions.
* The local state of a process (`cron`, `hook`, `job`, `req`, `admin`, `scan`, `expirer`)
  has a `pc`: the awaited call it will make next, and the copies it holds.
* An **action** is what a handler does from one awaited effect to the next. Reads that
  come before a write are one step with it when nothing else can tell.
* A **crash** resets the local state of one process and nothing else: the restart of
  PM2, an out-of-memory kill (`max_memory_restart`), or an exception thrown by a call in
  the middle of a handler that has no `catch` around it.
* **History variables** (`cause`, `blame`, `lost`, `worst`, `spoilt`, `silent`, `doubled`,
  `spared`, `pardoned`) record the events after which a property is known not to hold in
  this code. They are never read by an action. They make the claims exact: a release is
  paid once *unless* one of four named events happened, and each of those is a line in
  the hazard list. That they are needed is checked: dropping a cause from a property makes
  TLC find a counterexample in an instance that contains the event.
* Definitions introduced by "Mutant of X" are variants of X with a plausible bug. No
  action uses them. Putting one in the place of X makes TLC find the property violated
  that `PROJECT.json` names beside it.

Some correspondences that are easy to miss:

* **Payouts.** `Lock` is `payout.scheduler.ts:97`; it writes only if the copy differs
  (`Saved`), and each `Lock` prepares a new transfer because `payoutRef` is new each
  time. `Request` has three outcomes; the third, accepted with the reply lost, goes to the
  same `catch` as a refusal.
* **Funding.** `OpenFrom` is what webhook and verification share: they set the campaign
  live whatever it is by then ("Proceeding to set live anyway"). `expired` is the 48 hours
  since `approvedAt`, which each opening restarts.
* **Settlement.** Amounts are integers; `Halved` is the `Math.floor` of a split, and an odd
  `Fee` would show a part that is lost. `SumReleases` counts cancelled rows too, as
  `sumPaymentReleases` does. A row of 0 in `refund` is the marker the scan leaves.
* **Refunds.** The webhook's target is `rows`, the latest row of the campaign, since the
  event carries the reference of the brand's payment and not of the refund.
* **Selection.** The branches for the roles `admin` and `superadmin` are left out: the
  seeders create no role of that name. `worst` orders the events so that each property
  excuses only as much as it must.
* **Deals.** `SaveLine` is Sequelize comparing a JSONB value with itself; see section 4.
  `MayPost` is the whole guard of `submitLivePost`: it does not ask whether the draft was
  approved. The flag of a brand with many disputes is left out: it needs three campaigns of
  one brand and nothing reads it here.
* **Tokens.** `badgeTold` is the dedupe key of the badge notification.
* **Notifications.** `RecordFails` is a failure of the update after the mail: the `catch` then
  records a failure (`notification-dispatcher.service.ts:252`), or fails as well, and the row keeps
  what it said (`unrecorded`). A job id is the type and the dedupe key. It contains colons, and newer
  releases of BullMQ in the range of `package.json` refuse such an id unless it has three
  parts; that call then goes the way of a queue that does not answer, so both ways are open
  for every call. The catalogue is translated entry by entry (category, priority, channels)
  since these decide who may mute what.
* **Publishing.** One row stands for a broadcast, an article or a campaign. An edit that was
  read before a tick is saved over what the tick wrote, as Sequelize does it. `at` and `stage`
  are the two copies of a campaign's end date.
* **Accounts.** That a password, a code or a provider's token was right is the premise of the
  action that needs it. `UpdateEmail` and `WriteEmail` are the two halves of a change of
  mailbox (`profile.service.ts:64-73`, `:130`). `overtaken` records the rows that were closed
  while a sign-in or such a change had found them open, and the closed rows that staff reactivate.
* **Profiles.** `Verified` and `Unverified` are the two branches of `updatePayout`: the second
  (`:316-325`) saves the bank and an account name with a number of ten blanks, which the DTO lets
  pass. `Rename` is every change of a user's names. `mixed` records overlapping and unverified
  updates of the account, `renamed` names that changed since they were compared.
* **Settings.** `calculateBreakdown` is integer arithmetic with the rounding of `Math.round`.
  The queries of a breakdown are one step; the tiers change between the quote and the charge.
* **Books.** A list is described by what decides who is skipped: the statuses it reads, the
  column it sorts by, and how count and rows are fetched. Search terms keep a list's shape.
* **Reports.** The same rows are counted by each request's own conditions; `drift` is how far
  the changes between two figures may have moved any of them. A figure that requests tell in
  several ways says which (`way`): what is in escrow, what a creator earned and at how many
  campaigns, and how many campaigns are active. `Apart` says when two ways may differ.

## 3. Runs

Every run ends within five minutes with two workers. "Instance" names every bound.

| run | instance | checks |
|---|---|---|
| `payouts_crons` | 1 row, 2 instances, 1 webhook, no dispute, 2 transfers per row, 1 crash; instances are symmetric | `PaidOnceUnlessBlamed`, `RetryIsSafe`, `ReleasedWasPaid` |
| `payouts_disputes` | 1 row, 1 instance, 1 webhook, 1 admin, 1 transfer, 1 dispute, 1 crash; fair | `DueIsServed`, `LockIsReleased` (liveness) |
| `payouts_lock` | 2 instances, 1 transfer | finding: `LockExcludesInstances` |
| `funding` | 1 request, 1 webhook, 1 cron, 2 submissions, 1 edit, 1 crash; fair | `OpenHasPaidRow`, `OnePendingUntilPaid`, and the refinement `KeepsPromise` |
| `clean_slate` | as `funding`, 3 submissions, no edit or crash | finding: `OnePending` |
| `campaigns`, Selection | 2 applications of fee 1, pool 1, 2 requests, 1 window cron, any number of crashes; applications and requests are symmetric | `PoolHolds`, `ActiveIsSettled` |
| `campaigns`, Deals | 2 brands, one of them with an amplified campaign, limit 2, 1 request, 1 scan, 2 submissions, a reactivation or a crash | `OncePerDeal`, `RejectionIsComplete`, `BlockedAtLimit` |
| `campaigns`, Settlement | 1 creator, budget 3, fee 2, 1 request of each kind, 1 webhook, 1 scan; two of a dispute, a cancellation and a crash | `WithinBudget`, `DoneIsOwed` |
| `refunds` | 2 rows, 1 instance, 1 webhook, 1 crash; fair | `AskedOnce`, `FailureIsSeen`, `DueIsServed` |
| `notices`, Tokens | 1 campaign, 1 creator, 2 requests, 1 expiry cron, 1 reward, 1 rank above it, 2 ledger rows, a pause or a crash; fair | `TotalsAddUp`, `LinkPaysOnce`, `BadgeWasTold`, `TokensExpire` |
| `notices`, Notifications | 2 calls of one event (with a key, or without one and caused by a recipient), 2 users of whom one has muted mail and push, 1 toggle that changes, 2 attempts of a job, 1 stall, 1 change of settings, fault or crash (the last two with a key only); fair | `NoNoise`, `StatusIsTrue`, `CalledIsTold` |
| `publishing` | 1 item of each kind, 1 staff request at a time, 2 instances, dates 18 and 121 fifths of a tick, 25 ticks, 2 edits, faults or crashes; fair | `SentOnce`, `EveryReminder`, `DueIsServed` |
| `impact_extended` | the same, campaigns only | finding: `DeadlineKept` |
| `people`, Accounts | 2 rows, 2 requests at a time, 3 in all (the third with Apple and after the others, or two without Apple), 1 incident: a crash, a closing or an act of staff | `NewestCodeWorks`, `NameKept`, `ClosedIsFree` |
| `people`, Socials | 2 users, 2 platforms, 1 account at each, 2 counts, 3 requests, 1 crash | `TierFollows` |
| `people`, Metrics | 1 post, 1 worker, 1 request of staff, 4 instants, 2 ticks, 1 link, 1 trouble | `ReadOnce`, `TickServes` |
| `people`, Profiles | 2 users, 2 names and 2 holders of accounts, 1 free user name, 2 banks and numbers, 2 campaigns, 2 ratings, 2 edits at a time, 3 in all (the third after the others) | `ChecksHold`, `RatingFollows` |
| `people`, Settings | 2 tiers, 1 brand, 2 rates, budget 1010, 2 requests at a time, 3 in all | `DefaultRules`, `QuoteIsCharged` |
| `people`, Books | 3 rows, 2 to a page, 2 writes, 3 pages | `UntouchedIsShown` |
| `people`, Reports | 2 users, or 2 campaigns of which one is active with its release paid or not yet made, 1 change, 2 figures | `FiguresAgree` |
| `own_tier` | as `people` | finding: `OwnTierIsCharged` |

`campaigns`, `notices` and `people` put modules side by side that share no row: a variable `part` says
which of them moves, so that their states add up where they would multiply. What an initial
state of another part looks like makes no difference to the one that moves.

### Why these bounds are enough to be worth something

* **Rows.** Release rows of a campaign meet only in `checkAndCompleteCampaign`, which no
  property of Payouts reads; one row shows all of the races over a row. Refund rows meet in
  the webhook that looks up the latest, so two are needed. Settlement needs two creators
  only for what one creator's dispute does to another's share; that was explored with
  budget 5, and see the leftover in section 4.
* **Transfers and attempts.** An old failure webhook needs a second transfer: two attempts.
* **Processes.** Each race in the hazard list is between two of them. Two instances are in
  `payouts_crons` and `publishing`, and two requests in `campaigns` (Selection),
  `notices` and each part of `people` but Metrics and Books. In `refunds` and `funding`
  the second instance is what the proofs add: they hold for any number. In Deals the
  second party is the scan; two requests over one deal were explored separately, as far as
  ten million distinct states went (not to the end), without a violation.
* **Crashes.** One is enough for each of the partial failures; a second starts again from a
  state the first could have left. In `campaigns` a crash is not combined with everything
  else that is bounded; each pair is. Selection has no bound, since its crash leaves nothing
  but the state.
* **Numbers.** Budget 3 and fee 2 leave a remainder of 1 after one creator, and two halves
  of 1 after a split. Budget 1010 makes commission and VAT round at different places. Limit 2 stands for
  three strikes: the code compares a count with the constant and does nothing else with it.
* **Time.** A tick is the unit; fifths of it let an end fall at five points of an hour. The
  two dates make a campaign of less than a day and one of more.
* **Metrics.** One worker and one link: overlapping ticks, and the reset of a row when its
  link changes, are not in this instance. `ReadOnce` and `TickServes` are proved with them.
* **Submissions.** Two of a campaign show a retry and what it replaces. A third is what
  `clean_slate` needs; the proof of `OnePendingUntilPaid` has any number.
* The selection model was also checked with three applications and a pool of two (4.7
  million states): the same invariants hold.

### Deadlock

`CHECK_DEADLOCK FALSE` stands where the bounds end a behaviour (no more attempts,
submissions, disputes or requests, the last tick) or a completed campaign does. Tokens and Selection
were checked for it by themselves: there is always somebody who can act.

### Fairness

* Weak fairness of each cron's steps: the schedule fires for ever, and the event loop goes
  on with what a run has begun.
* Weak fairness of the steps of a handler that has begun, for the same reason.
* Weak fairness of a queue that takes its jobs and of each dispatch that has begun, and of
  time in Publishing, which is what makes a tick come.
* Weak fairness of the gateway settling a transfer it has accepted.
* Strong fairness of the delivery of an event: the gateway sends it again until it is
  answered, so a handler that is busy with others for ever, or dies, does not lose it.
* None of people: brands, creators and staff need never act. None of crashes.

Liveness is checked without symmetry.

## 4. What the runs show

Everything expected to pass passes. What is worth knowing:

* A release can be paid twice only after a stale write by a second instance, a lost reply,
  an old failure webhook, or a dispute decision over a row already under way. Nothing else
  does it, crashes included.
* A due row of a funded campaign is served even if it was parked before the escrow was
  funded, and a locked row settles unless its instance died before it sent the transfer. If
  it did, nothing lists the row again.
* Funding implements its promise with one request of the brand at a time, whatever crashes.
  With overlapping requests the safety of it (`OpenIsCharged`) still holds; a submitted
  campaign can then be deleted, which the promise for one request does not cover.
* A budget is never exceeded, and adds up, unless a row is created after the leftover has
  been taken, for a creator who already has one, or a dispute freezes or rewrites a row that
  has moved on.
* The pool, the team of an active campaign, the one revision and the one payment of a deal
  hold for requests that do not overlap.
* An event with a dedupe key is told once on every path, and what is muted stays silent. An
  event without one may be told twice after the three seconds, as its comment concedes.
  Everybody is told in the end unless the database failed or an instance died that held the
  event in memory alone; a job that failed keeps its id and blocks the next call of its key.
* A broadcast goes out once, unless a dispatch failed or a request was saved over a row that
  had changed since it was read: such a request makes a broadcast "scheduled" again that has
  been claimed, against `broadcast.repository.ts:89-93`. An instance that dies after its claim
  leaves a broadcast "sent" that nobody got.
* A tick serves what it has listed. It lists posts that nothing is due of as well, the same
  fifty each time, so more than fifty resolved posts can keep the others waiting.
* Two requests of one person that overlap can lose the name Apple told; the newest code works. A
  closed account is free but for a request that had found it open, and a bank account is the one
  verified but for updates without a number and names that change.
* The default tier rules unless it is sent again with its mark, which leaves no default at all
  (the mark is taken off by another statement, and what the update finds unchanged in its copy
  is not written).
* Reading page after page misses nothing that did not move, for every list except by the ties
  and joins named in `Books`.

Four runs disagree with what the repository says of itself:

| run | the repository says | the code does |
|---|---|---|
| `payouts_lock` | `payout.scheduler.ts:95`: "Lock the record status immediately before making the external API call to prevent concurrent cron executions / race conditions." | the lock is an unconditional update by id of a row listed earlier; two instances both pass it and both call the gateway |
| `clean_slate` | `campaigns.service.ts:497`: "cancel the existing stale pending payment so we get a clean slate" | a retry looks for the paid row of the campaign first; once the webhook of a replaced checkout has marked its row paid and not opened the campaign yet, each retry cancels nothing and adds another checkout |
| `impact_extended` | `notification.catalog.ts:812`: "The submission deadline for ... has been extended to ..." | `extendDeadline` changes one of two copies of the date, in place; the hourly tick goes by the other and completes the campaign at the old deadline |
| `own_tier` | `admin-settings.controller.ts:63`: "Create a custom commission tier for specific brands" | the brand is shown its own rate (`populateBreakdown`) and charged the default one: `submitCampaign` asks for a breakdown without saying whose (`campaigns.service.ts:507`) |

Further disagreements, found by runs that are not kept or by reading:

* *Leftover.* `payout.scheduler.ts:161`, "Scan for any ended campaigns with remaining budget to
  refund": only campaigns without any refund row are scanned (`campaign.repository.ts:786`), so
  the refund of one dispute hides the rest of the budget.
* *Parked refunds.* `payout.scheduler.ts:423`, "Please provide bank details for refund payout.":
  no code takes a row out of `pending_bank_details`.
* *Timelines.* `timeline.service.ts:244`, "Updates Application timeline when creator submits
  draft.": the stages are changed in the object the instance holds, `update({ timeline })` finds
  it equal to itself, and nothing is saved (`SaveLine` in Deals).
* *Snapshot of the rates.* `campaigns.service.ts:529-531` keeps the rates of the checkout "so the
  breakdown remains accurate even if the admin later updates" them; `populateBreakdown` computes
  it anew from the present ones.
* *Tiers.* `social-platforms.ts:60-64`, "a user's tier can never differ by endpoint": the
  dashboards call a creator Macro from 100,000 followers, `computeTier` from 200,000; the names
  `computeTier` returns ("Nano Creator") are not those of the categories ("Nano") that rewards
  and restrictions of social-impact campaigns look up, so the default reward is 1 and no
  restriction bites.
* *Figures.* What is in escrow is told two ways for a brand with a cancelled campaign;
  `escrowStatus` stays "funded" for ever; releases in `processing` or `disputed` are in no
  bucket of a wallet. What a creator earned, and at how many campaigns, is told three ways:
  by released rows (`admin-creators.service.ts:226`, "the only source of truth for earnings";
  also on the creator's page and in the wallet), by the fees of accepted applications at completed
  campaigns (the list of creators, `:638-644`), and by the fees of applications that are
  'completed' (`admin-overview.service.ts:279`, `:308`), a status no application ever gets, so
  that the overview says 0 of everybody. How many campaigns are active is told three ways: exactly
  those (`admin-overview.service.ts:181`), with the live ones (`admin-brands.service.ts:546`), and
  with all that have no other name, such as those under review (`admin-campaigns.service.ts:83`).
* *Bank accounts.* `updatePayout` answers that details "cannot be verified" or do "not match your
  Trendupp profile name" (`profile.service.ts:290`, `:305`), but a number of ten blanks sends the
  request to the branch that looks up nothing (`:316-325`) and saves bank and account name beside
  the number on file; and the first and last name may be changed after the comparison (`:53-54`).
* *Closed accounts.* `deactivateAccount` frees mailbox and identities; a request to change the
  mailbox that had passed its checks writes one to the closed row (`profile.service.ts:130`), and
  staff who reactivate such a row (`admin-creators.service.ts:1151`) let its holder add one.
* *Lists.* Sorting by a date without a unique second key, joins that multiply rows before a
  limit, and a filter applied after paging can repeat or hide rows.

## 5. Proofs

TLC checks the instances above. The theorems hold for every value of the constants: any
number of rows, instances, webhooks, requests, disputes, attempts and crashes.

**Payouts** (`PayoutsProofs`). `IInv == TypeOK /\ Safe` is inductive. The properties alone
are not: that a row has no second moving transfer says nothing about an instance that is
about to send one. `Safe` therefore relates the three places that know about a transfer:
the row, the list of an instance with the copy it holds, and the transfer itself (which
attempt each instance holds, that only an unblamed row's latest transfer may be open, that
a webhook's kind was sent). One lemma per action shows what it preserves, and the theorems
follow: `TypeCorrect`, `PaidOnce`, `RetriesAreSafe`, `ReleasedRowsWerePaid`,
`RefusalsUnlock`. Assumptions: `ReleasesNonEmpty`, `BoundsNat`.

**Funding** (`FundingProofs`). `FundingTypeCorrect`; `OpensOnlyOnCharge`, through an invariant
that ties whatever a request or a webhook is about to write to a charge that justifies it;
`OpenCampaignsHavePaidRow`, through one that ties it to a paid row; and, for a brand that
makes one request at a time, `FundingImplementsPromise` (every step of `Funding` is a step of
`FundingPromise` or a stutter, through an invariant about what the one request can find
changed under it) and `RetriesReplace`. The last is where the proof found the instance too
small: that one checkout at most waits to be paid holds with two submissions and fails with
three, and the finding `clean_slate` is what it failed on. What holds is that while no row is
marked paid, the latest row is the only one that can wait, and none does when a retry creates
another (`Replacing`). Assumption: `FundingBounds`.

**Refunds** (`RefundsProofs`). `Inductive` proves `[]IInv`, which relates the requests
accepted for a row (`asked`), the instance that has it in hand, what it is about to save and
the webhooks answered. From it: `RefundsTypeCorrect`, `RefundedOnce`,
`CompletedRefundsWereAsked`, `FailuresAreSeen`. Assumption: `RefundBounds`.

**Sums** (`Sums`). `PoolHolds` and `WithinBudget` speak of sums, which are folds over finite
sets. The lemmas (a sum may be split at any element, grows with the set, changes with one
amount, is bounded by the bounds of its parts, may be taken over other names of the same
things) are proved without induction over data: among the subsets of the set for which a
lemma would fail there is a smallest one, since the natural numbers are well-founded, and
taking one element off it contradicts it.

**Selection and Deals** (`CampaignProofs`). `ChosenFitThePool`: whoever decides has summed the
fees of the others, and a second decision meanwhile raises `worst`. `ActiveCampaignsAreSettled`
follows an activation item by item: what it has not reached yet is in its list or cannot
have been selected. In Deals, `Core` gives what a request at work knows of its submission;
`DealsDoneOnce` says what stands between a deal that nobody doubled and its second revision or
payment, `RejectionsComplete` that dispute and strike are written before the draft is,
`CreatorsBlocked` that the block is written with the strike that reaches the limit.
Assumptions: `SelectionBounds`, `DealBounds`.

**Settlement** (`CampaignProofs`). `FinishedWorkIsOwed` needs what a request has at hand.
For `BudgetIsKept` each creator gets a cap that covers the rows there are, what a decision
is about to create, and what it gives back. The worth of a row never rises above the agreed fee; a
creator has one row unless the blame says otherwise; a paid row stays paid. The caps add up to
the budget, and after a cancellation or the leftover scan, so do the rows themselves; the sums
over rows are turned into sums over creators by `SumRenamed`. Assumption: `SettlementBounds`,
which says that the budget pays every creator the fee: `Selection` has shown as much.

**Publishing** (`PublishingProofs`). `PublishingSendsOnce` counts for each broadcast the
dispatches behind it and the one it may be in: a claim moves it out of what ticks list.
`RemindersComplete` follows the clock through the windows: before the tick of an hour is over
one instance that lives has looked at it, and the windows of two hours meet. It assumes two
instances, as the property allows one to die.

**People** (`PeopleProofs`). Modules that share no variable, an inductive invariant each.
*Accounts*: the newest code is in the table or its request is about to create it; a name that
is owed is stashed, and whoever could take it off the shelf is on the way to give it to an
account; whoever links an identity or changes the mailbox has found the account open or is
known to be overtaken. The run has one incident, so that a closed account that staff
reactivate is in the proof only. *Settings*: a request that is alone knows which tier has the
mark. *Socials*: a user whom no two requests have at once is synchronised by the one that has
read all the connections. *Profiles*: what a write is about to save is what was checked
against the name the user had then, or was not verified, and a transaction that nobody
outpaced has read all the reviews. *Metrics*: of a post that nothing has come between, one
tick has it listed and one job captures it, a window is captured or about to be marked if and
only if it has its one reading, and the windows a job has left are not among them. The theorem
covers any number of overlapping ticks and changed links. `TickServes` has an invariant of its
own: what was due of a post when a quiet tick listed it is captured, or still in that tick's
hand. Proving it showed that the history was wrong: with three workers one could give a post
another link while a second had the post listed, and a third, older one, could put the first
link back, so that comparing links saw nothing. A post that is reset while a tick has it
listed is now blurred, which is what the code does to that tick's work. The instants must be
in order, or a window once due would not stay so. Assumptions: `AccountsConstants`,
`SettingsConstants` (no tier is called "none", which stands for no tier), `SocialsConstants`,
`ProfilesConstants`, `MetricsConstants` (a post is a submission and a platform, instants are
hours in order, a worker is no member of staff). These invariants were checked by TLC before
they were proved, on instances of the module by itself: with two workers, two links and three
ticks for Metrics (ten million distinct states).

**Notifications and Tokens** (`NoticesProofs`). Of an event with a key, `OnceInv` says that
whoever is at the mail of a user has created that user's only row, that nobody else is, and
whether the mail has gone: the unique key decides who gets there, and what follows is one
dispatch's. `StatusInv` says the same of the status column, which is written after the mail,
unless both that update and the one that was to record its failure fail (`unrecorded`).
`QuietInv` is for every event: what a dispatch has resolved to send was allowed by settings
that the user had at some time since the first call. In Tokens, `LinkInv` follows the one row
of a link from the request that has taken the submission to the ledger. `ViewInv` says that
the sum a request or the cron is about to save is that of the rows it has seen live, which is
what makes `TotalsAddUp` inductive: who saves a sum of rows that are no longer the live ones
spoils the total, and that is when `spoilt` says so. `BadgeInv` gives the badge about to be
saved a notice told or to be told. Assumptions: `NotificationConstants`; `TokenBounds`
(rewards are natural numbers and ranks positive ones, since 0 stands for no badge).

**Books** (`PeopleProofs`). The rank of a row is how many rows come no later, and page n shows
the ranks from (n - 1) * limit + 1 to n * limit. `PageInv` says that of the rows nobody has
touched the reader has seen all whose rank is on a page that was read: a row that comes in, or
goes to the front, moves others only to later ranks, which the reader has yet to come to, and
whatever else moves one is in `spoiled`. The last page as told covers all ranks there are.
The two ways to fetch, joins and the ledger's one array, are the same page when no row is joined
to several and no two ranks tie. Assumption: `BooksConstants`, four numbers.

**Reports** (`PublishingProofs`). Each figure of each request is shown to be, whatever the rows
are, the one count (`Who`, `Counted`) or the one sum (`Value`) that its name and its way
claim: of users, by role, date, activity, progress and tier, with the ways in which requests
tell a date from its prefix or sum a series; of money, by the rows that count for it and their
weights. Then `ReportsInv` keeps the first figure within `drift` of what it would be now: a
change of one row moves a count by one and a sum by that row's weight (`CountDrift` and
`SumDrift` of `Sums`). Two figures of one name and way are then `drift` apart at most; so are
two of one name and different ways, unless a campaign counts in one of them and not in the
other, which is `Apart`. Those are the three disagreements that section 4 reports: escrow,
earnings and active campaigns. Assumption: `ReportsConstants`: a brand has four steps to
complete and a creator five, who has no tier has no followers, dates have twelve months of up
to 31 days, and a share is no more than the budget, the budget no more than the charge. The
code gives each of these (`computeTier`, the columns of onboarding, the breakdown).

**Only model-checked.**

* Liveness (`DueIsServed` of Payouts, Refunds and Publishing, `LockIsReleased`, `TokensExpire`,
  `CalledIsTold`, and the fairness part of `KeepsPromise`): out of the prover's reach.

Every invariant that a passing run checks is a theorem. So are the type invariants of every
state machine but the last two, where they are parts of `BooksInv` and `ReportsInv`.
`RefusalUnlocks`, `OpenIsCharged` and `CompletedWasAsked` are proved and no longer take part in
a run.

## 6. Not modelled

* In the other components calls that notify are left out: none of them changes a state a
  property there reads, apart from the badge notice in Tokens. `Notifications` models one event
  for all of them.
* The reminders of campaign deadlines read stage names and statuses no timeline has, so they
  never fire. `account-lifecycle.scheduler.ts` has its `@Cron` commented out.
* Saved and hidden campaigns, invitations, niches and portfolios, the read
  marks of notifications: updates of one row that meet nothing.
* Platform settings are JSON columns saved whole; two requests at one time keep the later one.
* Breakdowns by gender, niche and industry, CSV exports, and `getCreatorsList` with a filter on
  `onboardingPercentage`, which is no column.
* Currencies, gateway fees, uploads and search: data or read-only.
* The extension of a stage that a dispute grants is not in Deals; it is saved, or not, by
  the same update as the stages that are.
* Rate limits, authentication and the content of messages.

## 7. Plan

Models, in this order: Payouts (the money, and where the code itself speaks of races); Funding
and its promise; Settlement; Refunds; Tokens; Selection; Deals; Notifications; Publishing;
Accounts, Socials, Metrics; Profiles, Settings; Books, Reports.

Proofs, in this order: Payouts, Funding, Refunds; Publishing; the lemmas about sums; Selection
and Deals; Settlement; Accounts, Settings, Socials, Profiles and Metrics; the retries of Funding;
Notifications and Tokens; the ticks of Metrics; Books; Reports.

Next:

1. **Disputes** and **timelines**: the deadlines that a decision extends, once the stages are
   saved, and the hourly reminders that read them.
2. **Flags of brands**: three campaigns of one brand with disputes, beside Deals.
3. **Abstract specifications** for Payouts and Refunds, as `FundingPromise` is for Funding.
