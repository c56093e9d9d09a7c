# Soroban Loyalty: TLA+ models, checks and proofs

Soroban Loyalty is a loyalty-token platform: four Soroban contracts (token,
campaign, rewards, governance), a Node backend that indexes their events into
PostgreSQL and serves them over REST, and a web frontend that reads the API
and signs contract calls with the user's wallet. This directory holds TLA+
modules of the parts that carry state and decide something, the TLC
configurations that check them, and proofs: every safety property that a run
checks is also a theorem, for all values of the constants.

Files: `<Component>.tla` models a component, `<Component>_proofs.tla` proves
theorems about it, `MC_<Component>.tla` defines the values its instances use, and
each `MC_<Run>.cfg` is one run. `PROJECT.json` maps every definition to the source
lines it stands for, and lists the hazards, the mutants and the theorems.

## 1. The system

### Inventory

| part | state it keeps | operations | what makes it correct |
|---|---|---|---|
| token (`contracts/token`) | balances, supply, allowances, pause flag, signers and threshold, minter, pending rotation | mint, burn, transfer, approve, transfer_from; propose / approve / execute_set_admin | balances add up to the supply; nobody spends more than was approved; signers and minter change only by a threshold of the current signers |
| campaign (`contracts/campaign`) | campaigns by id, next id, pause flag, role members, pending upgrade | create, set_active, pause / resume, record_claim, grant / revoke role, propose / authorize / execute / cancel upgrade | terms are immutable, expiry is final, code changes need a threshold and the 48 h time lock |
| rewards (`contracts/rewards`) | claim records (v1 and v2), vesting schedules, referrals, roles, pause flag, migration flag | claim_reward, claim_with_referral, claim_vested, redeem_reward, migrate_v1_to_v2, roles and pauses | one grant per user and campaign, never paid more than once; every token issued belongs to a claim |
| governance (`contracts/governance`) | proposals with tallies, voters | propose, vote, finalize, execute, cancel | an address votes once, a decision is taken once, by a majority, and executed after the time lock |
| indexer (`backend/src/indexer`) | cursor, the polls in flight | poll, retry, dead letter, checkpoint, start / stop | no event is skipped, redelivery is harmless, nothing blocks the stream |
| tables (`backend/src/services`, `database/schema.sql`) | campaigns, rewards, transactions, users, audit log, dead letters | upserts of the indexer; REST create, claim, deactivate, delete, restore, reorder | reward rows agree with the chain, a deactivated campaign stays inactive, an order is one request's |
| expiry job (`backend/src/jobs`) | none | one batch update every 5 minutes | deactivates expired campaigns and no others |
| REST handlers and Redis (`backend/src/routes`) | cached lists and analytics report, by key | fill on a miss, delete on some writes, the uncached reads | no answer older than its time to live, none of another query; every request is answered |
| merchant sign-in (`backend/src/auth.ts`) | nonces in memory, the secret | challenge, verify, requireAuth | a nonce is used once, within 5 minutes, by its key |
| process (`backend/src/index.ts`) | server, timers | start, shutdown | requests under way are answered or broken off, never half done |
| wallet (`frontend/src/context/WalletContext.tsx`) | key in localStorage, per tab: key, balance, its loading flag | connect, disconnect, silent restore, storage events, balance | the tabs agree, the balance stops loading |
| contract calls (`frontend/src/lib/soroban.ts` and the buttons) | calls under way, status and timers of each button | build, simulate, sign, send, poll | what a page reports of a call is what the ledger did |
| pages, lists, widgets (`frontend/src/app`, `components`) | loaded data, page numbers, queries, toasts, countdowns | load, turn, scroll, search, dismiss, deactivate | what is shown is what was asked for last; every loading ends |
| validation, limiters, metrics, nginx, migrations, scripts | configuration | | |

### How the parts interact

* rewards calls `get_campaign`, `is_active` and `record_claim` of campaign, and
  `mint` and `burn` of token, inside the caller's transaction: a panic anywhere
  undoes everything, so a contract call is one atomic step.
* governance reads `balance` and `total_supply_view` of token at the moment of
  each call. It takes no snapshot and locks nothing.
* The contracts emit events; the indexer reads them through `getEvents` in
  pages of 100, starting after the saved cursor, and writes the tables. It shares
  the tables with the REST handlers and the expiry job.
* Node runs one callback at a time, but every `await` lets others in: a second
  poll started by `setInterval`, a REST handler, the cron job. Postgres runs at
  READ COMMITTED, where an UPDATE waits for the lock of a row but a SELECT
  shows the row as it was.
* The frontend's tabs share one localStorage entry and hear of each other's
  writes by storage events. A page sends a request for its parameter and does
  not cancel it when the parameter changes; a contract call goes from the
  button through simulation, Freighter's signature and submission to a bounded
  number of polls of the RPC server.

### Where it is hard

* *Sequences of legal calls*: claims of the same pair directly, with a referral,
  under the v1 code and around the migration; rotations to a list that repeats
  a signer; role revocations that lock everybody out; a signed nonce sent again.
* *Stale state*: votes weighted by balances that move afterwards, signatures
  collected under an earlier set of admins, a stored expiration that is never
  filled in, cached lists, answers to requests for an earlier key.
* *Interleaving and ordering*: overlapping polls that write the same rows and
  save the cursor in the wrong order; the REST claim racing the indexer; two
  reorderings that lock rows in opposite orders; tabs that connect and
  disconnect at the same time.
* *Crashes and failures*: a stop in the middle of a batch or a request, a
  rejected await at any point, a dead letter that cannot be written, the lost
  answer to a transaction that the ledger carries out.
* *Timers*: a reset timer of an earlier call, toasts that were closed already,
  a countdown that is recomputed once a minute.
* *Numbers*: divisions that round down, products that overflow, the first and
  the last second of every period.

`PROJECT.json` lists each of these hazards at its line with the properties
that cover it.

## 2. Plan

Done, in this order: the token, campaign and rewards contracts with the
`Entitlements` abstraction; governance over the token; the indexer with the
tables it shares; the proofs about token and campaign; merchant sign-in and the
REST handlers over it; the frontend; the proofs about governance, rewards,
indexer and sign-in; the sums over the ledger; the proofs about the REST
handlers and their caches; the proofs about the frontend.

Left, in order of what it would add:

| step | what |
|---|---|
| 1 | the composition of `Indexer` and `CampaignApi` over one set of tables; each has the other's writes as steps of the environment now |
| 2 | `GET /campaigns/:id`, `/health` and the experiments of `experiments.ts` |

## 3. The modules

```
Storage
  |- LoyaltyToken --------------------- LoyaltyToken_proofs
  |     |- Governance ----------------- Governance_proofs
  |     `- Rewards ( + Campaign ) ----- Rewards_proofs
  |            `--- implements ---> Entitlements
  |- Campaign ------------------------- Campaign_proofs
  `- Indexer -------------------------- Indexer_proofs

MerchantAuth -------------------------- MerchantAuth_proofs
  `- CampaignApi ---------------------- CampaignApi_proofs

Wallet, Transactions, Views, Feed, Widgets
  `- Frontend ------------------------- Frontend_proofs
```

**Conventions.** A contract call either completes or panics without a trace, so
each entry point is one action: its assertions, early panics and overflow checks
are guards (the release profile sets `overflow-checks`), its storage writes are
the primed variables. A storage key that may be absent is a set of at most one
element or a function whose domain is the keys present. `require_auth` means
that any account may call for itself: the caller is a quantified parameter.
In the backend and the frontend the code between two awaits is one action, and a
rejected await takes the path of the `catch` around it. Events and texts are left
out. *History variables* (`selfSent`, `approved`, `drawn`, `paid`, `issued`,
`outflow`, `dropped`, `patched`, `challenges`, `crossed`, and the fields named so in
the comments) are written by actions and read by properties only.

The definitions that the mutants use stand just before the correct ones: a
faulty form of a handler, as a plausible mistake in that code would make it.

At this commit the contract sources are in the middle of a merge: some helpers
are called and not defined (the token's `require_not_paused` and
`emergency_pause`), some lines appear twice, as do imports in
`campaign.routes.ts` and the first line of `ConfirmDialog.tsx`. The modules follow
the function bodies; what a missing helper does is taken from its callers and
tests and marked external.

**LoyaltyToken.** `balance`, `supply`, `allowance` and `tokenPaused` are the
ledger; `config`, `minter` and `proposal` the multi-signature rotation. `Moved`
keeps the order of the two writes of `transfer`: the recipient's last. `InRange` is
the width of `i128`, scaled down to `MaxAmount`.

**Campaign.** Campaigns, the claim counter, roles, the contract pause and the
upgrade. `initialize` stores an admin list and grants no role, and only a role
member can grant roles; `SeedRoles` and `SeedCampaigns` describe an instance that
had them from earlier code, and are empty for a fresh deployment. `GrantedRoles` are
the roles that a run grants and revokes.

**Rewards** EXTENDS both: a claim is one action with the checks of all three
contracts. `Multiplier`, `Scaled`, `BaseAmount` and `Vested` are the amounts with their
integer divisions, `AmountFits` and `VestedFits` their overflow checks. `StoredAdmin` is
`DataKey::Admin`, which this commit's `initialize` does not write: it is there on an
instance upgraded from v1 only, as are `LegacyClaims`.

**Entitlements** is the abstract specification of `Rewards`: a pair is granted one
amount once, and payments never add up to more. The refinement mapping gives a
v1 claim a grant of nothing, so that migrating it is a stutter.

**Governance** EXTENDS `LoyaltyToken`: the ledger moves between the votes. `MaxU64`
scales `u64` down so that the products of `finalize` overflow in small instances.

**Indexer.** `polls[p].pc` is where a poll stands: *asked* (cursor read, `getEvents`
under way), *write* and *record* (the two statements of an event), *bury* (dead
letter), *commit* (checkpoint), *backoff*. `startup` is how far `startIndexer` has come:
*setup* (its two CREATE TABLE), *first* (it awaits the first poll), *running* (the
timer is set), or *failed*: a rejected CREATE TABLE ends in the callback of
`listen`, where it is logged only, so that the REST handlers go on and no poll or
expiry job ever starts. A database transaction is one step, a
rejected await (`Fault`) has no effect on the tables, `Restart` forgets all polls. The
chain is the sequence of events the filter selects; a position stands for the
paging token and for the transaction hash.

**MerchantAuth.** The handlers are synchronous, so each is one action. A nonce is
the position of its challenge in the sequence of all challenges; a client can
sign any nonce it was given and send the signature again. `Restart` loses the
nonces, and with them the secret when the environment does not set it (`life`).

**CampaignApi** EXTENDS `MerchantAuth`. `req[r]` is a request: its operation, the next
step `pc`, its locals, the rows it holds locked, its answer. `ListCampaigns` to `Setex`
are a cached read (`list`, `report`), `UpdateCampaign`, `CommitCampaign`, `ReadKeys` and
`DeleteKeys` a PATCH or POST with its invalidation, `MarkDeleted` a DELETE or restore,
`MoveCampaign`, `CommitOrder` and `DeadlockDetected` a reorder, `InsertUser` and
`InsertReward` a claim, `Query` the queries of the uncached reads, which run in
parallel where the code uses `Promise.all`. A reorder's body may repeat rows and name rows
that are not there: an UPDATE that finds no row locks none. `RedisFails` and `DatabaseFails` take the catch
paths; `Shutdown`, `ServerClosed` and `ApiRestart` are the end of the process. Requests turned
away before their first await change nothing and are left out.

**Wallet.** A tab's key, its restore and connect under way, its queue of storage
events, its requests for the balance and the flag that says that one loads.
The balance is left out: at this commit it is never anything but 0 (section 6).

**Transactions.** A call of `invokeContract` goes through `GetAccount`,
`SimulateTransaction`, `SignTransaction`, `SendTransaction` and `GetTransaction`; the
ledger takes it while its time bounds last and its sequence number is next, and
the RPC server tells of it `LAG` waits later (`Known`). `key` counts the changes of the
wallet's account, which `invokeContract` was given at its start. `claimed` is what
`optimisticClaimed` says of the campaign: *claim* since `handleClaim` added it, *rows* since
`loadRewards` put the API's rows in its place. A widget is the button that starts calls: its status, its dialog and its reset
timers. `Pages` says which widgets a page has together. *browse* is the card on
`/campaigns`, whose `onClaim` is empty.

**Views.** Eight pages that load something for a parameter. `Effect` is what a page
does when the parameter changes, `Screen` what it shows: skeletons, rows, the
empty message, an error. Answers come in any order.

**Feed.** The dashboard's list with its sentinel (`SentinelSeen` is the
IntersectionObserver's callback) and the search dialog with its keys. What the
backend lists and what a text finds are constants (`Listed`, `Finds`). `Page` is what the
handler answers: the first page, whatever the `offset`. An answer has its rows
under `campaigns`, as the pages read them (`FeedAnswer`, `GotCampaigns`), or under `data`,
as the handler sends them (`FeedThrows`, `CampaignsUndefined`): then the list is
*undefined* in the code, and *crashed* once that is rendered.

**Widgets.** The two toast providers (`board.kit` tells them apart), the merchant's
`CampaignTable`, and a `CampaignCard` with its countdown and its dialog. Toasts on
the screen are the set of their ids, whose order is that of their showing. The
table's sort is told by `Rank`, the number of found rows that come before a row:
`PageData` are the rows whose ranks `slice` takes. `shrunk` says that the list was
replaced by one without some campaign of it.

**Frontend** composes these, one part in use at a time: they share nothing but the
wallet's key, which the parts take as it comes.

## 4. The runs

| run | instance | what it shows |
|---|---|---|
| Token | 2 holders who are the signers, amounts up to 2, lists of 1 and 2 signers and one that repeats a signer | LedgerBalanced, DrawnWithinApproval, RotationNeedsThreshold and ThresholdReachable over all interleavings of ledger calls and rotations, up to overflow |
| Campaign | 2 admins, threshold 2, a merchant with two campaigns, one claim each | CampaignsAreKept, ExpiryIsFinal, UpgradeNeedsTimelock, LockoutIsForever, one second before and exactly at the expiration and the time lock |
| RewardsClaims | 3 users, one v1 claim, a campaign of reward 12 that vests over a day | VestingAccounts, EarlierEarnsMore, NeverOverpaid and the refinement ImplementsEntitlements |
| RewardsTokens | 2 users, a campaign of reward 7 that pays at once, rotations of the minter | IssuanceAccounted, ClaimWithinBounds, CountersCoverClaims across the three contracts |
| Governance | 2 holders, 2 proposals, supply up to 4 | VotesBackedByTokens, DecisionsAreSound, DecidedOnce |
| IndexerSerial | 1 poll at a time, 3 events, pages of 2, 3 attempts, 3 faults, 1 crash, a start that may fail | MirrorsDeactivation, and EventsAreHandled under fairness |
| IndexerOverlap | 2 polls, 3 events, pages of 2, 2 attempts, 1 fault, 1 crash | CursorCoversHandled, ClaimsAreConsistent |
| Api | 2 merchants with a campaign each, up to 3 requests in 13 mixes, 1 fault, 1 restart or shutdown, 2 ticks | TokensAreEarned, AnswersAreTrue, AuditedCreates, CachesAreHonest, ReadsAreFresh, and RequestsAnswered under fairness |
| Frontend | 2 tabs, 2 accounts; 6 pages of contract calls, up to 3 calls and a change of key; 8 pages that load; a list of 3; search, toasts, table, card | CallsAreTrue, ShownIsCurrent, ListsAreTrue, WidgetsAreTrue, and FrontendSettles under fairness |
| DocGlobalLedger | as Token | violated: a transfer to oneself creates tokens |
| DocReplay | as IndexerOverlap | violated: overlapping polls reactivate a deactivated campaign |
| DocExpiry | one poll, the expiry job | violated: the job deactivates a campaign that has not expired |

One type invariant per specification is checked beside these. Some names stand
for several statements that belong together:

* *AnswersAreTrue*: DeactivatedByOwner (the owner is compared in a SELECT before the
  UPDATE), OrderIsOneRequest, CreatesAreKept, OneClaimGranted.
* *CachesAreHonest*: AnswersMatchFilter, StaleOnlyByRace, BoundedStaleness. They say
  exactly how wrong a cached list may be: of another owner, because the key
  leaves the owner out; stale because it was read before a write and stored after
  its invalidation, or because DELETE, restore and reorder do not invalidate;
  and in the last case for less than its time to live.
* *CallsAreTrue*: OutcomesAreFinal, OneCallAtATime, ClaimedOnLedger. They say what can
  be relied on: an error is final unless an answer was lost (`unsure`) or the
  server told of the transaction after the last poll (`unseen`); a claim shown
  by `handleClaim` or by the card's status is on the ledger, for a key that the
  page had; one that `loadRewards` shows need not be.
* *ShownIsCurrent*: TabsAgree, PageInRange, SettledIsCurrent. *ListsAreTrue*:
  ListLoadedOnce, ResultsAreCurrent. *WidgetsAreTrue*: seven statements on toasts,
  table and card.
* *FrontendSettles*: WalletSettles, CallsEnd, LoadingEnds, FeedLoadingEnds.
* *EventsAreHandled* excepts a process whose start failed and that nobody restarts:
  nothing in it tries again.
* *DecisionsAreSound*: PassedByMajority, ExecutedAfterDelay. *ClaimsAreConsistent*:
  RowsOfClaims, RefusedOnlyByRestClaim.

**Bounds.** Every bound is a named constant that appears in a guard or as the
finite set of an input. Why they suffice:

* *Contracts* (`MaxAmount`, the real width, scaled; `MaxSelfSent`, `MaxCampaigns`,
  `GrantedRoles`, `MaxClaimCount`, `MaxProposals`, `MaxOutflow`, `MaxDirectSupply`, and `Times`, the timestamps
  the clock may show): the token's properties relate at most two accounts and one
  spender; 2-of-2, one signer and a list with a repetition are the shapes a
  configuration can have that matter to its threshold; the clocks contain
  both sides of every comparison the code makes; a second campaign is created
  while the first one lives, so that its id could collide; two claimants and a third
  pair under v1 cover every pair of claims that could meet. Rewards of 7 and 12
  leave remainders in every division, and 7 late in the campaign makes the
  referral bonus zero.
* *Indexer* (`MaxEvents`, `MaxFaults`, `MaxCrashes`): with pages of 2 and 3 events a
  batch ends before the chain does, and a creation, a deactivation and a claim
  all fit; 3 faults against 3 attempts allow both a dead letter and a retry that succeeds.
* *Api* (`MaxRequests`, `Workloads`, `MaxTime`, `MaxChallenges`, `MaxRestarts`): a workload
  names operations that race for one thing, the list cache with and without
  invalidation, the rows of a reorder, the ids of new campaigns, a claim, a
  nonce, the writes a read may meet, and how many ticks, faults and restarts go with
  them. Each race has two sides, and three requests add one to observe it.
  Times to live are one tick, so an entry can be fresh, at its end, and past it.
* *Frontend* (`MaxEvents`, `Pages`, `LAG`, `MaxAsked`, `MaxChanges`, `MaxLoads`, `MaxKeys`,
  `MaxToasts`, `MaxClicks`, `MaxTableEvents`, `MaxNow`, `MaxAttempts`): two tabs and two
  accounts are enough for a tab to act on a key the other has replaced. Three
  calls from a row are a failed one, the one its timer overtakes and the one
  that should not have started. `TIMEOUT` equals `ATTEMPTS`, as 20 waits
  of 1.5 s between polls equal the thirty seconds of the time bounds; both are one
  wait, and a `LAG` of one is enough for the ledger to take a transaction that the
  last poll does not find. Four
  requests let an old answer come before, between and after two newer ones. Three
  campaigns in pages of two leave a rest, so that the last load goes past the
  total.
  Three toasts are one more than the screen holds. The expirations lie
  at zero, between two recomputations of the countdown and on one.

**Fairness.**

* *Indexer*: weak fairness of the steps of each poll, for EventsAreHandled.
  `setInterval` keeps firing while the process runs, and every started call is answered
  or rejected, those of `startIndexer` (`EnsureTables`) included. Faults, restarts, chain events and REST calls have no
  fairness, and faults and restarts are bounded: a database that is down for
  ever handles nothing.
* *CampaignApi*: weak fairness of each request's next step and of `ServerClosed`, for
  RequestsAnswered. The event loop runs every continuation and every await
  settles; a wait for a row lock ends with the holder's transaction or the
  database's deadlock detection, which are steps of requests too. No client, clock, failure or
  restart is fair.
* *Frontend*: promises settle (`Answers`, `RewardsSettle`, `ViewSettles`, `FeedSettles`,
  `Progress`), and the ledger's time passes (`Tick`). That `Progress` covers the
  signature means that the user answers Freighter's window, with yes or no. Clicks,
  scrolling to the end of the list, retries and failures are not fair.

The contracts promise no progress; their specifications are safety only.

**Deadlock** is checked in every run but two. In Api the requests and the clock
are bounded and a server that shut down stays down; in Frontend the user may
stop doing anything. The other models stop nowhere: `set_active`, the pauses, an
idle poll are always possible.

Each property of a passing run has at least one mutant in `PROJECT.json`: a faulty
form of one definition under which TLC finds that property violated.

## 5. The proofs

All theorems hold for all values of the constants that satisfy the named
assumptions: any set of accounts, any number of overlapping polls, requests and
contract calls, any times, amounts, lists and bounds. The assumptions
(`TokenConstants`, `CampaignConstants`, `AuthConstants`, `ApiConstants`, `TransactionConstants`,
`FeedConstants`, `WidgetConstants`, ...) say of what kind each constant is, and beyond that

* there are finitely many accounts (`Address`), as on any ledger;
* the tables start with ids below 1000, which no timestamp reaches (`SeedRows`);
* each list the table may be given (`TableRows`) has each campaign once, with ids
  from 1 as the contract counts them;
* `TIMEOUT <= ATTEMPTS`: the polls of a transaction take as long as its time
  bounds (twenty waits of 1.5 s against thirty seconds).

Where the specification below `LoyaltyToken`, `Campaign` or `MerchantAuth` is composed
with another, a lemma shows that a step of the whole is a step of the part or a
stutter (LedgerStep, TokenUnderneath, CampaignUnderneath, SignInUnderneath), and
the part's invariant is reused.

`LoyaltyToken_proofs`

| theorem | says | argument |
|---|---|---|
| TokenTypeCorrect | `[]TokenTypeOK` | inductive as it stands; that balances and allowances are natural numbers rests on the guards of the calls (lemma MoveKeepsBalances) |
| SignaturesGenuine | `[]SignaturesAreGenuine` | inductive with the types: a signature is appended only if its author is a signer and has not signed; the configuration changes only when the proposal is removed |
| RotationThreshold | RotationNeedsThreshold | only `execute_set_admin` writes `config` and `minter`, its guard counts signatures, and SignaturesAreGenuine says they are of different current signers |
| SignersReachThreshold | `[]ThresholdReachable` | the invariant ConfigsAreValid: the configuration in force and the one proposed passed the assertions; a list without repetition has as many signers as entries (lemma EnoughSigners) |
| DrawnBounded | `[]DrawnWithinApproval` | not inductive: a draw is limited by the allowance, not by the approval. AllowanceAccounts says that what is left plus what was drawn is what was approved |
| LedgerSums | `[]LedgerBalanced` | inductive over a well typed ledger: each call changes the sum of the balances by what it changes in its two entries (SumUpdate twice), and a transfer to oneself by what `selfSent` records |

*Sums.* `SumOver` is a fold of the community modules, which is a choice among functions
on the subsets of a finite set. The induction theorems of the library take a
predicate as a parameter, which the provers cannot instantiate; FiniteInduction
states the induction for a *set* of good subsets instead, with the well-founded
order of subsets under it. From it follow that the function exists and is unique
(SumsExist, SumsUnique), that any member can be taken out first (SumRemove), and
what the invariants need: SumType, SumMonotone, SumUpdate, SumExtended.

`Campaign_proofs`. Lemmas first say which calls write which part of the storage
(CampaignCalls, OtherCallsKeepGovernance, UpgradeCalls, CodeCalls, ClockStep), so that each
proof splits on those calls only.

| theorem | says | argument |
|---|---|---|
| CampaignTypeCorrect | `[]CampaignTypeOK` | inductive: `create_campaign` extends the ids by exactly `nextId` |
| UpgradesGenuine | `[]UpgradeIsGenuine` | inductive with the types: a signer is appended only if absent, and the clock only goes forward |
| TimelockHolds | UpgradeNeedsTimelock | only `execute_upgrade` changes the code; it counts signatures, which are of different accounts |
| LockoutHolds | LockoutIsForever | every call of GovernNext asks for the Admin role, `grant_role` included |
| CampaignsKept | CampaignsAreKept | by the types the id handed out is not in use, so `create_campaign` overwrites nothing |
| ExpiryHolds | ExpiryIsFinal | a campaign's expiration is kept and the clock does not go back |
| PauseHolds | PauseFreezesCampaigns | only `pause_campaign` and `resume_campaign` go through while paused, and they write another field |

`Governance_proofs`

| theorem | says | argument |
|---|---|---|
| GovernanceTypeCorrect | `[]GovernanceTypeOK` | inductive over a well typed ledger |
| DecisionsSound | `[]DecisionsAreSound` | the invariant AllSound fixes the voting period of a proposal when it is submitted, and says for each status what votes and times led to it; more than 5000 rounded basis points are more than half (lemma MajorityOfBps) |
| VotesBacked | `[]VotesBackedByTokens` | not inductive: a vote adds a balance to the tally, and nothing says that this balance was not counted before. VotesAndVotersBacked adds to the votes of a proposal the tokens of the accounts that have not voted on it yet; a vote moves its weight from the one to the other, and a transfer from a voter to a non-voter is in `outflow` |
| ProposalsDecidedOnce | DecidedOnce | every call rewrites at most one proposal, in one of the ways allowed (lemmas OnlyRewrite, DecidedStep) |

`Rewards_proofs`. Lemmas on integer division (DivAtLeast, DivAtMost, DivGrows) give what a
claim is worth and that it falls with time (WorthBounds, WorthFalls), and what has
vested and that it grows (VestedBounds, VestedGrows).

| theorem | says | argument |
|---|---|---|
| TypeCorrect | `[]TypeOK` | the types of token and campaign underneath, and of the rewards storage |
| VestingAccounted, NobodyOverpaid | `[]VestingAccounts`, `[]NeverOverpaid` | the invariant ClaimsInv: a pair is claimed under v1, under v2 or not at all, and the entry of each paid pair (Entry) ties schedule, payment, grant and clock together |
| ClaimsWithinBounds, EarlyClaimsEarnMore | `[]ClaimWithinBounds`, `[]EarlierEarnsMore` | Entry says that an entry is worth its terms at its time; the rest is the lemmas on worth |
| CountersCover | `[]CountersCoverClaims` | the invariant Counted: the payments are finitely many and of campaigns that exist, so a claim adds one pair and one to the counter |
| IssuanceIsAccounted | `[]IssuanceAccounted` | Accounted adds that finitely many pairs are paid. A claim extends the sum of the payments by what it issues, a vested payment updates it, and the bonus of a referral is at most a tenth of the claim that is added to the referred ones |
| EntitlementsImplemented | ImplementsEntitlements | each call is a grant (LedgerGrant), a payment within a grant (LedgerPay) or a stutter (LedgerMigrate and the rest) |

`Indexer_proofs`

| theorem | says | argument |
|---|---|---|
| IndexerTypeCorrect | `[]IndexerTypeOK` | TypeInv adds the columns of both tables and the polls, StartupOK the start |
| CursorCovers | `[]CursorCoversHandled` | CoverInv: a poll in flight knows every event before its position settled, and what it will checkpoint; settled events stay settled, so no other poll can spoil this |
| ClaimsConsistent | `[]ClaimsAreConsistent` | IndexerInv: a claim is on chain once and after its campaign (ClaimsOnce, ClaimsFollow), a row with a hash is that claim's (RowsGenuine), an event about to be recorded left its row (WrittenInv), one about to be buried met the row that refused it (RefusedInv) |
| DeactivationsMirrored | `[]MirrorsDeactivation`, if all pollers are one | MirrorInv: everything up to the cursor, and up to the position of the poll, is mirrored, and the poll starts behind the cursor; so no creation is written again that a mirrored deactivation follows. The assumption is the one DocReplay drops |

`MerchantAuth_proofs`, `CampaignApi_proofs`

| theorem | says | argument |
|---|---|---|
| AuthTypeCorrect, TokensEarned | `[]AuthTypeOK`, `[]TokensAreEarned` | NoncesAreFresh: the nonce in store for a key is of one challenge to that key by the running process, and no token has used it; `verify` takes it out before it signs |
| TokensEarnedAmongRequests | `ApiSpec => []TokensAreEarned` | requests, failures and the shutdown leave sign-in alone; time and restarts are its own steps (SignInUnderneath) |
| CreatesAudited | `ApiSpec => []AuditedCreates` | only the COMMIT of `upsertCampaign` adds a row or an entry of the log, and it adds both (lemma StepWrites) |
| ApiTypeCorrect | `[]ApiTypeOK` | ApiInv: sign-in, the locals of each request by where it stands (RequestsOK), the rows (RowsOK: none disappears, locks are on rows of the body), references between the tables (RewardsRefer), the history of writes that reads and invalidations point into (WritesOK), and the stores |
| AnswersToWritesAreTrue | `[]AnswersAreTrue` | AnswersInv adds what a request carries from one await to the next: the owner it compared, the claim it inserted (ClaimsStored), the rows a reorder holds locked until COMMIT so that no other can write between (RowsHeld, OrderIsOneRequest), and where each row comes from (RowsHaveOrigins) |
| CachesHonest | `[]CachesAreHonest` | CachesInv: a list fits its filter from the query on (ListsFit); as long as an entry is stale by a write that invalidates, some request is on its way to delete it, or a failure stopped it (Purged); and an entry expires a time to live after the first write it does not know of (EntriesExpire) |
| ReadsFresh | `[]ReadsAreFresh` | PartsFound: each query of a read saw the table as it was at some moment since the request was sent; tables only gain rows (TableGrows) |

`Frontend_proofs`. Each part has an invariant of its own, proved inductive for
every step of that part; FrontendInv is their conjunction with OthersRest, that the
parts not in use rest. A step of the frontend is a step of each part or leaves
the part alone (OfEachPart), so that FrontendStep is one line per part.

| theorem | says | argument |
|---|---|---|
| FrontendTypeCorrect | `[]FrontendTypeOK` | the types of all parts, and OthersRest |
| CallsReportTruly | `[]CallsAreTrue` | TxInv. CallOK: while a transaction is polled for, the time it is still valid for and the polls made add up to no more than `TIMEOUT`, one more while a wait is on; so at the last poll the ledger either has it already, which the server has not told (GiveUpKeeps), or will not take it any more. WidgetOK: a widget without a reset timer has at most one call under way, and its status says so. Claims: *claim* and the card's success are written only when a call of the card was found to have succeeded, whose key is one the page had; loads, changes of the key and `loadRewards` only take them back (PageKeeps). Nothing is assumed of `LAG` |
| ShownHolds | `[]ShownIsCurrent` | TabsFollow: the last write on its way to a tab is the entry's value, and with none on its way the key is; a tab that writes before it has heard of another's write spoils this, which is `crossed`. LastTells: what became of the last request says what the screen shows, and PageNumbers that a page number is below the number an answer told for the same key |
| ListsHold | `[]ListsAreTrue` | FeedOK: without an overlap there is one request, for the offset after the rows shown and below the total, and rows and offset grow by the same answer (OneSettles, FeedAnswerKeeps); an answer without `campaigns` changes neither (FeedThrowsKeeps). SearchOK: each change of the text or of the campaigns goes through `Filter`, which puts the cursor back |
| WidgetsHold | `[]WidgetsAreTrue` | BoardOK: each toast on the screen has a timer for its end or an animation begun by then (Ticking), each one gone is spent or was pushed out (Left), and no timer is late. TableOK: the page is there unless the list shrank, for more rows have no fewer pages (MoreRowsMorePages, an injection of the rows found). Precedes is a strict total order (SortOrders, SortIsTransitive), so ranks differ and lie below the number of rows (RanksDiffer), and each lies on exactly one page (RankOnOnePage). CardOK: the time left is that of the last firing, a minute before the next |

SignaturesAreGenuine, UpgradeIsGenuine, PauseFreezesCampaigns and AuthTypeOK are proved and
not listed as properties of a run: the first two carry the proofs of properties
that are, and the last is a part of ApiTypeOK.

Only model-checked: liveness under fairness (EventsAreHandled, RequestsAnswered,
FrontendSettles), which needs ENABLED; and the three runs that show a violation.

## 6. Where the code and its documents differ

Three differences are runs of their own (section 4). Each shows in a few steps:

* **A transfer to oneself creates tokens.** `transfer` reads both balances, writes
  the sender's and then the recipient's; for one account the second write
  wins. `fuzz_tests.rs:6` states that the balances always add up to the supply.
  LedgerBalanced states the exact relation.
* **Overlapping polls undo a deactivation.** The comment at `indexer.ts:354` relies
  on idempotent upserts, but an upsert of an old creation after a newer
  deactivation sets `active` again. With one poll at a time the order of the
  batch repairs it (DeactivationsMirrored); `setInterval` allows two.
* **The expiry job deactivates running campaigns.** The indexer stores
  `expiration: 0`, and the job compares that with the time of day.

The models also reproduce, without a run of their own:

*Contracts*

* `propose_set_admin` counts a signer listed twice as two (`token/lib.rs:220`), after which the
  threshold may be out of reach; ThresholdReachable and its proof are about
  lists without repetition;
* `mint` does not look at the pause, which `emergency-pause.md:14` says it does;
* `claim_with_referral` and `claim_vested` do not look at the rewards pause
  (`emergency-pause.md:10`);
* `record_claim` ignores `max_claims` (`campaign/lib.rs:50` and the test at 750);
* `claim_reward` ignores the campaign's `paused` flag (test at `rewards/lib.rs:1238`), and its
  debug assertion at 414 ignores the multiplier;
* `propose_upgrade` asks for a role `initialize` grants to nobody, while its comment
  at `campaign/lib.rs:418` speaks of the admin list: an upgrade of a fresh
  deployment is impossible (LockoutIsForever);
* `migrate_v1_to_v2` runs once, while `storage-migration.md:128` runs it per batch;
* a majority of less than one basis point over half fails (`governance/lib.rs:17` and 220).

*Backend*

* when the database rejects a CREATE TABLE of `startIndexer`, its rejection is logged
  (`index.ts:51`) and nothing more: the process goes on answering requests, but
  never indexes or expires a campaign until it is restarted (`StartupFails`);
* a late checkpoint moves the cursor back (`indexer.ts:351`), a failed dead letter is
  lost (`indexer.md:96`), and the timer ignores the backoff (`indexer.md:53`);
* the indexer's `RWD_RDM` handler never marks the reward redeemed, and the filter of
  `poll()` leaves out the token contract;
* two campaigns posted in one millisecond get one id, and the second upsert
  rewrites the first campaign (CreatesAreKept says what is left);
* the cached list of one owner answers another's request, and the list cache is
  not invalidated by DELETE, restore and reorder (CachesAreHonest);
* `GET /user/:address/rewards` answers after its first query and then queries again; the
  second `res.json` throws, so that the first answer stands;
* `transactionRouter` and `adminRouter` are not mounted by `createApp`; they are modelled as
  their files define them;
* a client that hangs up does not end its handler, which a shutdown can then cut
  off (`ApiRestart`).

*Frontend*

* the list endpoint pages by `page` and ignores `offset` (`campaign.routes.ts:126`-149):
  scrolling appends the first page again and again until as many rows as the
  total are counted (ListLoadedOnce);
* it answers `{data, total, page, limit}` while the dashboard and the search read
  `campaigns`: a first load then shows an error, and the Retry button, a change of key
  or an appended page takes the page down; opening the search takes it down as
  well. `Feed` has both shapes; the other pages are modelled as if their answers
  had the shape they read;
* the rewards endpoint answers `{rewards}` (`reward.routes.ts:62`). `refreshBalance` reads `data`, its
  `reduce` throws and the balance stays 0; `loadRewards` throws before it sets the
  claimed campaigns, so that only an answer of the other shape can overwrite
  them (`LoadClaims` does it or not); a redemption sets the rewards to undefined;
* the claimed campaigns are not reset when the key changes: what one account
  claimed is shown as claimed to the next, until its rewards are read;
* the card of `/campaigns` shows "Claimed!" for two seconds after a click that calls
  nothing (`ClaimOnBrowse`);
* polling ends when the transaction's time bounds do, and leaves nothing for an RPC
  server that tells late: a transaction taken just before the last poll is
  reported as failed (`unseen`);
* `/health` has no `checks`: a 200 counts as "unreachable" and a 503 as "degraded"
  (`useNetworkStatus`);
* the 3 s timer of a failed redemption fires while the next one runs, whose button
  then looks idle (against `RewardList.test.tsx:141`); OneCallAtATime carries
  this exception;
* the merchant page never resets `loading`, so its table is never shown;
  `CampaignTable` is modelled by itself with that page's callbacks;
* `CampaignDetailClient` calls `useCountdown` after early returns: React stops with an error
  once the campaign is loaded (`CampaignScreen`), so its claim button is never reached;
* handlers reload with the key they began with; the history page keeps its
  page number when the key changes; after a failed load the rows of the key before
  stay; a reload of the dashboard that overlaps a page makes the list
  and its count differ;
  `CampaignTable` keeps its page when its list becomes shorter. PageInRange, SettledIsCurrent,
  ListLoadedOnce and TablePageInRange say exactly when (`changes`, `error`, `overlap`, `shrunk`);
* `api.reorderCampaigns`, which `SortableCampaignList` calls, does not exist: every drag
  is rolled back.

## 7. What is not modelled

* *Backend*: rate limits, validation and sanitising, which are stateless or state
  kept by a library; `GET /campaigns/:id`, `/health` and `/metrics`, which only read;
  `experiments.ts`; environment, secrets, logger; names, images and amounts of
  rows. The filters, periods and pages of the uncached reads are left out.
* *Indexer*: the MINT and BURN handlers, which never run because the filter of `poll()`
  does not name the token contract.
* *Contracts*: storage expiry (TTL) of Soroban entries, and the shape of names and
  descriptions.
* *Frontend*: layout, translation, theme, onboarding, charts and components that hold
  no state; `useTxProgress`, `SortableCampaignList` and `ImageUpload`, which no page
  uses; the amount of the balance; Freighter's installation checks. `RedeemForm` and the deactivation of a card are not used by a page
  either; they are modelled as their tests render them.
* *Migrations, scripts, monitoring and infrastructure*: run by an operator by
  hand, or configuration.

The models assume what the code relies on: signatures cannot be forged and
nonces do not repeat, Postgres detects deadlocks and rolls back, a contract call
is atomic, localStorage orders its writes.
