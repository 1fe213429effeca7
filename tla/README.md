# Verification of sf-api (Sabo Finance)

sf-api is the server of a peer-to-peer currency exchange: users hold wallets in
NGN and in foreign currencies, list foreign currency for sale or ask to buy it,
trade against each other's listings with both sides held in escrow, bid below a
listed price, dispute trades, deposit and withdraw. It is an Express server over
PostgreSQL. This directory holds TLA+ modules of its core, the TLC runs that
check them on small instances, and theorems that TLAPS proves for every
instance. Paths below are relative to `src/` of the repository's root, so
`services/walletService.ts` is `src/src/services/walletService.ts`.

## 1. Inventory

Everything runs the same way. A handler validates its input and then works inside
`withTransaction` (`database/transaction.ts`): BEGIN, queries on one connection,
COMMIT, or ROLLBACK on any exception. Isolation is READ COMMITTED; what a handler
decides on it mostly reads `FOR UPDATE`. Timers run beside the requests: the three
expiry jobs, the exchange rate sync, the anomaly detector and the flush of metrics, each
started by `setInterval` whether or not its last run has ended. All state is in the
database, which handlers, jobs and webhooks share, except two things the process keeps in
memory: the count of failed syncs and the metrics not yet written.

| part | state | operations that change it | what makes it correct |
|---|---|---|---|
| wallets (`services/walletService.ts`) | `wallets(balance, locked_balance)`, one per user and currency | credit, debit, lock, unlock, transferFromLocked | nothing negative, no update lost, money neither made nor destroyed |
| listings (`modules/sabits`) | `sabits(available_amount, status)` | createSabit, cancelSabit | never oversold; what is available is locked; used up iff completed |
| trades (`modules/trades`, `jobs/pinExpiryJob.ts`) | `trades(status, pin_expires_at)` | initiateTrade, sellerConfirmTrade, checkExpiredTrades (60 s) | ends once, at its terms; both sides held until then and released after |
| bids (`modules/bids`, `jobs/bidExpiryJob.ts`) | `bids(status, expires_at)` | placeBid, acceptBid, rejectBid, withdrawBid, checkExpiredBids (5 min) | the bidder's NGN is held while pending and comes back otherwise |
| disputes (`modules/disputes`, `modules/admin`) | `disputes(status)` | raiseDispute, resolveDispute | agrees with the trade; decided once |
| deposits (`modules/deposits`, `jobs/depositExpiryJob.ts`) | `deposits(status)` | initiate, webhook, foreign, cancel; approve, verify, reject by admins; checkExpiredDeposits (1 h) | credited once, and only for what was paid or approved |
| withdrawals (`modules/withdrawals`, `modules/admin`) | `withdrawals(status)` | request, approve, reject | debited at once, paid out or given back, never both, never neither |
| ledger (`database/entities/LedgerEntry.ts`) | append-only rows, `reference` UNIQUE | written by WalletService and by bids | explains every balance |
| references (`services/referenceService.ts`) | a counter per year and scope | nextReference | unique, no gap that is used twice |
| Flutterwave (`providers/payments`) | external: links, payments | link, webhook, verification | - |
| identity (`modules/auth`, `modules/account`, `services/loginLockout`, `refreshToken`) | one-time code and its purpose, failed logins, refresh tokens, PIN | register, login, verify, refresh, reset, lock out, e-mail change, deletion | a code works once and for its purpose; a token is replaced by exactly one |
| members (`modules/kyc`, `beneficiaries`, `ratings`, decisions in `modules/admin`) | `kyc`, `beneficiaries(is_default)`, `trade_ratings`, `users(role, kyc_status)` | upload, approve, reject; create, delete, set default; rate | who counts as verified was verified; one default per currency; one rating per party |
| transactions (`database/transaction.ts`) | connections of the pool, row locks | withTransaction, also within another | a handler is one step or none; nobody waits for ever |
| conversions and rates (`modules/conversions`, `company-rates`, `exchange-rates`) | company rates, provider rates | upsert, quote, execute | a conversion debits and credits, or neither |
| rate sync (`jobs/fx-rate-sync*`) | failure counter (memory), incident, heartbeat | sync | a lasting outage is reported, its end closes the report |
| monitoring (`services/incident`, `reliability`, `anomaly-detector`, `threat-score`, `securityEvent`; metrics middleware) | incidents, heartbeats, metrics (memory and table), events | record, open, resolve, score, flush | one open incident per source; what is wrong gets one, what is over loses it |
| notifications, mail, KPIs, queries, routing, permissions | rows nobody decides on, static tables | - | - |

How they interact: listings, trades, bids and disputes call WalletService and
change each other's rows inside one transaction (a trade takes from its listing,
a job or a verdict gives back; an accepted bid becomes a trade). Deposits and
withdrawals call WalletService and write the ledger under references of their
own. Mail and Flutterwave are called from inside transactions, so their failures
roll money movements back. Every user request passes middleware that reads the user's row;
the handler does not read it again. The detector reads what everybody else reports and
writes incidents; the rate sync, the detector and the recorder of security events open
them through the same function.

What is hard here: the order in which confirmations, jobs, disputes, bids and
cancellations reach the same rows; work done by two parts of the code in two
currencies and undone by a third; branches that write and then throw; batches
that roll back together; a webhook that reads without a lock and comes late or
twice; rounding; row locks taken in any order, and a pool that nested transactions can use
up; timers that overlap themselves, with state in memory that a restart forgets and state in
the database that it does not. `PROJECT.json` lists each of these at its line with the
properties that would catch it.

## 2. Modules

| module | what it is |
|---|---|
| `Sums` | sums over the rows of a table, as SQL's SUM |
| `Wallets` | WalletService: operators on the wallets table and the checks that throw |
| `Exchange` | what the marketplace promises, without listings, locks, bids, windows or jobs: an abstract specification |
| `Escrow` | listings, trades, bids, disputes and the two jobs; implements `Exchange` |
| `Funding` | deposits, withdrawals, the ledger, Flutterwave and the deposit job |
| `Identity` | accounts: registration, codes, lockout, sessions, resets, deletion, invitations |
| `Serial` | what `withTransaction` promises: the rows change as if functions ran one after the other; an abstract specification |
| `Transactions` | `withTransaction` statement by statement: row locks, references, the pool; implements `Serial` |
| `Members` | identity checks, beneficiaries, ratings, and the middleware in front of them |
| `Telemetry` | the rate sync and the metrics of responses, over memory, restarts and outages |
| `Monitoring` | cycles of the anomaly detector, heartbeats, incidents, security events |
| `EscrowTheorems` | the theorems about `Escrow`, and about `Exchange` as far as `Escrow` inherits them |
| `FundingTheorems`, `IdentityTheorems`, `TransactionsTheorems`, `MembersTheorems`, `TelemetryTheorems`, `MonitoringTheorems` | the theorems about the modules of those names |
| `TableTheorems` | the lemmas they share: sums, tables kept as sequences, induction |
| `MCEscrow`, `MCFunding`, `MCIdentity`, `MCTransactions`, `MCMembers`, `MCTelemetry`, `MCMonitoring` | instances for TLC |

**One handler is one action** in `Escrow` and `Funding`. It is taken only when no check
throws and every WalletService call returns; its primed variables are what the
transaction commits. This is faithful because each handler reads the rows it decides on
`FOR UPDATE` and keeps them to the end, and because a throw rolls everything
back; that this is enough is what `Transactions` shows of the functions on wallets and
references. Where a handler decides on rows it has not locked, or works in several
transactions, it is several actions (`Identity`, `Members`, the webhook). Two consequences are visible in the modules:

- A branch that writes and then throws changes nothing. `sellerConfirmTrade` on an
  expired trade cancels it, restores the listing, unlocks the funds and throws
  `PIN_EXPIRED` (`trades.controller.ts:348-406`): all of it is rolled back, and
  the caller is told the trade was cancelled while it is still in escrow until the job
  comes. `acceptBid` on an expired bid is the same.
- `flutterwaveWebhook` is the exception to `FOR UPDATE`. It is two actions,
  `WebhookReads` and `WebhookCredits`, and anything may happen between them. (The
  two statements of its transaction are one step: another transaction cannot
  commit a credit of the same deposit between them without the UNIQUE reference
  in the ledger stopping one of the two.)

**Time** is an event: `PassPinWindow`, `PassBidWindow` and `PassDepositWindow` are
the clock passing a row's deadline. A job takes any non-empty part of the expired
rows (`FOR UPDATE SKIP LOCKED`) in one transaction.

**Money** is counted in hundredths. Products of two amounts are rounded half up
as `toFixed(2)` does (`NgnValue`), with the number of hundredths in a unit as a constant
so that TLC can round with small numbers.

**Left out** of `Escrow` and `Funding`: authentication, permission and KYC middleware (each
action is a request that passed it, by any user); the check of a PIN's value (whether a
PIN is set at all is modelled); input validation other than what the amounts
range over; notifications, mail, logs; suspended users, which the middleware turns
away (it is modelled in `Members`). The enum values `SabitStatus.suspended`, `TradeStatus.initiated` and
`confirmed` are never assigned by the code; they stay in guards that name them.

### Escrow and the code

`wallets`, `sabits`, `trades`, `bids`, `disputes` are the tables, `pinSet` is the column
`transaction_pin_set`. `CreateSabit`, `CancelSabit`, `InitiateTrade`,
`SellerConfirmTrade`, `RaiseDispute`, `ResolveDispute`, `PlaceBid`, `AcceptBid`,
`RejectBid`, `WithdrawBid`, `PinExpiryJob`, `BidExpiryJob` are the functions of
those names. `Committed`, `Stranded` and `Overdrawn` are not in the code: they
say what the locked money of an account is for, what is locked for nothing, and
what was released although a listing still counts on it.

### Funding and the code

`deposits` and `withdrawals` are sequences: the place of a row is the number in
its reference, because `nextReference` is part of the transaction that inserts
it. `ledger` maps references to rows, `links` and `payments` belong to Flutterwave,
`handling` is what each running webhook transaction has read. A payment is what
the event `charge.completed` stands for; the webhook does not look at
`data.status`, `verifyFlutterwaveDeposit` does, and the model assumes the event
means a payment that succeeded. After a failed `initiateNgnDeposit` the reference is
rolled back and the link stays, so a later deposit may share a link with an
earlier attempt (`InitiateNgnDepositRollsBack`); the checks of the webhook are
what keeps that harmless.

The table of withdrawals is a pair of constants. `InitialStatus = "requested"` with
`ExpectedColumns` is the table the handlers are written for; `"pending"` with
`MigratedColumns` is the one the migrations create. The passing runs use the first, because under the
second no admin action on a withdrawal can succeed: that is what run
`funding_undecided` shows (section 4).

### Identity and the code

`users`, `invites`, `tokens` are the tables `users`, `admin_invites`, `refresh_tokens`; `code`
is the four columns `otp`, `otp_expires`, `otp_purpose`, `otp_target_email` of a user. `mails` and
`links` are what was sent, `proven` and `honoured` are history: who has shown to receive mail where, and
which code was accepted for what.

Login, verification, refresh and reset each work in two to four transactions, so here one handler is
several actions and `handling` says how far each request is: `Login`, then `LoginFails` or `LoginClears`, then
`LoginIssues`; `VerifyOtp`, `VerifyClears`, `Persists`; `RefreshAsserts`, `RefreshChecks`, `RefreshRevokes`,
`Persists`; `ResetReads`, `ResetCommits`. `Fails` ends a request between two of them. The handlers
under `/account` and the admins' handlers are one transaction and one action each, named as in the code.
The failed logins are counted up to `MaxFailures`, beyond which the code
draws no distinction.

What the steps let happen, and the code does: a login code can be accepted by two requests; a
verification empties the slot of a code issued after it looked; a refresh under way stores a
token after a logout has revoked them all; an old invitation makes an `admin` of a `super_admin`.
The properties say what holds nevertheless.

### Transactions and the code

A function given to `withTransaction` is a sequence of statements on rows: `Select` is
`SELECT ... FOR UPDATE`, `Update` an UPDATE to a value computed from what was selected,
`InsertIfAbsent` the INSERT of `nextReference` when its SELECT found nothing. `ChangeBalance`,
`TransferFromLocked`, `NextReference`, `SettleTrade` and `Convert` spell out what the functions of
the code send, in their order. A request is at `Connect`, at one of its statements, at `Commit`
or `Rollback`, or at `Release`; each is an await, where others go on. A row is one number: the
column the function changes. The two columns of a wallet and the many of a trade add no other order of locks.

What PostgreSQL does is modelled from how the code relies on it (READ COMMITTED): a locking SELECT or an
UPDATE waits for the holder of the row, a SELECT sees no uncommitted row, a second INSERT of one key waits
for the first and then fails, one transaction of a circle of waiting ones is chosen to fail. Any statement may
fail for any reason (`Rollback`). `open` and `close` are a `withTransaction` inside another, which takes a second
connection of the pool. `pg` lets a request wait for a connection without limit, for `data-source.ts` sets none.

### Members and the code

`role`, `status` (the column `kyc_status`) and `blocked` are columns of `users`; `kyc`, `exists` with
`default`, and `ratings` are the tables. `Admitted` is the middleware: `authMiddleware`, `requireVerifiedUser`,
`adminMiddleware` and `requirePermission` read the user once, and whatever changes afterwards (a suspension, a rejected
identity check, a role taken away) does not stop the request. Uploads, decisions, creation and deletion are one step
each. `setDefaultBeneficiary` is five: it selects the beneficiary without a lock, its first UPDATE finds the
defaults and then waits for each of them, its second UPDATE waits for the target, then it commits.
`submitRating` is three. `Fails` is any throw, a mail that cannot be sent included. `setUp` and `alone` are history: who was made by
`completeAdminSetup`, and whether another set-default of the same user and currency has overlapped a request. `Blocks` lets
a deleted user come back, which the code does not; more happens in the model than in the program, so what holds in it holds there.

### Telemetry and the code

A sync is at one of the awaits of `syncFxRates` and `recordFxSyncResult`; `guarded` says whether a throw there lands
in the catch block, which counts a failure, or ends the sync. `failures` is `fxConsecutiveFailures`, kept up to one past the threshold.
`pending` is `pendingMetrics`; `batch` is what each running `flushMetrics` has taken. `Crash` empties what
is in memory and leaves the database. A database that is away fails every call until it is back.

### Monitoring and the code

A cycle goes through the detectors of `runAnomalyDetectionCycle` in their order (`turn`) and, within one, from await to await
(`phase`). `Throws` is the difference that matters: `checkDatabaseConnectivity` catches what its try block throws, every other
throw ends the cycle (`Aborts`), and the detectors that follow do not run. `open` counts the open incidents of a source; that
the INSERT of a second fails is the unique index `IDX_incident_events_open_source`. `beat` and `old` are the newest heartbeat of a
component and whether it is past the threshold; `Ages` is the clock. The source `heartbeat_missing:c` is written as the component `c`.
Events that nothing reads again are not kept, so the detectors of jobs and of transactions are steps that may only fail.
`Scores`, `WritesRow`, `LooksForThreat` and `InsertsThreat` are `recordSecurityEvent`, whose errors are logged and forgotten.

## 3. Runs

| run | instance | checks |
|---|---|---|
| `escrow_market` | 2 users, 2 listings (SELL and BUY), 2 trades, 1 bid, amounts and rates 1..2, `Cents = 2` | `TypeOK`, `MoneyConserved`, `LockedAccounted`, `NoOversell`, `DisputesAgree`, refinement `KeepsContract` |
| `escrow_sell` | 3 users, 1 SELL listing, 2 trades, 1 bid, amounts and rates 1..2, `Cents = 2` | `EscrowBacked`, `ExpiredTradeEnds`, `ExpiredBidEnds` |
| `funding_books` | 1 user, 2 deposits, 1 withdrawal, 2 deliveries | `TypeOK`, `LedgerExplainsBalances`, `CompletedIffCredited`, `CreditsArePaidFor`, `RefundedIffFailed`, `SettledStays`, `StaleDepositEnds` |
| `identity_sessions` | 1 user, 2 addresses, 2 requests, 2 codes, 2 tokens, lock after 2 failures | `TypeOK`, `CodeServesItsPurpose`, `SpentCodesAreGone`, `LockFollowsFailures`, `ReplacedIsRevoked` |
| `identity_accounts` | 2 users, 2 addresses, 1 request, 1 code, 1 invitation | `VerifiedIsProven` |
| `transactions_locks` | 3 requests, 4 wallets, 1 sequence that ends at 2, 2 connections | `TypeOK`, `NothingLost`, `ReferencesUnique`, `PoolNeverStuck`, refinement `RunsSerially`, `EveryTransactionEnds` |
| `telemetry_faults` | 2 syncs, 2 flushes, 1 response, threshold 2, 1 restart | `TypeOK`, `MetricStoredOnce`, `OutageIsReported`, `RecoveryCloses` |
| `monitoring_cycles` | 2 cycles, 2 components, 2 recorders | `TypeOK`, `SilenceIsReported`, `WhatIsOverIsResolved`, `ThreatIsReported` |
| `members_requests` | 2 users, 2 requests, 2 submissions, 3 beneficiaries, 1 trade | `TypeOK`, `VerifiedHaveRecords`, `OneRatingPerParty`, `LoneDefaultIsUnique` |
| `escrow_stranded`, `escrow_released_twice`, `funding_undecided` | the smallest instance that shows it | one property each, violated |

Why the bounds are enough. Two trades and a bid on one listing are the least in
which a job, a verdict or a bid meets a listing that another trade uses: every
pair of handlers that share a row occurs. A third user
(`escrow_sell`) lets a bidder and a buyer compete for one listing. Both kinds of
listing are needed because the roles of buyer and seller, and so the currency each
handler locks, swap. Two foreign currencies would add nothing: no handler relates
them. Amounts 1..2 allow a partial and a full take. Two deliveries of a webhook are a
duplicate; two deposits may share a link. Deposits and withdrawals of different users share nothing. In
`Identity`, rows meet only in the UNIQUE address, which takes two users, and requests of one
user meet in the slot, the counter and the tokens, which takes two of each. Larger amounts matter
only for rounding. Both runs have `Cents = 2`: at the rate 1 the price of one unit is half a hundredth and
rounded up, at the rate 2 it is whole, so `LockedAccounted` is seen in the listings it allows a hundredth per part and in those
it allows none. The sets of users, ids,
addresses and requests that carry symmetry do so in runs without liveness.

`transactions_locks` has the least that can deadlock in two ways (two settlements, and two conversions, in
opposite directions over the four wallets of two users), with a third request that draws a reference, debits, or nests. Three
requests draw from one sequence that has no row yet and ends at 2, so the first row, a conflict and
exhaustion all occur. With two connections and one nesting request the pool is full and frees
itself; with as many nesting requests as connections it would not, which is the assumption of the theorem. In
`telemetry_faults` two syncs and two flushes are an overlap, the threshold 2 is one failure below and one at it, and one restart can lie
anywhere. In `monitoring_cycles` two cycles overlap, "database" is the component the detector reports itself
and "background_jobs" one it only watches. In `members_requests` two beneficiaries share a currency
and a third does not, two submissions are an old and a new one, two requests race. `MCMonitoring` and `MCMembers` let a behaviour work on
one kind of row (`scenario`), as the detectors, and identity checks, beneficiaries and ratings, read no row
of one another; the theorems of `Members` need no such split.

`EscrowBacked` is checked for SELL listings only, because it is false with BUY
listings (next section). `ExpiredBidEnds` likewise. `CHECK_DEADLOCK FALSE` in the runs of `Escrow`, `Funding` and `Identity`: an instance ends
when its ids are used up, the program does not. The other runs check for deadlock. `Escrow`, `Funding`, `Identity` and `Members` share no row that
one of them decides on, other than the role and suspension of a user, which the middleware checks
before; `Telemetry` and `Monitoring` write incidents of different sources. So they are not composed.

**Fairness.** `server.ts` imports the jobs and `setInterval` calls them for ever. Fairness
is `WF` on the run of a job that takes every expired row: a run that
finds none of them locked. It is not assumed that part of a batch succeeds when
the whole cannot, because one exception rolls back the batch. The same timers start a
sync, a flush and a cycle of the detector again and again, and a call to the database returns or throws: `WF` on their
starts and steps. In `Transactions` the event loop goes on with any statement that the database answers (`WF` on
`Advance`), and what must throw does (`WF` on `MustThrow /\ Rollback`: a failed check, a duplicate key, a deadlock that
PostgreSQL finds). Nothing is assumed of users, admins, webhooks, or of the database and the provider coming back; the
liveness properties name those as premises (`<>[]dbUp`, `<>[]~fxUp`).

**Mutants.** Each property has a mutant, an operator beside the one it replaces (its
comment begins with "As ..."), which is the code with a plausible slip: a dropped check,
a lost update, a job that forgets a status. TLC finds the property violated with it.

## 4. What the runs found

- **Locked for nothing** (`escrow_stranded`, `pinExpiryJob.ts:24`). The job cancels a trade
  and restores the listing, but unlocks nothing. `instructions.md:263` says the job
  "ensures no funds are stuck in limbo"; `ARCHITECTURE.md:433` that it
  "Unlocks buyer funds". `LockedAccounted` gives the account of all amounts
  that are stranded: these, the second lock of an accepted bid, and the seller's currency
  after a verdict for the seller.
- **Released twice** (`escrow_released_twice`, `admin.controller.ts:1452`). A verdict for the buyer of
  a trade on a BUY listing unlocks the NGN that the listing, reopened, still
  counts on. Cancelling the listing takes it from a bid of the same user, and `bidExpiryJob`
  then fails for ever on the batch that holds the bid.
- **Undecidable withdrawals** (`funding_undecided`, `admin.controller.ts:771`). New withdrawals
  are 'pending', which approval does not accept; rejection updates columns that no
  migration creates.

Seen while reading, without a run:

- Listings. A listing used up by a trade that `pinExpiryJob` cancels has its amount back and stays completed (`pinExpiryJob.ts:36`):
  no new trade or bid can take the amount, and the owner cannot cancel the listing (`sabits.controller.ts:238`). The comments at
  `trades.controller.ts:237` and `:362` say that such a listing is reopened; the branch that does it is rolled back.
- Money. Rounding per trade (`trades.controller.ts:211`) and once per listing do not add up: the trades on a BUY listing may
  need more than was locked, up to a hundredth for each trade and each return (`LockedAccounted`). `placeBid` updates a ledger row it has just
  written (`bids.controller.ts:139`) while `README.md:85` of the repository says "append-only (no updates)". A failed webhook is
  answered with 200 and so is not sent again, which leaves a paid deposit to an admin. A conversion reads its rate, and a cross
  conversion its two rates, in transactions before the one that uses them.
- Transactions. The webhook locks wallet before deposit and `approveDeposit` deposit before wallet, `transferFromLocked` locks
  two wallets in the order of the roles: PostgreSQL breaks such a circle and one request fails, nothing is half done
  (`RunsSerially`, `EveryTransactionEnds`). `withTransaction` inside `withTransaction` (`reliability.controller.ts:82`, the checks of the
  detector) uses up the pool when as many requests as it has connections nest at once; nobody times out.
- Accounts. `POST /auth/google-signup` reads a variable that does not exist (`auth.controller.ts:407`) and always fails. "Admin accounts
  cannot be self-deleted" is checked when the deletion begins and not when it is confirmed (`account.controller.ts:313`).
  `completeAdminSetup` makes a user whose identity counts as verified without a submission, and `removeAdmin` leaves it so, against the
  rule that `1775220000000-BackfillKycForVerifiedUsers.ts:4` restores. Two overlapping `setDefaultBeneficiary` leave two
  defaults until the next one that nothing overlaps (`beneficiaries.controller.ts:187`).
- Monitoring. `docs/RELIABILITY_SECURITY_REPORT.md:21` of the repository says incidents resolve by themselves; those of stale rates
  (`heartbeat_missing`) and of critical security events have no code that resolves them. The catch block of
  `checkDatabaseConnectivity` begins with an INSERT into the database that has just failed. `/health` answers 503 when a component, the
  webhook say, has had nothing to report for half an hour. The rate sync takes 1 for a GBP or CAD rate that the provider left out
  (`fx-rate-sync.worker.ts:75`). `checkEndpointLatency` is started without a catch (`requestMetricsMiddleware.ts:62`): when its INSERT
  fails, the rejection ends the process, which is one of the causes of `Crash`.

## 5. What is proved

`EscrowTheorems`, for all sets of users and ids, all amounts, rates, opening balances:

- `TypeCorrect`: `Spec => []TypeOK`, so no balance is ever negative.
- `DisputesConsistent`: `Spec => []DisputesAgree`.
- `EscrowKeepsContract`: `Spec => KeepsContract`, that is, `Escrow` implements `Exchange` under the
  mapping that adds up each wallet and reads trades as deals.
- `EscrowConserves`: `Spec => []MoneyConserved`, and `TradesStandAsMade`: no step changes the terms of a trade, and one that has
  ended stays as it ended (`DealsStand` of `Exchange`). Both are proved of the contract alone (`StepIsSound`) and hold of `Escrow` because it
  implements the contract.
- `NothingOversold`: `Spec => []NoOversell`, at any price.
- `BooksKept`: `Spec => []LockedAccounted`, at any price and with any mix of listings: the locked balance of every account is what
  counts on it, what is stranded there, less what is released twice, but for a hundredth for each rounding of a part of a BUY listing.
  Where there is none, or prices are whole, it is exact.
- `PromisesBacked`: `Spec => []EscrowBacked`, assuming that there are no BUY listings, at any price.

The inductive invariant `IInv` adds to `TypeOK` that rows refer to rows that exist
(`Related`), that nobody trades with himself (`Parties`) and `DisputesAgree`. Without `Related` the
job could restore a listing that is not there; without `Parties` a settlement would
write one wallet twice; without `DisputesAgree` confirming a trade that already has
a dispute would look like an award. There is a lemma per action for the
invariant and one per action that moves a deal for the refinement.

The books need more (`BInv`): `Origins`, that trades and bids have the terms of their listing (or an
amount that returns to a listing would not be what left it), and `Accounted`, the books written row by row.
`LockedAccounted` adds up parts of tables, chosen by conditions that a step changes; `Accounted` adds up, over all
rows, what each row claims of the locked money of a user and currency (`SabitClaim`, `TradeClaim`, `Overdraft`, `BidClaim`), so that a step
replaces the claim of the row it writes and the lemma of its action compares two claims with what it does to the wallet.
`BooksByRow` proves that the two ways of adding up agree. `Accounted` balances up to the sum of `Slack`, the share each trade has in the
roundings: 1 for a trade that cut a part off a BUY listing whose price rounds (`PriceRounds`), 2 once the part has come back. What locks for two parts of a listing is what
locks for the whole, up to a hundredth (`HoldsNearlyAdd`, from `QuotientFits`: a division rounds by less than one), and the step that cuts
or returns a part is the step that adds to the slack. `pinExpiryJob` writes any number of rows at once; its lemma is an induction over
the set of trades it ends (`OneMoreEnds`, `OneMoreSlack`). No step needs an assumption on prices: where the price of a unit is whole the parts
add up (`WholePrice`), and elsewhere the slack pays for the difference. `SlacksAreRoundings` shows that the slack of all trades is
`Roundings`, and so one invariant gives both theorems about the books. SELL listings lock amounts, not products, which is why `EscrowBacked` needs no slack there.

`NoOversell` is inductive with `IInv`: what a listing has available and what its open and completed trades hold
(`Sold`) move against each other.

`FundingTheorems`, for all users, amounts and any number of deposits, withdrawals and deliveries:
`FundingTypeCorrect` (`TypeOK`), `LedgerIsComplete` (`LedgerExplainsBalances`), `CreditedOnce`
(`CompletedIffCredited`), `CreditedForPayment` (`CreditsArePaidFor`), `RefundedOnce`
(`RefundedIffFailed`) and `SettledForGood` (`SettledStays`): every property of `funding_books`.
The inductive invariant adds `LedgerOfRows` (the ledger is finite and has rows only for deposits and
withdrawals that exist, so a new one finds its reference free) and `HandledPaid` (a webhook
transaction under way handles a deposit that was paid for; this is what survives between its
unlocked read and its credit). Why the late webhook is harmless is `SettledByCredit`: a completed
deposit has its reference in the ledger, so the second credit runs into the UNIQUE index.

`IdentityTheorems`, for all users, addresses, limits and any number of requests under way:
`IdentityTypeCorrect` (`TypeOK`), `VerifiedAreProven` (`VerifiedIsProven`), `CodesServeTheirPurpose`
(`CodeServesItsPurpose`), `SpentCodesStayGone` (`SpentCodesAreGone`), `LocksFollowFailures`
(`LockFollowsFailures`) and `ReplacedTokensAreRevoked` (`ReplacedIsRevoked`): every property of the two
passing runs. The inductive invariant adds what the properties lean on:

- `SlotsFollowMails`: a slot says what the mail of its code said, and no other slot has that code. Without
  it a code could change its purpose by being moved, or be spent in one row and live on in another.
- `LinksAreCurrent`: a link verifies only an account that still has the address it went to, since
  an address changes only through a code, which verifies. Without it `verifyEmail`, which ignores the address in
  the token, could verify another one.
- `ChangesGoToTarget`: the code of a change was mailed to the new address.
- `HandedOver`: what a request between two transactions may rely on. A token it looked up is
  in the table; one it is about to replace has been revoked, and nothing revives a token.

`LockFollowsFailures` is inductive as it stands. The proof does not go through the 37 actions once per conjunct:
`Slots` and `Rows` first sort the steps into the few things they can do to a slot or a row, and the
invariants are proved for those.

`TransactionsTheorems`, for any requests, programs, rows, opening balances and sizes of the pool: `TransactionsTypeCorrect`
(`TypeOK`), `NoLostUpdate` (`NothingLost`), `NoSharedReference` (`ReferencesUnique`), and, assuming that fewer requests nest
transactions than the pool has connections, `NestingLeavesRoom` (`PoolNeverStuck`). The inductive invariant (`LocksAreSound`) is how
row locks work: a locked row belongs to a running transaction (`LockedByRunning`), who holds a row has a view of it and nobody else
does (`InViewIffLocked`), that view is the committed row plus the holder's own changes (`ViewIsCurrent`; without it a commit could
overwrite another's), and what is committed is accounted for (`Accounted`). The pool's theorem needs another one, `PoolInv`: who holds
a second connection is inside an inner transaction, so it is not waiting for one. A full pool in which all wait would then hold
one connection per request, all of them nesting, and there are too few of those.

`OneAfterTheOther` is the refinement, `Spec => RunsSerially`: `Transactions` implements `Serial` for any programs and any interleaving. The
invariant it needs is `Follows`: if the program of a running transaction ran alone from the tables as they are committed NOW, its
statements so far would have taken them to what the transaction sees (`Along`). A statement of its own goes one step along that
course (`AlongStep`). A commit of another moves the start of the course, but only in rows this one has not locked, hence not
written (`AlongOther`); that a row takes its course by itself (`CourseLocal`) and keeps its contents until it is written (`CourseUntouched`)
are inductions over the statements. At its own commit the course is the whole program (`AlongEnd`). So the commits are the
serial order. What the proof turns on is that nothing is written that was not read `FOR UPDATE` or inserted by the same
transaction: `Accepted` refuses a row that is not in view, and what is in view is locked.

`MembersTheorems`, for any users, requests, submissions, beneficiaries and trades: `MembersTypeCorrect` (`TypeOK`),
`VerifiedUsersHaveRecords` (`VerifiedHaveRecords`), `OneRatingAlways` (`OneRatingPerParty`) and `LoneDefaultAlwaysUnique`
(`LoneDefaultIsUnique`): every property of the run. The inductive invariant (`RequestsAreSound`) adds `WorkFits` (a request is at a
statement of its own handler, and one that has read the trade is of a party of a completed one), `AloneIsAlone` (two set-defaults that have
both begun are neither alone) and `LoneSeesAll` (what a lone one has found, and then unset, is all the
defaults there are; without it a default set between its statements would survive).

`TelemetryTheorems`, for any syncs, flushes, responses, thresholds and restarts, and `MonitoringTheorems`, for any cycles, recorders and watched
components: `TelemetryTypeCorrect` and `OneIncidentPerSource` (the `TypeOK` of `Telemetry` and of `Monitoring`) and `StoredOnceAtMost`
(`MetricStoredOnce`). The invariant of the metrics is `Whereabouts`: a metric is still to come, in the list, in the batch of one flush,
or stored, and in no two of these; that a flush takes the whole list before its first await is what makes it inductive. In `Monitoring`
the invariant adds `AtSource`: only detectors that have a source of incidents get to the steps that open or resolve one.

Assumed are only the `ASSUME`s of the modules: users and ids finite, amounts and rates natural,
NGN not among the foreign currencies, an inner transaction that ends and opens no third, statements that name the row they read or
write (`RowsAssumption`). `TableTheorems` proves the laws of sums that the library lacks
(a sum splits over disjoint sets, a move between two rows leaves it alone, one more row adds its value) by counting units
with the theorems on finite sets. The library's induction theorems take an operator, which the provers cannot instantiate;
`SubsetInduction` is an induction over finite sets that takes a set instead, from the well-foundedness of strict inclusion, and
`TotalOfSum` (columns add row by row) is proved with it. `CountUp` is the same for the natural numbers, from which come the existence
of the recursive function in `Serial` (`CourseExists`) and the facts about it.

Only model-checked: liveness (`ExpiredTradeEnds`, `ExpiredBidEnds`, `StaleDepositEnds`, `EveryTransactionEnds`, `OutageIsReported`,
`RecoveryCloses`, `SilenceIsReported`, `WhatIsOverIsResolved`, `ThreatIsReported`), because the prover does not do fairness. Every
safety property of a passing run is a theorem, with the assumptions named above: `EscrowBacked` is false with
BUY listings, `PoolNeverStuck` with as many nesting requests as connections.

## 6. Not modelled

- Quotes, company rates and provider rates: numbers that are read. Only the wallet transaction of a conversion is modelled.
- The ledger rows that bids write outside WalletService, evidence and messages of disputes, profile pictures and user names.
- Notifications and mail as rows (that a mail may fail inside a transaction is modelled), KPIs, reports and lists, which nobody reads to decide anything.
- The seeds (`database/seed*.ts`), which fill an empty database for a demonstration, and `types/api-contracts.ts`, which has no behaviour.
- Signatures, hashes, HTTP, routing, validation and rate limits.
- Events of the detector that no code reads, latencies and percentiles.

## 7. Plan

Done: the escrow and its contract, funding, identity, transactions and their locks, members, telemetry, monitoring, and proofs of their
safety properties. Left, in order:

1. `Conversions`: company rates, quotes and conversions with the rate read before the transaction, composed with `Transactions`.
2. The ledger rows of escrow movements, with the UPDATE in `placeBid`.
